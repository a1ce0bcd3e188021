------------------------------- MODULE MCKeyboard -------------------------------
(***************************************************************************)
(* Two cores and five things a user types.                                 *)
(***************************************************************************)
EXTENDS Keyboard

MCScript == {
    <<42, 30, 170, 30>>,      \* Shift down, a, Shift up, a
    <<58, 30, 69, 71>>,       \* Caps Lock, a, Num Lock, 7 of the number pad
    <<69, 71, 224, 71>>,      \* Num Lock, 7 of the number pad, Home
    <<225, 29, 69, 30>>,      \* half of Pause, a
    <<58, 186, 58, 2>>}       \* Caps Lock down, up and down, 1
MCByte == UNION {{s[i] : i \in DOMAIN s} : s \in MCScript} \cup {0, ACK, RESEND}
===============================================================================
