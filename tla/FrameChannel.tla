----------------------------- MODULE FrameChannel -----------------------------
(***************************************************************************)
(* What a transport promises the code above it when its network keeps      *)
(* datagrams in order: frames are handed over whole and in the order they  *)
(* were sent, each at most once, and some may be missing.                  *)
(***************************************************************************)
EXTENDS Naturals

VARIABLES
    sent,  \* how many frames were sent
    got    \* the number of the frame last handed over; 0 if none was

Init == sent = 0 /\ got = 0

Send == sent' = sent + 1 /\ UNCHANGED got

Deliver == got' \in (got + 1) .. sent /\ UNCHANGED sent

Spec == Init /\ [][Send \/ Deliver]_<<sent, got>>

=============================================================================
