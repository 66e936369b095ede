---------------------------- MODULE CooldownGate ----------------------------
(***************************************************************************)
(* What a cooldown promises: two passages are at least Gap apart on the    *)
(* real clock.  The auto heal manager is shown to keep it; a check of the  *)
(* same form,                                                              *)
(*   cooldown > 0 && last > 0 && now - last < cooldown => refuse,          *)
(* stands in the device pool and the signer thread, which promise other    *)
(* things by it (DevicesRest, BuildsSpaced).                               *)
(* "last" is the instant of the latest passage, 0 before the first.        *)
(***************************************************************************)
EXTENDS Clock

CONSTANT Gap

VARIABLE last

Init == ClockInit /\ last = 0

Open == last = 0 \/ clock - last >= Gap

Pass == Open /\ last' = clock /\ UNCHANGED clock

Tick == Advance /\ UNCHANGED last

Next == Pass \/ Tick

Spec == Init /\ [][Next]_<<clock, last>>
=============================================================================
