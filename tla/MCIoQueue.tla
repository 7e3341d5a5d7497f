----------------------------- MODULE MCIoQueue -----------------------------
EXTENDS IoQueue

CONSTANTS c1, c2, c3, p1

MCConsumers == {c1, c2}
MCConsumers3 == {c1, c2, c3}
MCProducers == {p1}

(* Left shift, right ctrl (sent as 0xe0 0x1d), caps lock and 'a': a plain *)
(* and an extended modifier, the toggle and a letter whose case they pick. *)
ShiftL == [make |-> ShiftLMake, ext |-> FALSE]
CtrlR == [make |-> CtrlLMake, ext |-> TRUE]
CapsLock == [make |-> CapsLockMake, ext |-> FALSE]
KeyA == [make |-> 30, ext |-> FALSE]
MCKeys == {ShiftL, CtrlR, CapsLock, KeyA}
=============================================================================
