---------------------------- MODULE FlowControl ----------------------------
(***************************************************************************)
(* What one direction of the exchange between mission control and the      *)
(* robot promises: the receiver is shown states of the sender, one at a    *)
(* time, and the sender takes its next state only when the one before was  *)
(* acknowledged.  So a state is never overtaken by an older one.  A break  *)
(* loses what is on its way and never makes the sender wait.  ControlLink  *)
(* implements this in both directions, over threads, flags and wires.      *)
(***************************************************************************)
EXTENDS Integers

CONSTANTS Value,      \* the sender's states
          NoValue     \* what it has before the first, and the receiver takes for none

VARIABLES source,     \* the sender's state
          hand,       \* the one it has taken and not sent yet, at most one
          way,        \* the one on its way, at most one
          acks,       \* acknowledgements on their way back
          sink        \* the state the receiver was shown last

vars == <<source, hand, way, acks, sink>>

Init ==
    /\ source = NoValue /\ sink = NoValue
    /\ hand = {} /\ way = {} /\ acks = 0

(* Everything that was taken has been acknowledged, or was lost. *)
Idle == hand = {} /\ way = {} /\ acks = 0

Update ==
    /\ source' \in Value
    /\ UNCHANGED <<hand, way, acks, sink>>

(* The state is the sender's at this moment, and may be old when it leaves. *)
Take ==
    /\ Idle
    /\ hand' = {source}
    /\ UNCHANGED <<source, way, acks, sink>>

Send ==
    /\ hand # {}
    /\ way' = hand /\ hand' = {}
    /\ UNCHANGED <<source, acks, sink>>

TakeAndSend ==
    /\ Idle
    /\ way' = {source}
    /\ UNCHANGED <<source, hand, acks, sink>>

(* The acknowledgement is lost if the connection has broken behind it. *)
Deliver ==
    \E v \in way :
        /\ way' = {}
        /\ sink' = IF v = NoValue THEN sink ELSE v
        /\ acks' \in {acks, acks + 1}
        /\ UNCHANGED <<source, hand>>

Acknowledge ==
    /\ acks > 0
    /\ acks' = acks - 1
    /\ UNCHANGED <<source, hand, way, sink>>

Break ==
    /\ hand' \subseteq hand /\ way' \subseteq way /\ acks' \in 0 .. acks
    /\ UNCHANGED <<source, sink>>

Next == Update \/ Take \/ Send \/ TakeAndSend \/ Deliver \/ Acknowledge \/ Break

SafeSpec == Init /\ [][Next]_vars
=============================================================================
