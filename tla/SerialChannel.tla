---------------------------- MODULE SerialChannel ----------------------------
(***************************************************************************)
(* What the universal serial protocol promises its two users while no node *)
(* restarts and sequence numbers do not wrap: messages arrive in order;    *)
(* fast ones at most once, the others any number of times; a reliable send *)
(* blocks its caller until the peer's callback got the message, and later  *)
(* messages wait for it; a request for a response blocks for ever.         *)
(* SerialLink implements this without its frames, numbers and timers.      *)
(***************************************************************************)
EXTENDS Integers, Sequences

CONSTANTS Node, Peer, MaxSends

VARIABLES sent,         \* sent[n]: the kinds of the messages n sent
          returned,     \* messages of n whose send call returned
          delivered,    \* messages of Peer[n] handed to n's callback
          redelivered,  \* those handed to it more than once
          latest        \* the one handed to it last

vars == <<sent, returned, delivered, redelivered, latest>>

Init ==
    /\ sent = [n \in Node |-> << >>]
    /\ returned = [n \in Node |-> {}]
    /\ delivered = [n \in Node |-> {}]
    /\ redelivered = [n \in Node |-> {}]
    /\ latest = [n \in Node |-> 0]

Submit(n, kind) ==
    /\ Len(sent[n]) < MaxSends[n]
    /\ 1 .. Len(sent[n]) \subseteq returned[n]
    /\ sent' = [sent EXCEPT ![n] = Append(@, kind)]
    /\ returned' = IF kind = "fast"
                   THEN [returned EXCEPT ![n] = @ \cup {Len(sent[n]) + 1}]
                   ELSE returned
    /\ UNCHANGED <<delivered, redelivered, latest>>

Deliver(n, m) ==
    LET from == sent[Peer[n]]
    IN  /\ m \in 1 .. Len(from)
        /\ m >= latest[n]
        /\ m \in delivered[n] => from[m] # "fast"
        /\ \A k \in 1 .. m - 1 : from[k] = "reliable" => k \in delivered[n]
        /\ delivered' = [delivered EXCEPT ![n] = @ \cup {m}]
        /\ redelivered' = [redelivered EXCEPT ![n] = @ \cup ({m} \cap delivered[n])]
        /\ latest' = [latest EXCEPT ![n] = m]
        /\ UNCHANGED <<sent, returned>>

Return(n) ==
    LET m == Len(sent[n])
    IN  /\ m > 0
        /\ m \notin returned[n]
        /\ sent[n][m] = "reliable"
        /\ m \in delivered[Peer[n]]
        /\ returned' = [returned EXCEPT ![n] = @ \cup {m}]
        /\ UNCHANGED <<sent, delivered, redelivered, latest>>

(* The message whose sender is blocked. *)
Blocking(n) == Len(sent[n]) > 0 /\ Len(sent[n]) \notin returned[n]

Next ==
    \E n \in Node :
        \/ \E kind \in {"fast", "reliable", "response"} : Submit(n, kind)
        \/ \E m \in 1 .. Len(sent[Peer[n]]) : Deliver(n, m)
        \/ Return(n)

(* A message that blocks its sender is delivered (a request for a response *)
(* again and again), and a delivered reliable message releases its sender. *)
Fairness ==
    \A n \in Node :
        /\ WF_vars(Return(n))
        /\ WF_vars(/\ Blocking(Peer[n])
                   /\ Len(sent[Peer[n]]) \notin delivered[n]
                   /\ Deliver(n, Len(sent[Peer[n]])))

SafeSpec == Init /\ [][Next]_vars
Spec == SafeSpec /\ Fairness
=============================================================================
