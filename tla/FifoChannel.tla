---------------------------- MODULE FifoChannel ----------------------------
(***************************************************************************)
(* A channel that delivers what it accepts in the order of acceptance: the *)
(* abstraction of a path made of several queues, such as the two stages    *)
(* between the master and the slave of the clock bridge.                   *)
(***************************************************************************)
EXTENDS Sequences

CONSTANT Items

VARIABLE fifo   \* what is on its way, the next to be delivered first

Init == fifo = <<>>

Send(x) == fifo' = Append(fifo, x)

Deliver == fifo # <<>> /\ fifo' = Tail(fifo)

(* A reset empties the channel.                                            *)
Clear == fifo' = <<>>

Next == (\E x \in Items : Send(x)) \/ Deliver \/ Clear

Spec == Init /\ [][Next]_fifo
=============================================================================
