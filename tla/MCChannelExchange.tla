-------------------------- MODULE MCChannelExchange --------------------------
(* TLC instances of ChannelExchange.  What the application queues stays    *)
(* within one of several workloads, each small enough to explore fully.    *)
EXTENDS ChannelExchange

CONSTANT Workloads    \* sets of messages per channel, as functions of the channel

Sends(ro, ru, us, u) ==
  [k \in Kinds |-> CASE k = ReliableOrdered -> ro
                     [] k = ReliableUnordered -> ru
                     [] k = UnreliableSequenced -> us
                     [] k = Unreliable -> u]

MCPacketSeqs == 0 .. SeqCount - 1
UpToThree == Sends(3, 3, 3, 1)
TwoOrdered == Sends(2, 0, 0, 0)
OrderedOnly == Sends(3, 0, 0, 0)
EachAlone == {Sends(3, 0, 0, 0), Sends(0, 3, 0, 0), Sends(0, 0, 3, 1)}
AloneAndMixed == EachAlone \cup {Sends(1, 1, 1, 1)}

WithinAWorkload == \E load \in Workloads : \A k \in Kinds : queued[k] <= load[k]

MCSpec == Init /\ [][Next /\ WithinAWorkload']_vars
=============================================================================
