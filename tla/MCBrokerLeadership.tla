------------------------- MODULE MCBrokerLeadership -------------------------
(* Small instances of BrokerLeadership for TLC.                            *)
EXTENDS BrokerLeadershipProperties, TLC
CONSTANTS b1, b2, b3

MCBrokers == {b1, b2}
MCBrokers3 == {b1, b2, b3}
Slots1 == 1..1
Slots2 == 1..2
OwnAddresses == b1 :> "hostA:8080" @@ b2 :> "hostB:8080"
OwnAddresses3 == OwnAddresses @@ b3 :> "hostC:8080"
Punctual == [b \in MCBrokers |-> 1]
Punctual3 == [b \in MCBrokers3 |-> 1]
FirstIsSlow == b1 :> 2 @@ b2 :> 1
=============================================================================
