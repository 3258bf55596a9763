------------------------------ MODULE MCConnCheck ------------------------------
EXTENDS ConnCheck

\* One end is behind a NAT: a1 is seen as n1, which it does not know, and a2 as n2, which a
\* STUN server told it. What the other end's second socket sends may be filtered.
MCAgents == {"A", "B"}
MCGathered == [A |-> <<<<"a1">>, <<"a2">>>>, B |-> <<<<"b1">>, <<"b2">>>>]
MCSignalled == [A |-> <<<<"a1">>, <<"a2", "n2">>>>, B |-> <<<<"b1">>, <<"b2">>>>]
MCAddresses == {"a1", "n1", "a2", "n2", "b1", "b2"}
MCComponent == [x \in MCAddresses |-> IF x \in {"a2", "n2", "b2"} THEN 2 ELSE 1]
MCType == [x \in MCAddresses |-> IF x = "n2" THEN "srflx" ELSE "host"]
MCMachine == [a1 |-> "a", n1 |-> "n", a2 |-> "a", n2 |-> "n", b1 |-> "b", b2 |-> "b"]
MCSocketAt == [x \in MCAddresses |-> IF x = "n1" THEN "a1" ELSE IF x = "n2" THEN "a2" ELSE x]
MCSeen == [x \in MCAddresses |-> IF x = "a1" THEN "n1" ELSE IF x = "a2" THEN "n2" ELSE x]
MCWorking == {<<"a1", "b1">>, <<"b1", "n1">>, <<"a2", "b2">>, <<"b2", "n2">>}
MCNetworks == {MCWorking, MCWorking \ {<<"b2", "n2">>}}
==============================================================================
