--------------------------- MODULE MCStubCollection ---------------------------
EXTENDS StubCollection, TLC

CONSTANTS c1, c2

MCCowns == {c1, c2}

\* One cown registered on each core.
MCHomeOf == (c1 :> 1) @@ (c2 :> 2)

\* A single cown, registered on core 1 and popped by either thread.
MCCowns1 == {c1}
MCHomeOf1 == c1 :> 1

====
