---- MODULE MCXdmaEngine ----
\* XdmaEngine with up to three requests over a ring of three descriptors.
EXTENDS XdmaEngine

CONSTANTS c1, c2, c3

Scenario(mode, sync, n, timed, errors, resets) ==
  [mode |-> mode, sync |-> sync, n |-> (c1 :> n[1] @@ c2 :> n[2] @@ c3 :> n[3]),
   timed |-> timed, errors |-> errors, resets |-> resets]

\* Waiting callers, whose requests take more than one transfer, with timeouts
\* and resets; both kinds without timeouts.  Asynchronous requests together
\* fit into the ring.
MCScenarios ==
  {Scenario("int", TRUE, <<4, 3, 0>>, TRUE, "any", 1),
   Scenario("int", TRUE, <<2, 1, 1>>, TRUE, "any", 1),
   Scenario("int", TRUE, <<4, 2, 0>>, FALSE, "late", 0),
   Scenario("int", FALSE, <<1, 1, 1>>, FALSE, "none", 0),
   Scenario("int", FALSE, <<2, 1, 0>>, FALSE, "late", 0),
   Scenario("int", FALSE, <<3, 0, 0>>, FALSE, "none", 0),
   Scenario("poll", TRUE, <<4, 2, 0>>, FALSE, "late", 0),
   Scenario("poll", FALSE, <<2, 1, 0>>, FALSE, "late", 0),
   Scenario("poll", FALSE, <<1, 1, 1>>, FALSE, "none", 0)}

\* A wait that times out while the engine is polled.
PolledTimeouts == {Scenario("poll", TRUE, <<2, 2, 0>>, TRUE, "none", 0)}
====
