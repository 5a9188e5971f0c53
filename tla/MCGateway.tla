------------------------------ MODULE MCGateway ------------------------------
(* Small instances of Gateway for TLC.                                      *)
EXTENDS Gateway, TLC

CONSTANTS p1, p2, t1, t2, h1

\* Hosts and settings do not touch the same rows: they are exercised apart, except for the
\* public configuration, and so are the handlers, which treat a resolution alike.
Changing == {"public", "tls", "create", "verify", "activate", "deactivate", "status"}
Handling == {"admin", "auth", "page", "config", "activate", "deactivate"}

Starting(founded, hosts, operations, budget) ==
  [founded |-> founded, hosts |-> hosts, load |-> operations, budget |-> budget]
Seeded(type) == h1 :> [tenant |-> t1, type |-> type]

MCScenarios ==
  {Starting({t1, t2}, <<>>, Changing, 4),
   Starting({t1, t2}, Seeded("booking"), Changing, 4),
   Starting({t1}, Seeded("booking"), Handling, 4),
   Starting({t1}, Seeded("admin"), Handling, 4),
   Starting({t1}, <<>>, {"settings", "patch", "found"}, 3)}
=============================================================================
