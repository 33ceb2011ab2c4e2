-------------------------- MODULE MCLeaseManager --------------------------
(* Requests for TLC: one per storage policy and a read-write one. *)
EXTENDS LeaseManager

CONSTANT k1

Request(ttl, rw, fenced, max, policy, key) ==
    [ttl |-> ttl, readWrite |-> rw, fenced |-> fenced, maxPages |-> max,
     policy |-> policy, key |-> key]

MCAsked ==
    {Request(2, TRUE, FALSE, 1, "ephemeral", NoKey),
     Request(1, FALSE, FALSE, 2, "persistent-profile", k1),
     Request(2, TRUE, TRUE, 1, "external-bridge", NoKey),
     Request(1, TRUE, TRUE, 2, "external-bridge", k1)}
=============================================================================
