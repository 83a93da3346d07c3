------------------------------ MODULE MCBroker ------------------------------
(***************************************************************************)
(* Model-checking instances of Broker: the registrations callers make and  *)
(* who listens as whom.                                                    *)
(***************************************************************************)
EXTENDS MailboxesRefinement, TLC

CONSTANTS w1, w2, w3, alice, bob, r1, r2, c1, c2, s1, s2, s3

Reg(n, r, t, e, i, p) ==
    [name |-> n, role |-> r, ttl |-> t, evict |-> e, id |-> i, prompted |-> p]

\* One agent pre-registered under w1, and its own claim.
ManagedW1(t) == {Reg(alice, r1, t, TRUE, w1, TRUE), Reg(alice, r1, t, FALSE, w1, FALSE)}
OneManaged == ManagedW1(1)

\* One agent that nothing but its lease can remove.
OneAgent == {Reg(alice, r1, 1, FALSE, w1, FALSE)}

\* Two agents, one lease length, that never run into each other's name.
TwoAgents ==
    {Reg(alice, r1, 1, FALSE, w1, FALSE), Reg(bob, r1, 1, FALSE, w2, FALSE)}

\* Registrations that collide: same names, ids and roles, with and without
\* evict, with leases that expire at once or later.
Colliding ==
    ManagedW1(1) \cup
    {Reg(bob, r1, 1, TRUE, w1, TRUE), Reg(alice, r2, 0, FALSE, w1, FALSE),
     Reg(alice, r1, 1, TRUE, None, FALSE), Reg(alice, r1, 1, FALSE, w2, FALSE),
     Reg(bob, r1, 1, TRUE, w2, TRUE)}

\* As dispatch-comms.md advises: every registration evicts.
AllEvict ==
    {Reg(alice, r1, 1, TRUE, w1, TRUE), Reg(alice, r1, 1, TRUE, None, FALSE),
     Reg(alice, r1, 2, TRUE, w2, FALSE), Reg(bob, r1, 1, TRUE, None, FALSE),
     Reg(bob, r1, 1, TRUE, w1, TRUE)}

OneWorkerEach == c1 :> {w1} @@ c2 :> {w2}
SameWorker == c1 :> {w1} @@ c2 :> {w1}
NoListeners == <<>>
FirstOnly == c1 :> {w1}
FirstAny == c1 :> {w1, w2}

ClientSymmetry == Permutations({c1, c2})
=============================================================================
