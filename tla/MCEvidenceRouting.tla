--------------------------- MODULE MCEvidenceRouting ---------------------------
(* Instances of EvidenceRouting for TLC. *)
EXTENDS EvidenceRouting

Backend(pid, xact) == [pid |-> pid, xact |-> xact]

Wait(waiter, blocker) == [waiter |-> waiter, blocker |-> blocker]

\* The blockers: two of one PID, one after the other; 2 may hold up 1.
Blocker1 == Backend(1, 1)
Blocker1Again == Backend(1, 5)
Blocker2 == Backend(2, 2)
Blocker4 == Backend(4, 2)

TwoPairs == {[waiter |-> 3, blocker |-> Blocker1],
               [waiter |-> 3, blocker |-> Blocker2]}

SomeWaits ==
    {Wait(Backend(3, 3), Blocker1), Wait(Backend(5, 4), Blocker1),
     Wait(Blocker1, Blocker2), Wait(Backend(3, 3), Blocker2),
     Wait(Backend(3, 3), Blocker1Again), Wait(Backend(3, 3), Blocker4)}

=============================================================================
