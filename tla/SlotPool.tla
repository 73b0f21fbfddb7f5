------------------------------ MODULE SlotPool ------------------------------
(***************************************************************************)
(* What the inference gate promises its callers: a pool of MaxActive slots *)
(* with one FIFO queue.  A slot passes directly from the caller that       *)
(* leaves to the first that waits; a waiter may withdraw at any time.      *)
(***************************************************************************)
EXTENDS Naturals, FiniteSets

CONSTANTS Callers, MaxActive, MaxQueued

VARIABLES
    holders,  \* the callers that have a slot
    waiting,  \* the callers in the queue
    ahead     \* the queue's order: the pairs <<c, d>> with c in front of d

vars == <<holders, waiting, ahead>>

Init == holders = {} /\ waiting = {} /\ ahead = {}

First(c) == c \in waiting /\ \A d \in waiting : <<d, c>> \notin ahead

\* c is no longer in the queue; the others keep their order.
Out(c) ==
    /\ waiting' = waiting \ {c}
    /\ ahead' = {p \in ahead : p[1] # c /\ p[2] # c}

Enter(c) ==
    /\ c \notin holders /\ waiting = {}
    /\ Cardinality(holders) < MaxActive
    /\ holders' = holders \cup {c}
    /\ UNCHANGED <<waiting, ahead>>

Join(c) ==
    /\ c \notin holders \cup waiting
    /\ Cardinality(holders) = MaxActive
    /\ Cardinality(waiting) < MaxQueued
    /\ waiting' = waiting \cup {c}
    /\ ahead' = ahead \cup (waiting \X {c})
    /\ holders' = holders

Leave(c) ==
    /\ c \in holders
    /\ \/ /\ waiting = {}
          /\ holders' = holders \ {c}
          /\ UNCHANGED <<waiting, ahead>>
       \/ \E d \in Callers :
             First(d) /\ Out(d) /\ holders' = (holders \ {c}) \cup {d}

Withdraw(c) ==
    /\ c \in waiting
    /\ Out(c)
    /\ holders' = holders

Next == \E c \in Callers : Enter(c) \/ Join(c) \/ Leave(c) \/ Withdraw(c)

SafeSpec == Init /\ [][Next]_vars

Spec == SafeSpec /\ \A c \in Callers : WF_vars(Leave(c))
============================================================================
