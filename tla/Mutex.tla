------------------------------- MODULE Mutex --------------------------------
(***************************************************************************)
(* What the kernel's lock promises the code that uses it: one context at a *)
(* time holds a lock, and the processor is not taken away from a context   *)
(* that holds one.  A critical section is therefore one step of the        *)
(* kernel, which is how the other kernel modules model it.                 *)
(***************************************************************************)
CONSTANTS Contexts, Locks, NoOne

VARIABLES
    holder,     \* who holds each lock
    running     \* the context the processor runs

vars == <<holder, running>>

Holding(c) == {l \in Locks : holder[l] = c}

Init ==
    /\ holder = [l \in Locks |-> NoOne]
    /\ running \in Contexts

Enter(c, l) ==
    /\ running = c
    /\ holder[l] = NoOne
    /\ holder' = [holder EXCEPT ![l] = c]
    /\ UNCHANGED running

Leave(c, l) ==
    /\ running = c
    /\ holder[l] = c
    /\ holder' = [holder EXCEPT ![l] = NoOne]
    /\ UNCHANGED running

TakeOver(c) ==
    /\ Holding(running) = {}
    /\ running' = c
    /\ UNCHANGED holder

Next ==
    \/ \E c \in Contexts, l \in Locks : Enter(c, l) \/ Leave(c, l)
    \/ \E c \in Contexts : TakeOver(c)

Spec == Init /\ [][Next]_vars
=============================================================================
