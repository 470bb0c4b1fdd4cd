------------------------------ MODULE HookTable ------------------------------
(***************************************************************************)
(* What HookUtils promises its users, without how it keeps the promise:    *)
(* a function has at most one replacement, the first one that was          *)
(* installed, and it keeps it.  HookRegistry is the detailed design.       *)
(***************************************************************************)
CONSTANTS Addrs,     \* addresses of hookable functions
          Reps,      \* replacement functions
          NoOwner    \* "not hooked", not a replacement

VARIABLE owner       \* the replacement that calls of each function reach

Init == owner = [a \in Addrs |-> NoOwner]

\* A free function gets a replacement; an owned one is never taken over.
Take(a, r) ==
    /\ owner[a] = NoOwner
    /\ owner' = [owner EXCEPT ![a] = r]

Next == \E a \in Addrs, r \in Reps : Take(a, r)

Spec == Init /\ [][Next]_owner
=============================================================================
