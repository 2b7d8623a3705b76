-------------------------- MODULE PaymentRegistry --------------------------
(***************************************************************************)
(* What the webhook promises about its notices (payments and refunds): a   *)
(* notice takes effect at most once, and only after YooKassa confirms it.  *)
(***************************************************************************)
EXTENDS Naturals

CONSTANT Notices

VARIABLES
    confirmed,  \* notices YooKassa reports as succeeded
    acted,      \* notices that have taken effect
    effects     \* how often each has taken effect

Init ==
    /\ confirmed = {}
    /\ acted = {}
    /\ effects = [n \in Notices |-> 0]

Confirm(n) ==
    /\ n \notin confirmed
    /\ confirmed' = confirmed \cup {n}
    /\ UNCHANGED <<acted, effects>>

Act(n) ==
    /\ n \in confirmed \ acted
    /\ acted' = acted \cup {n}
    /\ effects' = [effects EXCEPT ![n] = @ + 1]
    /\ UNCHANGED confirmed

Next == \E n \in Notices : Confirm(n) \/ Act(n)

Spec == Init /\ [][Next]_<<confirmed, acted, effects>>
=============================================================================
