--------------------------- MODULE CreditCounter ---------------------------
(***************************************************************************)
(* What a channel window promises its users (common.go 335-342): an       *)
(* amount of credit in 0..2^Width-1 that the peer grants and writers take, *)
(* and a flag that, once set, stays set.  Credit never goes negative and    *)
(* never wraps: a grant that would exceed the limit is refused.  A writer  *)
(* takes a positive amount no larger than what is there.  granted is the  *)
(* total the peer has granted, so a grant is never mistaken for a take.    *)
(***************************************************************************)
EXTENDS Naturals

CONSTANT Width   \* bits of the credit counter (32 in the code)

VARIABLES credit, granted, closed

Limit == 2^Width - 1

Init == credit = 0 /\ granted = 0 /\ closed = FALSE

Grant ==
    \E n \in 1..(Limit - credit) :
        credit' = credit + n /\ granted' = granted + n /\ UNCHANGED closed

Take == \E n \in 1..credit : credit' = credit - n /\ UNCHANGED <<granted, closed>>

Close == closed' = TRUE /\ UNCHANGED <<credit, granted>>

Spec == Init /\ [][Grant \/ Take \/ Close]_<<credit, granted, closed>>
=============================================================================
