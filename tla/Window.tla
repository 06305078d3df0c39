------------------------------- MODULE Window -------------------------------
(***************************************************************************)
(* The channel flow-control window of src/lib/ssh/common.go (335-395):     *)
(* window.add, window.close and window.reserve, sharing one sync.Cond.     *)
(*                                                                         *)
(* Reservers are goroutines writing to the channel; each calls reserve     *)
(* with a request size and blocks in the Wait loop while the window is     *)
(* empty and open.  The peer's window adjustments call add, and the        *)
(* channel's teardown calls close; their callers (channel.go) are not in    *)
(* this repository and are the environment here.  The counter keeps the    *)
(* code's unsigned width, reduced to Width bits.                           *)
(*                                                                         *)
(* Each critical section of the code runs under w.L and is one step; a     *)
(* reserver in the Wait loop has released the lock ("wait") until a        *)
(* Broadcast makes it runnable again ("woken").                            *)
(***************************************************************************)
EXTENDS Naturals, FiniteSets

CONSTANTS Reservers,    \* goroutines calling reserve
          Width,        \* bits of w.win (32 in the code)
          Increments,   \* window adjustments the peer may send (nonzero)
          Requests,     \* sizes reserve may be called with
          MaxAdds,      \* add calls in a behaviour
          MaxReserves   \* reserve calls per reserver

ASSUME /\ Width \in Nat \ {0}
       /\ Increments \subseteq 1..(2^Width - 1) /\ Requests \subseteq 1..(2^Width - 1)
       /\ MaxAdds \in Nat /\ MaxReserves \in Nat

VARIABLES
    win,           \* w.win
    writeWaiters,  \* w.writeWaiters
    closed,        \* w.closed
    pc,            \* reserver location: "idle", "wait" or "woken"
    req,           \* the win argument of the reserve in progress
    ret,           \* what each reserver's last reserve returned
    addsLeft,      \* add calls the peer may still make
    left,          \* reserve calls each reserver may still make
    granted        \* history: the total of the increments add accepted
vars == <<win, writeWaiters, closed, pc, req, ret, addsLeft, left, granted>>

Mod == 2^Width

\* reserve's result: the amount and whether the error is io.EOF.
NoRet == [amount |-> 0, eof |-> FALSE, done |-> FALSE]

\* w.Broadcast(): every goroutine in Wait becomes runnable.
Broadcast == [r \in Reservers |-> IF pc[r] = "wait" THEN "woken" ELSE pc[r]]

(***************************************************************************)
(* window.add (346-363).  A zero increment returns before locking, which  *)
(* changes nothing; Increments holds the nonzero ones.  An increment that *)
(* wraps the uint32 sum is refused with the window unchanged.             *)
(***************************************************************************)
\* 352: the uint32 sum w.win+win wraps below win.
\* Mutant: the overflow check is missing, so the sum wraps.
Mut_Overflows(n) == FALSE

Overflows(n) == (win + n) % Mod < n

Add(n) ==
    /\ addsLeft > 0
    /\ addsLeft' = addsLeft - 1
    /\ IF Overflows(n)
       THEN UNCHANGED <<win, pc, granted>>
       ELSE /\ win' = (win + n) % Mod
            /\ granted' = granted + n
            /\ pc' = Broadcast
    /\ UNCHANGED <<writeWaiters, closed, req, ret, left>>

\* Mutant: close sets the flag without waking the waiters.
Mut_Close ==
    /\ closed' = TRUE
    /\ UNCHANGED <<win, writeWaiters, pc, req, ret, addsLeft, left, granted>>

\* window.close (367-372).
Close ==
    /\ closed' = TRUE
    /\ pc' = Broadcast
    /\ UNCHANGED <<win, writeWaiters, req, ret, addsLeft, left, granted>>

(***************************************************************************)
(* The end of reserve (385-394), reached with the loop condition false:    *)
(* the request is cut to what the window holds, taken, and io.EOF is       *)
(* returned if the window is closed, with whatever was taken.              *)
(***************************************************************************)
Take(r, n) ==
    LET amount == IF win < n THEN win ELSE n
    IN /\ win' = win - amount
       /\ ret' = [ret EXCEPT ![r] = [amount |-> amount, eof |-> closed, done |-> TRUE]]

\* 382: the Wait loop's condition.
\* Mutant: the loop's test is lost and reserve never waits.
Mut_MustWait == FALSE

MustWait == win = 0 /\ ~closed

\* reserve (377-384): lock, count ourselves as a waiter, broadcast, then
\* the first test of the Wait loop; if the window is usable the rest of
\* reserve runs in the same critical section.
ReserveEnter(r, n) ==
    /\ pc[r] = "idle" /\ left[r] > 0
    /\ left' = [left EXCEPT ![r] = @ - 1]
    /\ req' = [req EXCEPT ![r] = n]
    /\ IF MustWait
       THEN /\ writeWaiters' = writeWaiters + 1
            /\ pc' = [Broadcast EXCEPT ![r] = "wait"]
            /\ ret' = [ret EXCEPT ![r] = NoRet]
            /\ UNCHANGED win
       ELSE /\ Take(r, n)
            /\ pc' = Broadcast
            /\ UNCHANGED writeWaiters
    /\ UNCHANGED <<closed, addsLeft, granted>>

\* 385: w.writeWaiters-- on leaving the loop.
\* Mutant: the woken reserver leaves the loop without the decrement.
Mut_LeaveWaiters == writeWaiters

LeaveWaiters == writeWaiters - 1

\* A reserver woken from Wait retakes w.L and tests the loop again
\* (382-394).
ReserveWoken(r) ==
    /\ pc[r] = "woken"
    /\ IF MustWait
       THEN /\ pc' = [pc EXCEPT ![r] = "wait"]
            /\ UNCHANGED <<win, writeWaiters, ret>>
       ELSE /\ writeWaiters' = LeaveWaiters
            /\ Take(r, req[r])
            /\ pc' = [pc EXCEPT ![r] = "idle"]
    /\ UNCHANGED <<closed, req, addsLeft, left, granted>>

Init ==
    /\ win = 0 /\ writeWaiters = 0 /\ closed = FALSE
    /\ pc = [r \in Reservers |-> "idle"]
    /\ req = [r \in Reservers |-> 0]
    /\ ret = [r \in Reservers |-> NoRet]
    /\ addsLeft = MaxAdds
    /\ left = [r \in Reservers |-> MaxReserves]
    /\ granted = 0

Next ==
    \/ \E n \in Increments : Add(n)
    \/ Close
    \/ \E r \in Reservers : \/ \E n \in Requests : ReserveEnter(r, n)
                            \/ ReserveWoken(r)

\* A woken goroutine runs: Wait returns once the lock is free, and the
\* lock is only ever held for one step.
Spec == Init /\ [][Next]_vars /\ \A r \in Reservers : WF_vars(ReserveWoken(r))

-----------------------------------------------------------------------------
TypeOK ==
    /\ win \in 0..(Mod - 1)
    /\ writeWaiters \in 0..Cardinality(Reservers)
    /\ closed \in BOOLEAN
    /\ pc \in [Reservers -> {"idle", "wait", "woken"}]
    /\ ret \in [Reservers -> [amount : 0..(Mod - 1), eof : BOOLEAN, done : BOOLEAN]]

\* reserve never returns zero credit without an error: a writer gets at
\* least one byte of window, or io.EOF because the channel closed.  Several
\* reservers woken by one add race for the same credit.
NeverEmptyHanded ==
    \A r \in Reservers : ret[r].done => (ret[r].amount > 0 \/ ret[r].eof)

\* The window implements an unsigned credit counter: adds that would wrap
\* are refused, reservations never take more than is there, and a closed
\* window stays closed.
Abstract == INSTANCE CreditCounter WITH credit <- win
ImplementsCreditCounter == Abstract!Spec

\* Once the channel is closed, every reserve blocked on the window
\* returns: close must wake the waiters.
ReserversReturnAfterClose ==
    \A r \in Reservers : (closed /\ pc[r] # "idle") ~> (pc[r] = "idle")
=============================================================================
