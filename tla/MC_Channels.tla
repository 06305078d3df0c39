----------------------------- MODULE MC_Channels -----------------------------
(***************************************************************************)
(* The channel-level components of src/lib/ssh, checked in one run: the    *)
(* flow-control window (Window) and the client's channel-open registry     *)
(* (ClientMux).  They do not interact in this repository (the channel code *)
(* that would join them is not here), so a behaviour is one of the two,    *)
(* chosen in the initial state; the other keeps its initial state.         *)
(***************************************************************************)
EXTENDS Naturals

CONSTANTS r1, r2,                          \* reservers of the window
          h1, h2, h3, session, tcpip, custom \* handlers and channel types

VARIABLES which,
          win, writeWaiters, closed, pc, req, ret, addsLeft, left, granted,
          handlerOf, torn, queue, qclosed, hpc, hq, in, inClosed, opens,
          regAtSend, dpc, dcur, dch, rejected, reqs, reqsSent

windowVars == <<win, writeWaiters, closed, pc, req, ret, addsLeft, left, granted>>
muxVars == <<handlerOf, torn, queue, qclosed, hpc, hq, in, inClosed, opens,
             regAtSend, dpc, dcur, dch, rejected, reqs, reqsSent>>
vars == <<which, windowVars, muxVars>>

(* Two reservers over a 2-bit window: the peer's adjustments of 2 and 3   *)
(* overflow it, and requests of 1 and 2 are cut to what is there.          *)
W == INSTANCE Window WITH Reservers <- {r1, r2}, Width <- 2, Increments <- {1, 2, 3},
                          Requests <- {1, 2}, MaxAdds <- 3, MaxReserves <- 2

(* Two handlers race to register "session"; "custom" has none (spec 8).   *)
(* Every handler keeps receiving.                                          *)
M == INSTANCE ClientMux WITH Types <- {session, tcpip, custom}, Handlers <- {h1, h2, h3},
         HandlerType <- [h \in {h1, h2, h3} |-> IF h = h3 THEN tcpip ELSE session],
         Stoppers <- {}, QueueCap <- 1, MaxOpens <- 3, MaxRequests <- 1

Init == which \in {"window", "mux"} /\ W!Init /\ M!Init

WindowStep(A) == which = "window" /\ A /\ UNCHANGED <<which, muxVars>>
MuxStep(A) == which = "mux" /\ A /\ UNCHANGED <<which, windowVars>>

Next == WindowStep(W!Next) \/ MuxStep(M!Next)

\* The fairness of each component's own specification, for its steps.
Spec ==
    /\ Init /\ [][Next]_vars
    /\ \A r \in {r1, r2} : WF_vars(WindowStep(W!ReserveWoken(r)))
    /\ WF_vars(MuxStep(M!Dispatcher)) /\ WF_vars(MuxStep(M!GlobalRequest))
    /\ WF_vars(MuxStep(M!TransportClose))
    /\ \A h \in {h1, h2, h3} : WF_vars(MuxStep(M!HandleChannelOpen(h)))
                               /\ WF_vars(MuxStep(M!HandlerRecv(h)))

-----------------------------------------------------------------------------
\* Each property is the component's own: in a behaviour of the other
\* component its variables keep their initial values, where it holds.

\* The type invariants of the window and of the registry.
WindowTypeOK == W!TypeOK
MuxTypeOK == M!TypeOK

\* reserve never returns zero credit without io.EOF (Window).
NeverEmptyHanded == W!NeverEmptyHanded

\* The window implements an unsigned credit counter (Window).
ImplementsCreditCounter == W!ImplementsCreditCounter

\* Every reserve blocked on a closed window returns (Window).
ReserversReturnAfterClose == W!ReserversReturnAfterClose

\* An open of a type registered when it was sent is never rejected
\* (ClientMux).
RegisteredNeverRejected == M!RegisteredNeverRejected

\* Every handler that keeps receiving sees its channel closed once the
\* transport closes (ClientMux).
HandlersObserveClosure == M!HandlersObserveClosure
=============================================================================
