------------------------------ MODULE ClientMux ------------------------------
(***************************************************************************)
(* The client's channel-open registry and its two background goroutines    *)
(* (src/lib/ssh/client.go): HandleChannelOpen (29-47), handleChannelOpens  *)
(* (195-214) and handleGlobalRequests (186-192), as started by NewClient   *)
(* (50-57).                                                                *)
(*                                                                         *)
(* Handlers are user goroutines: each calls HandleChannelOpen for its type *)
(* and then receives from the queue it got.  The transport (the mux, not   *)
(* in this repository) is the environment: it delivers channel opens and   *)
(* global requests and finally closes both channels.  A channel open is    *)
(* named by its position in the sequence `opens` of the types sent.        *)
(***************************************************************************)
EXTENDS Naturals, Sequences, FiniteSets, Functions

CONSTANTS Types,        \* channel types the peer may open
          Handlers,     \* goroutines calling HandleChannelOpen
          HandlerType,  \* the type each handler registers for
          Stoppers,     \* handlers that stop receiving after registering
          QueueCap,     \* capacity of a handler queue (16 at line 44)
          MaxOpens,     \* channel opens the peer sends
          MaxRequests   \* global requests the peer sends

ASSUME /\ HandlerType \in [Handlers -> Types] /\ Stoppers \subseteq Handlers
       /\ QueueCap \in Nat \ {0} /\ MaxOpens \in Nat /\ MaxRequests \in Nat

\* A channel made at line 44 is named by the handler whose call made it;
\* None is a nil map entry.
None == "none"

VARIABLES
    handlerOf,    \* c.channelHandlers: the channel registered for each type
    torn,         \* c.channelHandlers = nil (after teardown)
    queue,        \* queue[h]: the NewChannels buffered in h's channel
    qclosed,      \* qclosed[h]: close has run on h's channel
    hpc,          \* handler location
    hq,           \* what HandleChannelOpen returned to each handler
    in,           \* the chans channel from the transport (opens by number)
    inClosed,     \* the transport has closed chans and reqs
    opens,        \* history: the type of every channel open sent
    regAtSend,    \* history: was its type registered when it was sent?
    dpc,          \* handleChannelOpens location
    dcur,         \* the open it is handling
    dch,          \* the channel its lookup found (line 198)
    rejected,     \* opens rejected with UnknownChannelType
    reqs,         \* global requests sent and not yet taken
    reqsSent      \* global requests sent
vars == <<handlerOf, torn, queue, qclosed, hpc, hq, in, inClosed, opens,
          regAtSend, dpc, dcur, dch, rejected, reqs, reqsSent>>

\* The immediately-closed channel HandleChannelOpen returns after teardown,
\* the handler's own channel, and no channel (a nil result, or no call yet).
ClosedChan == "closedChan"
OwnChan == "own"
NoQueue == "none"

\* Variables a step of one goroutine leaves alone, grouped by owner.
handlerVars == <<hpc, hq>>
peerVars == <<in, inClosed, opens, regAtSend>>
requestVars == <<reqs, reqsSent>>
dispatchVars == <<dpc, dcur, dch, rejected>>

-----------------------------------------------------------------------------
(***************************************************************************)
(* HandleChannelOpen (29-47), one critical section under c.mu.             *)
(***************************************************************************)
\* 39-42: a channel for the type is registered.
\* Mutant: no check for an existing channel: the map entry is replaced.
Mut_Registered(t) == FALSE

Registered(t) == handlerOf[t] # None

HandleChannelOpen(h) ==
    LET t == HandlerType[h] IN
    /\ hpc[h] = "start"
    /\ CASE torn ->
              hq' = [hq EXCEPT ![h] = ClosedChan] /\ hpc' = [hpc EXCEPT ![h] = "recv"]
              /\ UNCHANGED handlerOf
         [] Registered(t) ->
              hpc' = [hpc EXCEPT ![h] = "nil"] /\ UNCHANGED <<handlerOf, hq>>
         [] OTHER ->
              /\ handlerOf' = [handlerOf EXCEPT ![t] = h]
              /\ hq' = [hq EXCEPT ![h] = OwnChan]
              /\ hpc' = [hpc EXCEPT ![h] = "recv"]
    /\ UNCHANGED <<torn, queue, qclosed, peerVars, dispatchVars, requestVars>>

\* A handler receiving from its channel: a buffered open, or the closure.
HandlerRecv(h) ==
    /\ hpc[h] = "recv" /\ h \notin Stoppers
    /\ \/ /\ hq[h] = ClosedChan
          /\ hpc' = [hpc EXCEPT ![h] = "closed"]
          /\ UNCHANGED queue
       \/ /\ hq[h] = OwnChan /\ queue[h] # <<>>
          /\ queue' = [queue EXCEPT ![h] = Tail(@)]
          /\ UNCHANGED hpc
       \/ /\ hq[h] = OwnChan /\ queue[h] = <<>> /\ qclosed[h]
          /\ hpc' = [hpc EXCEPT ![h] = "closed"]
          /\ UNCHANGED queue
    /\ UNCHANGED <<handlerOf, torn, qclosed, hq, peerVars, dispatchVars, requestVars>>

-----------------------------------------------------------------------------
(***************************************************************************)
(* handleChannelOpens (195-214).  The range receive, the lookup under the  *)
(* lock and the send on the channel found are three steps; the send        *)
(* blocks while the channel is full.  When chans is closed and drained,    *)
(* the teardown closes every registered channel and clears the map.        *)
(***************************************************************************)
DispatchRecv ==
    /\ dpc = "recv" /\ in # <<>>
    /\ dcur' = Head(in) /\ in' = Tail(in)
    /\ dpc' = "lookup"
    /\ UNCHANGED <<handlerOf, torn, queue, qclosed, handlerVars, inClosed, opens,
                   regAtSend, dch, rejected, requestVars>>

\* 197-201: the open goes to the channel of its type, if there is one.
\* Mutant: the send does not block: an open for a full channel is rejected.
Mut_HasHandler(id) == Registered(opens[id]) /\ Len(queue[handlerOf[opens[id]]]) < QueueCap

HasHandler(id) == Registered(opens[id])

DispatchLookup ==
    /\ dpc = "lookup"
    /\ IF HasHandler(dcur)
       THEN dpc' = "send" /\ dch' = handlerOf[opens[dcur]] /\ UNCHANGED rejected
       ELSE dpc' = "recv" /\ rejected' = rejected \cup {dcur} /\ UNCHANGED dch
    /\ UNCHANGED <<handlerOf, torn, queue, qclosed, handlerVars, peerVars, dcur,
                   requestVars>>

\* 202: handler <- ch blocks while the channel's buffer is full.
\* Mutant: the send ignores the buffer's capacity.
Mut_HasRoom(h) == TRUE

HasRoom(h) == Len(queue[h]) < QueueCap

DispatchSend ==
    /\ dpc = "send" /\ HasRoom(dch)
    /\ queue' = [queue EXCEPT ![dch] = Append(@, dcur)]
    /\ dpc' = "recv"
    /\ UNCHANGED <<handlerOf, torn, qclosed, handlerVars, peerVars, dcur, dch,
                   rejected, requestVars>>

\* 208-211: every channel in the map is closed.
CloseRegistered == [h \in Handlers |-> qclosed[h] \/ h \in Range(handlerOf)]

Teardown ==
    /\ dpc = "recv" /\ in = <<>> /\ inClosed
    /\ qclosed' = CloseRegistered
    /\ handlerOf' = [t \in Types |-> None] /\ torn' = TRUE
    /\ dpc' = "done"
    /\ UNCHANGED <<queue, handlerVars, peerVars, dcur, dch, rejected, requestVars>>

\* handleGlobalRequests (186-192): every request gets Reply(false, nil).
GlobalRequest ==
    /\ reqs > 0
    /\ reqs' = reqs - 1
    /\ UNCHANGED <<handlerOf, torn, queue, qclosed, handlerVars, peerVars,
                   dispatchVars, reqsSent>>

-----------------------------------------------------------------------------
(* The transport: channel opens and global requests, then closure.         *)
PeerOpen ==
    /\ ~inClosed /\ Len(opens) < MaxOpens
    /\ \E t \in Types :
          /\ opens' = Append(opens, t)
          /\ regAtSend' = Append(regAtSend, Registered(t))
          /\ in' = Append(in, Len(opens) + 1)
    /\ UNCHANGED <<handlerOf, torn, queue, qclosed, handlerVars, inClosed,
                   dispatchVars, requestVars>>

PeerRequest ==
    /\ ~inClosed /\ reqsSent < MaxRequests
    /\ reqs' = reqs + 1 /\ reqsSent' = reqsSent + 1
    /\ UNCHANGED <<handlerOf, torn, queue, qclosed, handlerVars, peerVars,
                   dispatchVars>>

TransportClose ==
    /\ ~inClosed /\ inClosed' = TRUE
    /\ UNCHANGED <<handlerOf, torn, queue, qclosed, handlerVars, in, opens, regAtSend,
                   dispatchVars, requestVars>>

Init ==
    /\ handlerOf = [t \in Types |-> None] /\ torn = FALSE
    /\ queue = [h \in Handlers |-> <<>>] /\ qclosed = [h \in Handlers |-> FALSE]
    /\ hpc = [h \in Handlers |-> "start"] /\ hq = [h \in Handlers |-> NoQueue]
    /\ in = <<>> /\ inClosed = FALSE /\ opens = <<>> /\ regAtSend = <<>>
    /\ dpc = "recv" /\ dcur = 0 /\ dch = None /\ rejected = {}
    /\ reqs = 0 /\ reqsSent = 0

Dispatcher == DispatchRecv \/ DispatchLookup \/ DispatchSend \/ Teardown

Next ==
    \/ \E h \in Handlers : HandleChannelOpen(h) \/ HandlerRecv(h)
    \/ Dispatcher \/ GlobalRequest
    \/ PeerOpen \/ PeerRequest \/ TransportClose

(***************************************************************************)
(* Fairness: the two goroutines of NewClient and every handler that keeps  *)
(* receiving run when they can; the transport eventually closes (the      *)
(* connection ends), but is never forced to send anything.                 *)
(***************************************************************************)
Spec ==
    /\ Init /\ [][Next]_vars
    /\ WF_vars(Dispatcher) /\ WF_vars(GlobalRequest) /\ WF_vars(TransportClose)
    /\ \A h \in Handlers : WF_vars(HandleChannelOpen(h)) /\ WF_vars(HandlerRecv(h))

-----------------------------------------------------------------------------
TypeOK ==
    /\ handlerOf \in [Types -> Handlers \cup {None}] /\ torn \in BOOLEAN
    /\ queue \in [Handlers -> Seq(1..MaxOpens)]
    /\ \A h \in Handlers : Len(queue[h]) <= QueueCap
    /\ hpc \in [Handlers -> {"start", "recv", "nil", "closed"}]
    /\ hq \in [Handlers -> {OwnChan, ClosedChan, NoQueue}]
    /\ dpc \in {"recv", "lookup", "send", "done"}
    /\ rejected \subseteq 1..MaxOpens

\* An open whose type had a channel registered before the peer sent it is
\* never rejected as an unknown channel type, however full that channel
\* is: the dispatcher waits for room.
RegisteredNeverRejected ==
    \A id \in rejected : ~regAtSend[id]

\* Once the transport closes, every handler that got a channel and keeps
\* receiving observes the closure (spec 4.4: handlers must not hang): the
\* teardown must close every channel a handler was given, and a second
\* HandleChannelOpen must not replace one already handed out.
HandlersObserveClosure ==
    \A h \in Handlers \ Stoppers :
        (inClosed /\ hpc[h] = "recv") ~> (hpc[h] = "closed")
=============================================================================
