------------------------- MODULE HandshakeTransport -------------------------
(***************************************************************************)
(* The client side of handshakeTransport (src/lib/ssh/common.go, lines    *)
(* 406-890, the file's second part) with its callers in client.go, over a *)
(* connection to an SSH server.                                            *)
(*                                                                         *)
(* Threads of the client:                                                  *)
(*   - the read loop (readLoop / readOnePacket / enterKeyExchangeLocked),  *)
(*     the only reader of the connection, which runs every key exchange    *)
(*     inline while holding t.mu;                                          *)
(*   - the application thread ("app"): clientHandshake's                   *)
(*     requestInitialKeyChange, then the consumer of t.incoming (the       *)
(*     multiplexer once NewClientConn has returned);                       *)
(*   - Writers: goroutines calling writePacket, serialised by t.mu and     *)
(*     blocked on t.cond while a KEXINIT of ours is outstanding.           *)
(* Only the read loop holds t.mu across blocking steps (the key exchange); *)
(* every other critical section is one atomic step, taken when t.mu is     *)
(* free.                                                                   *)
(*                                                                         *)
(* The server is the environment: an RFC 4253 server that sends data and   *)
(* ignore messages, starts or answers key exchanges, and may hang up.      *)
(* Packets are abstracted to their message type; a KEXINIT carries the     *)
(* sender's KexInitMsg.  Byte counters count packets.                      *)
(***************************************************************************)
EXTENDS Naturals, Sequences, FiniteSets, Negotiation

CONSTANTS Writers,        \* goroutines calling writePacket
          Threshold,      \* config.RekeyThreshold, in packets
          IncomingCap,    \* capacity of t.incoming (16 in newHandshakeTransport)
          HelloOnly,      \* config.HelloOnly
          Timeout,        \* config.Timeout # 0 in Dial
          OurInit,        \* the KexInitMsg sendKexInitLocked builds from config
          SupportedKex,   \* the names kexAlgoMap has an implementation for
          PeerInits,      \* KexInitMsgs the server may send
          MaxWrites,      \* writePacket calls per writer
          MaxPeerData,    \* data/ignore packets the server sends
          MaxPeerKex      \* key exchanges the server starts on its own

ASSUME /\ Threshold \in Nat /\ IncomingCap \in Nat \ {0}
       /\ HelloOnly \in BOOLEAN /\ Timeout \in BOOLEAN
       /\ MaxWrites \in Nat /\ MaxPeerData \in Nat /\ MaxPeerKex \in Nat

VARIABLES
    \* handshakeTransport fields
    sentInit,        \* t.sentInitMsg # nil: our KEXINIT is outstanding
    writtenSinceKex, \* t.writtenSinceKex
    readSinceKex,    \* t.readSinceKex
    writeError,      \* t.writeError
    readError,       \* t.readError
    sessionID,       \* t.sessionID; 0 is nil, n is the exchange hash of the n-th kex
    kexDone,         \* key exchanges that produced a kexResult (the next H is kexDone+1)
    incoming,        \* t.incoming: message types queued for the application
    incomingClosed,  \* close(t.incoming) has run
    \* the read loop
    rl,              \* its program location
    rlPkt,           \* the packet it holds (read, or the marker to deliver)
    rlFirst,         \* firstKex of the exchange in progress
    \* writers and the application thread
    wpc,             \* writer program location
    wleft,           \* writePacket calls each writer has still to make
    app,             \* application thread location
    appSessionID,    \* connection.sessionID cached by clientHandshake
    \* the connection and the server
    outWire,         \* every packet we have written, in order
    inWire,          \* packets sent by the server not yet read by us
    localClosed,     \* t.conn.Close() / c.Close() has run
    peerClosed,      \* the server has hung up
    deadline,        \* the conn's deadline: "none", "set", or "passed"
    pst,             \* server key-exchange state
    peerRead,        \* how many packets of outWire the server has read
    peerData,        \* data/ignore packets the server may still send
    peerKex          \* key exchanges the server may still start

transport == <<sentInit, writtenSinceKex, readSinceKex, writeError,
               readError, sessionID, kexDone, incoming, incomingClosed>>
readLoop == <<rl, rlPkt, rlFirst>>
clients == <<wpc, wleft, app, appSessionID>>
net == <<outWire, inWire, localClosed, peerClosed, deadline>>
server == <<pst, peerRead, peerData, peerKex>>
vars == <<transport, readLoop, clients, net, server>>
\* Groups that most steps leave alone.
kexResult == <<sessionID, kexDone>>
rlErr == <<readError, incomingClosed>>
caller == <<wleft, app, appSessionID>>
peerSide == <<peerClosed, deadline, server>>

NoErr == "none"
\* The error classes the code can record: I/O errors (including EOF and a
\* closed connection) and key-exchange failures (negotiation, host key,
\* unexpected message).
Errors == {"io", "kex"}

Pkt(t) == [type |-> t, init |-> NoCommon]
KexInitPkt(m) == [type |-> "kexinit", init |-> m]

-----------------------------------------------------------------------------
(* The connection (keyingTransport over a net.Conn).                       *)

\* Results a conn.writePacket can have now: a locally closed connection,
\* or one whose deadline has passed, always fails; after the server has
\* hung up a write may still succeed.
WriteResults == IF localClosed \/ deadline = "passed" THEN {FALSE}
                ELSE IF peerClosed THEN BOOLEAN ELSE {TRUE}

Send(wire, p, ok) == IF ok THEN Append(wire, p) ELSE wire

\* conn.readPacket fails at once on a closed connection or after the
\* deadline, and with EOF once everything the server sent before hanging
\* up has been read.
ReadFails == localClosed \/ deadline = "passed" \/ (inWire = <<>> /\ peerClosed)
CanRead == ~localClosed /\ deadline # "passed" /\ inWire # <<>>

\* t.cond.Broadcast(): every writer in t.cond.Wait() becomes runnable.
Broadcast == [w \in Writers |-> IF wpc[w] = "wait" THEN "woken" ELSE wpc[w]]

-----------------------------------------------------------------------------
(* readLoop (537-558): a failed readOnePacket records t.readError and      *)
(* closes t.incoming; the loop then takes t.mu (RLExit) to declare the     *)
(* writing side dead.                                                      *)
ReadLoopFails(err) ==
    /\ readError' = err
    /\ incomingClosed' = TRUE
    /\ rl' = "exit"

\* 554-556: the read error becomes the write error unless one is set.
\* Mutant: the exit path that forgets to hand the read error to writers.
Mut_ExitWriteError == writeError

ExitWriteError == IF writeError = NoErr THEN readError ELSE writeError

RLExit ==
    /\ rl = "exit"
    /\ writeError' = ExitWriteError
    /\ wpc' = Broadcast
    /\ rl' = "done"
    /\ UNCHANGED <<sentInit, writtenSinceKex, readSinceKex, rlErr, kexResult, incoming,
                   rlPkt, rlFirst, caller, net, server>>

(***************************************************************************)
(* The end of a KEXINIT in readOnePacket (589-621), reached when           *)
(* enterKeyExchangeLocked returns err (NoErr on success) or at once in     *)
(* HelloOnly mode: on error the connection is closed and t.writeError set; *)
(* in every case writers are unblocked, t.writtenSinceKex is reset and     *)
(* t.mu released.  On success t.readSinceKex is reset and the KEXINIT is   *)
(* replaced by the marker msgNewKeys (first exchange) or msgIgnore, which  *)
(* readLoop drops.  wire is outWire as this step leaves it.                *)
(***************************************************************************)
\* successPacket (612-619): the marker that ends the exchange.
\* Mutant: the marker is always msgIgnore, even for the first exchange.
Mut_SuccessPacket(first) == "ignore"

SuccessPacket(first) == IF first THEN "newkeys" ELSE "ignore"

KexFinish(err, first, wire) ==
    /\ outWire' = wire
    /\ localClosed' = (localClosed \/ err # NoErr)
    /\ writeError' = IF err # NoErr THEN err ELSE writeError
    /\ sentInit' = FALSE
    /\ wpc' = Broadcast
    /\ writtenSinceKex' = 0
    /\ rlFirst' = first
    /\ IF err # NoErr
       THEN ReadLoopFails(err) /\ UNCHANGED <<readSinceKex, rlPkt>>
       ELSE /\ readSinceKex' = 0
            /\ rlPkt' = Pkt(SuccessPacket(first))
            /\ rl' = IF rlPkt'.type = "ignore" THEN "top" ELSE "deliver"
            /\ UNCHANGED <<readError, incomingClosed>>


\* The read loop holds t.mu from RLKexLock until KexFinish.
MuHeld == rl \in {"kexGuess", "kexReply", "kexNewKeys"}

(***************************************************************************)
(* sendKexInitLocked (672-713) with conn.writePacket's result ok: nothing  *)
(* is written while our KEXINIT is outstanding; t.sentInitMsg is set only  *)
(* once the write succeeded.                                               *)
(***************************************************************************)
SentInitWire(ok) == IF sentInit THEN outWire ELSE Send(outWire, "kexinit", ok)
SentInitAfter(ok) == sentInit \/ ok
SendInitFailed(ok) == ~sentInit /\ ~ok

-----------------------------------------------------------------------------
(* readOnePacket (560-572): over the threshold, requestKeyChange first     *)
(* sends our KEXINIT under t.mu; its failure ends the read loop.           *)
RLTop ==
    /\ rl = "top"
    /\ \/ /\ readSinceKex <= Threshold
          /\ rl' = "read"
          /\ UNCHANGED <<sentInit, outWire, readError, incomingClosed>>
       \/ /\ readSinceKex > Threshold
          /\ \E ok \in WriteResults :
               /\ outWire' = SentInitWire(ok)
               /\ sentInit' = SentInitAfter(ok)
               /\ IF SendInitFailed(ok)
                  THEN ReadLoopFails("io")
                  ELSE rl' = "read" /\ UNCHANGED <<readError, incomingClosed>>
    /\ UNCHANGED <<writtenSinceKex, readSinceKex, writeError, kexResult, incoming, rlPkt,
                   rlFirst, clients, inWire, localClosed, peerSide>>

(* readOnePacket (567-583) and readLoop (539-548): read one packet; a      *)
(* KEXINIT goes to the key exchange, msgIgnore/msgDebug are dropped, any   *)
(* other packet is handed to t.incoming.                                   *)
RLRead ==
    /\ rl = "read"
    /\ \/ /\ ReadFails
          /\ ReadLoopFails("io")
          /\ UNCHANGED <<inWire, readSinceKex, rlPkt>>
       \/ /\ CanRead
          /\ inWire' = Tail(inWire)
          /\ readSinceKex' = readSinceKex + 1
          /\ rlPkt' = Head(inWire)
          /\ rl' = CASE Head(inWire).type = "kexinit"              -> "kexLock"
                     [] Head(inWire).type \in {"ignore", "debug"} -> "top"
                     [] OTHER                                     -> "deliver"
          /\ UNCHANGED <<readError, incomingClosed>>
    /\ UNCHANGED <<sentInit, writtenSinceKex, writeError, kexResult, incoming, rlFirst,
                   clients, outWire, localClosed, peerSide>>

\* Mutant: a send on t.incoming that does not wait for room.
Mut_IncomingHasRoom == TRUE

IncomingHasRoom == Len(incoming) < IncomingCap

\* readLoop (548): t.incoming <- p blocks while the channel is full.
RLDeliver ==
    /\ rl = "deliver"
    /\ IncomingHasRoom
    /\ incoming' = Append(incoming, rlPkt.type)
    /\ rl' = "top"
    /\ UNCHANGED <<sentInit, writtenSinceKex, readSinceKex, writeError, rlErr, kexResult,
                   rlPkt, rlFirst, clients, net, server>>

(***************************************************************************)
(* The key exchange, enterKeyExchangeLocked (745-853) and client           *)
(* (867-890), run by the read loop with t.mu held.                         *)
(***************************************************************************)
\* The server announced a guessed kex packet and guessed wrong (803).
GuessWrong(peer) == peer.FirstKexFollows /\ GuessedWrong(OurInit, peer)

\* kexAlgoMap lookup (811-814), then kex.Client (868) sends its first kex
\* message; the step ends waiting for the server's reply.
StartKex(algs, wire, first) ==
    \/ /\ algs.Kex \notin SupportedKex
       /\ KexFinish("kex", first, wire)
    \/ /\ algs.Kex \in SupportedKex
       /\ \E ok \in WriteResults :
            IF ok
            THEN /\ outWire' = Append(wire, "kexdhinit")
                 /\ sentInit' = TRUE
                 /\ rl' = "kexReply"
                 /\ rlFirst' = first
                 /\ UNCHANGED <<writtenSinceKex, readSinceKex, writeError, rlErr,
                                rlPkt, wpc, localClosed>>
            ELSE KexFinish("io", first, wire)

\* readOnePacket (584-588) on a KEXINIT: take t.mu, note whether this is
\* the first exchange, and run enterKeyExchangeLocked up to the guessed
\* packet: send (or reuse) our KEXINIT, parse theirs, negotiate.
RLKexLock ==
    /\ rl = "kexLock"
    /\ LET first == sessionID = 0
           peer == rlPkt.init
           algs == FindAgreedAlgorithms(OurInit, peer)
       IN IF HelloOnly
          THEN KexFinish(NoErr, first, outWire)
          ELSE \E ok \in WriteResults :
                 CASE SendInitFailed(ok) ->
                        KexFinish("io", first, outWire)
                   [] algs.err # NoError ->
                        KexFinish("kex", first, SentInitWire(ok))
                   [] GuessWrong(peer) ->
                        /\ outWire' = SentInitWire(ok)
                        /\ sentInit' = TRUE
                        /\ rl' = "kexGuess"
                        /\ rlFirst' = first
                        /\ UNCHANGED <<writtenSinceKex, readSinceKex, writeError,
                                       rlErr, rlPkt, wpc, localClosed>>
                   [] OTHER ->
                        StartKex(algs, SentInitWire(ok), first)
    /\ UNCHANGED <<kexResult, incoming, inWire, peerSide, caller>>

\* 803-809: read and discard the wrongly guessed packet.
RLKexGuess ==
    /\ rl = "kexGuess"
    /\ \/ /\ ReadFails
          /\ KexFinish("io", rlFirst, outWire)
          /\ UNCHANGED inWire
       \/ /\ CanRead
          /\ inWire' = Tail(inWire)
          /\ StartKex(FindAgreedAlgorithms(OurInit, rlPkt.init), outWire, rlFirst)
    /\ UNCHANGED <<kexResult, incoming, peerSide, caller>>

\* The session ID after a successful exchange (837-840): the hash of the
\* first exchange, kept for the life of the connection.
Mut_NextSessionID == kexDone + 1

NextSessionID == IF sessionID = 0 THEN kexDone + 1 ELSE sessionID

\* client() (867-890): ParsePublicKey, verifyHostKeySignature and the
\* HostKeyCallback either all accept the server's host key or one fails.
HostKeyVerdicts == BOOLEAN

(* kex.Client reads the server's reply; client() (873-887) verifies the    *)
(* host key signature and calls HostKeyCallback, either of which may       *)
(* reject it (verified).  On success the session ID is fixed, the keys     *)
(* prepared and our msgNewKeys sent (837-845).                             *)
RLKexReply ==
    /\ rl = "kexReply"
    /\ \/ /\ ReadFails
          /\ KexFinish("io", rlFirst, outWire)
          /\ UNCHANGED <<inWire, sessionID, kexDone>>
       \/ /\ CanRead
          /\ inWire' = Tail(inWire)
          /\ \/ /\ Head(inWire).type # "kexreply"
                /\ KexFinish("kex", rlFirst, outWire)
                /\ UNCHANGED <<sessionID, kexDone>>
             \/ /\ Head(inWire).type = "kexreply"
                /\ \E verified \in HostKeyVerdicts, ok \in WriteResults :
                     \/ /\ ~verified
                        /\ KexFinish("kex", rlFirst, outWire)
                        /\ UNCHANGED <<sessionID, kexDone>>
                     \/ /\ verified
                        /\ sessionID' = NextSessionID
                        /\ kexDone' = kexDone + 1
                        /\ IF ok
                           THEN /\ outWire' = Append(outWire, "newkeys")
                                /\ rl' = "kexNewKeys"
                                /\ UNCHANGED <<sentInit, writtenSinceKex,
                                       readSinceKex, writeError, rlErr, rlPkt,
                                       rlFirst, wpc, localClosed>>
                           ELSE KexFinish("io", rlFirst, outWire)
    /\ UNCHANGED <<incoming, peerSide, caller>>

\* 846-851: the next packet must be the server's msgNewKeys.
RLKexNewKeys ==
    /\ rl = "kexNewKeys"
    /\ \/ /\ ReadFails
          /\ KexFinish("io", rlFirst, outWire)
          /\ UNCHANGED inWire
       \/ /\ CanRead
          /\ inWire' = Tail(inWire)
          /\ KexFinish(IF Head(inWire).type = "newkeys" THEN NoErr ELSE "kex",
                       rlFirst, outWire)
    /\ UNCHANGED <<kexResult, incoming, peerSide, caller>>

-----------------------------------------------------------------------------
(***************************************************************************)
(* writePacket (715-738).  After the loop: fail with t.writeError, or      *)
(* count the packet and write it; msgKexInit/msgNewKeys from a caller are  *)
(* refused after being counted (the input "kexinit" stands for both).     *)
(***************************************************************************)
WriteFinish(w, wire) ==
    /\ wpc' = [wpc EXCEPT ![w] = "idle"]
    /\ IF writeError # NoErr
       THEN outWire' = wire /\ UNCHANGED writtenSinceKex
       ELSE /\ writtenSinceKex' = writtenSinceKex + 1
            /\ \E p \in {"data", "kexinit"}, ok \in WriteResults :
                 outWire' = IF p = "data" THEN Send(wire, "data", ok) ELSE wire

\* 716-724: take t.mu; over the threshold start a key change (its error is
\* ignored); then wait on t.cond while our KEXINIT is outstanding.
WriteEnter(w) ==
    /\ wpc[w] = "idle"
    /\ wleft[w] > 0
    /\ app \in {"running", "closed"}
    /\ ~MuHeld
    /\ wleft' = [wleft EXCEPT ![w] = @ - 1]
    /\ \E ok \in WriteResults :
         LET kick == writtenSinceKex > Threshold
             wire == IF kick THEN SentInitWire(ok) ELSE outWire
             sent == IF kick THEN SentInitAfter(ok) ELSE sentInit
         IN /\ sentInit' = sent
            /\ IF sent /\ writeError = NoErr
               THEN wpc' = [wpc EXCEPT ![w] = "wait"] /\ outWire' = wire
                    /\ UNCHANGED writtenSinceKex
               ELSE WriteFinish(w, wire)
    /\ UNCHANGED <<readSinceKex, writeError, rlErr, kexResult, incoming, readLoop, app,
                   appSessionID, inWire, localClosed, peerSide>>

\* 722: the writePacket loop's condition.
\* Mutant: "if" for "for" -- a woken writer does not re-check the condition.
Mut_StillBlocked == FALSE

StillBlocked == sentInit /\ writeError = NoErr

\* 722-724: a woken writer re-takes t.mu and re-checks the loop condition.
WriteWoken(w) ==
    /\ wpc[w] = "woken"
    /\ ~MuHeld
    /\ IF StillBlocked
       THEN wpc' = [wpc EXCEPT ![w] = "wait"] /\ UNCHANGED <<outWire, writtenSinceKex>>
       ELSE WriteFinish(w, outWire)
    /\ UNCHANGED <<sentInit, readSinceKex, writeError, rlErr, kexResult, incoming,
                   readLoop, caller, inWire, localClosed, peerSide>>

-----------------------------------------------------------------------------
(***************************************************************************)
(* The application thread.  clientHandshake (147-160) starts the read loop *)
(* and calls requestInitialKeyChange, i.e. sendKexInit(firstKeyExchange)   *)
(* (638-660): unless the exchange already completed asynchronously, send  *)
(* our KEXINIT; then wait for the msgNewKeys marker and cache the session  *)
(* ID.  Any error makes NewClientConn (76-79) close the connection.  Once  *)
(* NewClientConn returned, the multiplexer consumes t.incoming until it    *)
(* is closed; the user may close the connection at any time.              *)
(***************************************************************************)
AppFails == app' = "failed" /\ localClosed' = TRUE

AppRequestKex ==
    /\ app = "handshake"
    /\ ~MuHeld
    /\ \E ok \in WriteResults :
         IF sessionID # 0
         THEN app' = "waitNewKeys" /\ UNCHANGED <<outWire, sentInit, localClosed>>
         ELSE /\ outWire' = SentInitWire(ok)
              /\ sentInit' = SentInitAfter(ok)
              /\ IF SendInitFailed(ok) THEN AppFails
                 ELSE app' = "waitNewKeys" /\ UNCHANGED localClosed
    /\ UNCHANGED <<writtenSinceKex, readSinceKex, writeError, rlErr, kexResult, incoming,
                   readLoop, wpc, wleft, appSessionID, inWire, peerSide>>

\* sendKexInit (652-657) reads t.incoming through readPacket (529-535).
AppWaitNewKeys ==
    /\ app = "waitNewKeys"
    /\ \/ /\ incoming # <<>>
          /\ incoming' = Tail(incoming)
          /\ IF Head(incoming) = "newkeys"
             THEN app' = "running" /\ appSessionID' = sessionID
                  /\ UNCHANGED localClosed
             ELSE AppFails /\ UNCHANGED appSessionID
       \/ /\ incoming = <<>>
          /\ incomingClosed
          /\ AppFails
          /\ UNCHANGED <<incoming, appSessionID>>
    /\ UNCHANGED <<sentInit, writtenSinceKex, readSinceKex, writeError, rlErr, kexResult,
                   readLoop, wpc, wleft, outWire, inWire, peerSide>>

AppConsume ==
    /\ app = "running"
    /\ \/ incoming # <<>> /\ incoming' = Tail(incoming) /\ UNCHANGED app
       \/ incoming = <<>> /\ incomingClosed /\ app' = "closed" /\ UNCHANGED incoming
    /\ UNCHANGED <<sentInit, writtenSinceKex, readSinceKex, writeError, rlErr, kexResult,
                   readLoop, wpc, wleft, appSessionID, net, server>>

AppClose ==
    /\ app = "running"
    /\ ~localClosed
    /\ localClosed' = TRUE
    /\ UNCHANGED <<transport, readLoop, clients, outWire, inWire, peerSide>>

-----------------------------------------------------------------------------
(***************************************************************************)
(* The server (environment).  It answers our KEXINIT with its own unless  *)
(* it already sent one, answers our kex message with its reply and        *)
(* msgNewKeys, and returns to "idle" on our msgNewKeys; between its       *)
(* KEXINIT and its msgNewKeys it sends nothing else (RFC 4253, 7.1).  A   *)
(* KEXINIT with FirstKexFollows is followed by a guessed packet.          *)
(***************************************************************************)
KexInitPackets(m) ==
    IF m.FirstKexFollows THEN <<KexInitPkt(m), Pkt("guess")>> ELSE <<KexInitPkt(m)>>

PeerSend ==
    /\ pst \in {"idle", "sentNewKeys"}
    /\ ~peerClosed
    /\ peerData > 0
    /\ \E t \in {"data", "ignore"} : inWire' = Append(inWire, Pkt(t))
    /\ peerData' = peerData - 1
    /\ UNCHANGED <<transport, readLoop, clients, outWire, localClosed, peerClosed, deadline,
                   pst, peerRead, peerKex>>

PeerStartKex ==
    /\ pst = "idle"
    /\ ~peerClosed
    /\ peerKex > 0
    /\ \E m \in PeerInits : inWire' = inWire \o KexInitPackets(m)
    /\ pst' = "sentInit"
    /\ peerKex' = peerKex - 1
    /\ UNCHANGED <<transport, readLoop, clients, outWire, localClosed, peerClosed, deadline,
                   peerRead, peerData>>

PeerRecv ==
    /\ ~peerClosed
    /\ peerRead < Len(outWire)
    /\ peerRead' = peerRead + 1
    /\ LET m == outWire[peerRead + 1] IN
       CASE m = "kexinit" /\ pst = "idle" ->
              /\ \E i \in PeerInits : inWire' = inWire \o KexInitPackets(i)
              /\ pst' = "sentInit"
         [] m = "kexdhinit" ->
              /\ inWire' = inWire \o <<Pkt("kexreply"), Pkt("newkeys")>>
              /\ pst' = "sentNewKeys"
         [] m = "newkeys" ->
              pst' = "idle" /\ UNCHANGED inWire
         [] OTHER ->
              UNCHANGED <<inWire, pst>>
    /\ UNCHANGED <<transport, readLoop, clients, outWire, localClosed, peerClosed, deadline,
                   peerData, peerKex>>

\* Dial (client.go 227-228) sets the absolute deadline now+Timeout on the
\* conn before NewClientConn and never clears it; the clock passes it at
\* some point, whatever the connection is doing.
DeadlinePasses ==
    /\ deadline = "set"
    /\ deadline' = "passed"
    /\ UNCHANGED <<transport, readLoop, clients, outWire, inWire, localClosed,
                   peerClosed, server>>

PeerClose ==
    /\ ~peerClosed
    /\ peerClosed' = TRUE
    /\ UNCHANGED <<transport, readLoop, clients, outWire, inWire, localClosed,
                   deadline, server>>

-----------------------------------------------------------------------------
Init ==
    /\ sentInit = FALSE
    /\ writtenSinceKex = 0
    /\ readSinceKex = 0
    /\ writeError = NoErr
    /\ readError = NoErr
    /\ sessionID = 0
    /\ kexDone = 0
    /\ incoming = <<>>
    /\ incomingClosed = FALSE
    /\ rl = "top"
    /\ rlPkt = Pkt("none")
    /\ rlFirst = FALSE
    /\ wpc = [w \in Writers |-> "idle"]
    /\ wleft = [w \in Writers |-> MaxWrites]
    \* clientHandshake returns before any key exchange in HelloOnly mode (151-153)
    /\ app = IF HelloOnly THEN "running" ELSE "handshake"
    /\ appSessionID = 0
    /\ outWire = <<>>
    /\ inWire = <<>>
    /\ localClosed = FALSE
    /\ peerClosed = FALSE
    /\ deadline = IF Timeout THEN "set" ELSE "none"
    /\ pst = "idle"
    /\ peerRead = 0
    /\ peerData = MaxPeerData
    /\ peerKex = MaxPeerKex

ReadLoopStep ==
    RLTop \/ RLRead \/ RLDeliver \/ RLKexLock \/ RLKexGuess \/ RLKexReply
          \/ RLKexNewKeys \/ RLExit

AppStep == AppRequestKex \/ AppWaitNewKeys \/ AppConsume

Server == PeerSend \/ PeerStartKex \/ PeerRecv \/ PeerClose

Next ==
    \/ ReadLoopStep
    \/ \E w \in Writers : WriteEnter(w) \/ WriteWoken(w)
    \/ AppStep \/ AppClose
    \/ Server
    \/ DeadlinePasses

(***************************************************************************)
(* Fairness.  The read loop, the application thread and woken writers are *)
(* goroutines that run whenever they can.  Taking t.mu is strongly fair:  *)
(* Go's sync.Mutex hands the lock to a waiter starved for over 1ms.  The  *)
(* server is assumed to answer what we send it (PeerRecv); it is never    *)
(* obliged to send data, start a key exchange or hang up, and writers are *)
(* never obliged to call writePacket.                                      *)
(***************************************************************************)
Fairness ==
    /\ WF_vars(ReadLoopStep)
    /\ SF_vars(AppStep)
    /\ \A w \in Writers : SF_vars(WriteWoken(w))
    /\ WF_vars(PeerRecv)

Spec == Init /\ [][Next]_vars /\ Fairness

-----------------------------------------------------------------------------
TypeOK ==
    /\ sentInit \in BOOLEAN
    /\ writtenSinceKex \in Nat /\ readSinceKex \in Nat
    /\ writeError \in Errors \cup {NoErr} /\ readError \in Errors \cup {NoErr}
    /\ sessionID \in Nat /\ kexDone \in Nat
    /\ incoming \in Seq({"data", "newkeys", "guess", "kexreply"})
    /\ Len(incoming) <= IncomingCap
    /\ incomingClosed \in BOOLEAN
    /\ rl \in {"top", "read", "deliver", "kexLock", "kexGuess", "kexReply",
               "kexNewKeys", "exit", "done"}
    /\ wpc \in [Writers -> {"idle", "wait", "woken"}]
    /\ wleft \in [Writers -> 0..MaxWrites]
    /\ app \in {"handshake", "waitNewKeys", "running", "failed", "closed"}
    /\ outWire \in Seq({"kexinit", "kexdhinit", "newkeys", "data"})
    /\ pst \in {"idle", "sentInit", "sentNewKeys"}
    /\ peerRead \in 0..Len(outWire)

\* RFC 4253 7.1: once we have sent KEXINIT, nothing but key exchange
\* messages may follow until our NEWKEYS.  writePacket must keep every
\* application packet out of that window, even when several writers, a
\* threshold-triggered KEXINIT and the read loop's key exchange interleave.
NoDataDuringKex ==
    \A i \in DOMAIN outWire :
        outWire[i] = "data" =>
            ~\E j \in 1..(i - 1) :
                /\ outWire[j] = "kexinit"
                /\ \A k \in (j + 1)..(i - 1) : outWire[k] # "newkeys"

\* The session ID is the exchange hash of the first key exchange and never
\* changes through rekeys, so the copy clientHandshake cached (client.go
\* 160) for authentication stays equal to the transport's.
SessionIDStable ==
    /\ kexDone > 0 => sessionID = 1
    /\ appSessionID # 0 => appSessionID = sessionID

\* The spec (Cancellation/timeout): the connection timeout bounds only the
\* connect and the first handshake.  So once requestInitialKeyChange has
\* returned and clientHandshake cached the session ID, the read loop dies
\* of an I/O error only when one side has closed the connection -- not
\* because the deadline Dial set (client.go 227-228) has passed.
TimeoutBoundsOnlyHandshake ==
    (appSessionID # 0 /\ readError = "io") => localClosed \/ peerClosed

\* Every writePacket call blocked behind a key exchange eventually returns,
\* with success once NEWKEYS is exchanged or with the connection's error.
WritersEventuallyReturn ==
    \A w \in Writers : (wpc[w] # "idle") ~> (wpc[w] = "idle")

\* The initial handshake (requestInitialKeyChange) always ends: the first
\* exchange's msgNewKeys marker reaches it, or it fails.
HandshakeEventuallyEnds ==
    (app \in {"handshake", "waitNewKeys"}) ~> (app \in {"running", "failed"})

\* Closing the connection ends the read loop: "closing the underlying
\* connection ... unblocks the read loop (with an error)".  The loop can
\* also be blocked sending on t.incoming (548), which only a reader ends.
ReadLoopEndsAfterClose ==
    localClosed ~> (rl = "done")
=============================================================================
