---------------------------------- MODULE IPMI ----------------------------------
(***************************************************************************)
(* The IPMI scanner (src/modules/cassandra/scanner.go, lines 348-492):     *)
(* Scan dials UDP, writes an RMCP presence ping, records it in hex, and    *)
(* makes one Read of at most 1024 bytes, recorded in hex as the pong.      *)
(***************************************************************************)
EXTENDS Probe

CONSTANTS Replies   \* datagrams the server may answer with (<<>>: none)

VARIABLES pc, reply, status, err, results, resNil
vars == <<pc, reply, status, err, results, resNil>>

\* IPMIPingMessage.
IPMIPingMessage == <<6, 0, 255, 6, 0, 0, 17, 190, 128, 0, 0, 4>>

\* ScanResults: PingSent and PongReceived.
NoResults == [pingSent |-> <<>>, pongReceived |-> <<>>]

HexDigits == <<"0", "1", "2", "3", "4", "5", "6", "7", "8", "9", "a", "b", "c", "d", "e", "f">>

\* fmt.Sprintf("%x", bytes): two lower-case digits per byte.
Hex(bytes) ==
    FlattenSeq([i \in DOMAIN bytes |->
                  <<HexDigits[(bytes[i] \div 16) + 1], HexDigits[(bytes[i] % 16) + 1]>>])

Finish(e, s, isNil) ==
    /\ pc' = "done" /\ err' = e /\ status' = s /\ resNil' = isNil

\* net.Dial("udp", ...); its error returns nil results.
Dial ==
    /\ pc = "dial"
    /\ \/ \E e \in DialErrors : Finish(e, TryGetScanStatus(e), TRUE)
       \/ pc' = "ping" /\ UNCHANGED <<status, err, resNil>>
    /\ UNCHANGED <<reply, results>>

\* conn.Write(pingMsg): an error returns the empty results, otherwise the
\* ping is recorded.
SendPing ==
    /\ pc = "ping"
    /\ \/ \E e \in {"io-timeout", "app"} : Finish(e, TryGetScanStatus(e), FALSE)
                                           /\ UNCHANGED results
       \/ /\ pc' = "pong" /\ results' = [results EXCEPT !.pingSent = Hex(IPMIPingMessage)]
          /\ UNCHANGED <<status, err, resNil>>
    /\ UNCHANGED reply

\* conn.Read(buf) with a 5-second deadline: no datagram (or an ICMP
\* refusal) is an error; a datagram is recorded, the first 1024 bytes.
ReadPong ==
    /\ pc = "pong"
    /\ \/ \E e \in UDPReadErrors : Finish(e, TryGetScanStatus(e), FALSE) /\ UNCHANGED results
       \/ /\ reply # <<>>
          /\ results' = [results EXCEPT !.pongReceived = Hex(SubSeq(reply, 1, Min({1024, Len(reply)})))]
          /\ Finish(NoErr, "success", FALSE)
    /\ UNCHANGED reply

Init ==
    /\ pc = "dial" /\ reply \in Replies
    /\ status = "success" /\ err = NoErr /\ results = NoResults /\ resNil = TRUE

Next == Dial \/ SendPing \/ ReadPong

Spec == Init /\ [][Next]_vars
====
