--------------------------------- MODULE Bolt ---------------------------------
(***************************************************************************)
(* The Bolt scanner (src/modules/amqp/scanner.go, package bolt): Scan      *)
(* opens a connection, sends the four identification bytes and the        *)
(* version negotiation message, then reads the server's 4-byte answer with *)
(* readBytes, a single Read into a zeroed 4-byte buffer.                   *)
(***************************************************************************)
EXTENDS Probe

CONSTANTS Replies,     \* byte sequences the server may answer with
          ShortReads   \* may a Read return less than has been sent?

VARIABLES pc, reply, srv, status, err, results, resNil
vars == <<pc, reply, srv, status, err, results, resNil>>

NoResults == [ident |-> FALSE, response |-> <<>>, version |-> 0]

Finish(e, s, isNil) ==
    /\ pc' = "done" /\ err' = e /\ status' = s /\ resNil' = isNil

\* establishConnection, and the return in Scan when it fails: the dial
\* error is wrapped with %w (319) before TryGetScanStatus sees it.
Open ==
    /\ pc = "open"
    /\ \/ \E e \in DialErrors : Finish(e, WrappedStatus(e), TRUE)
       \/ pc' = "ident" /\ UNCHANGED <<status, err, resNil>>
    /\ UNCHANGED <<reply, srv, results>>

\* sendBytes of the identification, then of the version message; a write
\* error returns nil results.
SendIdentification ==
    /\ pc = "ident"
    /\ \/ \E e \in {"io-timeout", "app"} : Finish(e, TryGetScanStatus(e), TRUE)
                                           /\ UNCHANGED results
       \/ /\ pc' = "versions" /\ results' = [results EXCEPT !.ident = TRUE]
          /\ UNCHANGED <<status, err, resNil>>
    /\ UNCHANGED <<reply, srv>>

SendVersions ==
    /\ pc = "versions"
    /\ \/ \E e \in {"io-timeout", "app"} : Finish(e, TryGetScanStatus(e), TRUE)
       \/ pc' = "read" /\ UNCHANGED <<status, err, resNil>>
    /\ UNCHANGED <<reply, srv, results>>

\* The tail of Scan: the length test (which readBytes makes always pass),
\* the big-endian version, and version 0 as an application error.
Decode(response) ==
    CASE Len(response) # 4 -> [e |-> "app", s |-> "protocol-error", v |-> 0]
      [] BigEndian(response) = 0 -> [e |-> "app", s |-> "application-error", v |-> 0]
      [] OTHER -> [e |-> NoErr, s |-> "success", v |-> BigEndian(response)]

\* readBytes(4): one Read; the buffer is returned whatever Read filled.
ReadVersion ==
    /\ pc = "read"
    /\ \/ \E e \in ReadErrors(srv) : Finish(e, TryGetScanStatus(e), TRUE)
                                     /\ UNCHANGED <<srv, results>>
       \/ \E chunk \in ReadChunks(srv, 4, ShortReads) :
             LET response == Filled(chunk, 4)
                 d        == Decode(response)
             IN /\ srv' = SubSeq(srv, Len(chunk) + 1, Len(srv))
                /\ results' = [results EXCEPT !.response = response, !.version = d.v]
                /\ Finish(d.e, d.s, FALSE)
    /\ UNCHANGED reply

Init ==
    /\ pc = "open" /\ reply \in Replies /\ srv = reply
    /\ status = "success" /\ err = NoErr /\ results = NoResults /\ resNil = TRUE

Next == Open \/ SendIdentification \/ SendVersions \/ ReadVersion

Spec == Init /\ [][Next]_vars
=============================================================================
