-------------------------------- MODULE TACACS --------------------------------
(***************************************************************************)
(* The TACACS+ scanner (src/modules/tacacs/scanner.go): Scan opens a       *)
(* connection, and sendTACACSPacket writes a 12-byte Authentication START  *)
(* header (its random session id and contents abstracted) and makes a      *)
(* single Read of at most 1024 bytes.  Any response is a success.          *)
(***************************************************************************)
EXTENDS Probe

CONSTANTS Replies,     \* byte sequences the server may answer with
          ShortReads   \* may a Read return less than has been sent?

VARIABLES pc, reply, srv, status, err, results, resNil
vars == <<pc, reply, srv, status, err, results, resNil>>

Finish(e, s, isNil) ==
    /\ pc' = "done" /\ err' = e /\ status' = s /\ resNil' = isNil

\* t.Open, and the return in Scan when it fails.
Open ==
    /\ pc = "open"
    /\ \/ \E e \in DialErrors : Finish(e, TryGetScanStatus(e), TRUE)
       \/ pc' = "send" /\ UNCHANGED <<status, err, resNil>>
    /\ UNCHANGED <<reply, srv, results>>

\* conn.Read into a 1024-byte buffer: its error, or response[:n].
ReadResult(pending) ==
    {[e |-> NoErr, r |-> c] : c \in ReadChunks(pending, 1024, ShortReads)} \cup
        {[e |-> x, r |-> <<>>] : x \in ReadErrors(pending)}

\* sendTACACSPacket and the rest of Scan: the write's or the read's error
\* is returned with the (empty) results; a response is recorded as RawResp.
SendTACACSPacket ==
    /\ pc = "send"
    /\ \/ \E e \in {"io-timeout", "app"} : Finish(e, TryGetScanStatus(e), FALSE)
                                           /\ UNCHANGED <<srv, results>>
       \/ \E rr \in ReadResult(srv) :
             /\ srv' = SubSeq(srv, Len(rr.r) + 1, Len(srv))
             /\ IF rr.e = NoErr
                THEN results' = rr.r /\ Finish(NoErr, "success", FALSE)
                ELSE UNCHANGED results /\ Finish(rr.e, TryGetScanStatus(rr.e), FALSE)
    /\ UNCHANGED reply

Init ==
    /\ pc = "open" /\ reply \in Replies /\ srv = reply
    /\ status = "success" /\ err = NoErr /\ results = <<>> /\ resNil = TRUE

Next == Open \/ SendTACACSPacket

Spec == Init /\ [][Next]_vars
=============================================================================
