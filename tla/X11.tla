--------------------------------- MODULE X11 ---------------------------------
(***************************************************************************)
(* The X11 scanner (src/unnamed/part_001): Init fixes the byte order to    *)
(* little-endian (0x6C); Scan opens a connection, SendInitialMessage       *)
(* writes the 12-byte connection setup, and ReadServerResponse takes one   *)
(* Read of up to 1024 bytes and decodes the reply from the buffer.         *)
(***************************************************************************)
EXTENDS Probe

CONSTANTS Replies,     \* byte sequences the server may answer with
          ShortReads   \* may a Read return less than has been sent?

VARIABLES pc, reply, srv, byteOrder, status, err, results, resNil
vars == <<pc, reply, srv, byteOrder, status, err, results, resNil>>

\* x11.results.Error: empty, a major version other than 11, or a reply
\* taken for a refusal.
NoResults == [banner |-> <<>>, major |-> 0, minor |-> 0, error |-> "none"]

Finish(e, s, isNil) ==
    /\ pc' = "done" /\ err' = e /\ status' = s /\ resNil' = isNil

Open ==
    /\ pc = "open"
    /\ \/ \E e \in DialErrors : Finish(e, TryGetScanStatus(e), TRUE)
       \/ pc' = "send" /\ UNCHANGED <<status, err, resNil>>
    /\ UNCHANGED <<reply, srv, byteOrder, results>>

\* SendInitialMessage: a write error returns the (empty) results.
SendInitialMessage ==
    /\ pc = "send"
    /\ \/ \E e \in {"io-timeout", "app"} : Finish(e, TryGetScanStatus(e), FALSE)
       \/ pc' = "read" /\ UNCHANGED <<status, err, resNil>>
    /\ UNCHANGED <<reply, srv, byteOrder, results>>

\* ReadServerResponse after its Read: bytes 2-5 of the zeroed 1024-byte
\* buffer are the versions in the scanner's byte order; then the major
\* version is checked, then byte 1 is taken as the status.
Decode(chunk) ==
    LET buf   == Filled(chunk, 6)
        int(s) == IF byteOrder = 66 THEN BigEndian(s) ELSE LittleEndian(s)
        major == int(SubSeq(buf, 3, 4))
    IN [banner |-> chunk, major |-> major, minor |-> int(SubSeq(buf, 5, 6)),
        error |-> IF major # 11 THEN "version" ELSE IF buf[2] = 1 THEN "none" ELSE "failed"]

\* ReadServerResponse: a read error, or success whatever the reply says.
ReadServerResponse ==
    /\ pc = "read"
    /\ \/ \E e \in ReadErrors(srv) : Finish(e, TryGetScanStatus(e), FALSE)
                                     /\ UNCHANGED <<srv, results>>
       \/ \E chunk \in ReadChunks(srv, 1024, ShortReads) :
             /\ srv' = SubSeq(srv, Len(chunk) + 1, Len(srv))
             /\ results' = Decode(chunk)
             /\ Finish(NoErr, "success", FALSE)
    /\ UNCHANGED <<reply, byteOrder>>

Init ==
    /\ pc = "open" /\ reply \in Replies /\ srv = reply /\ byteOrder = 108
    /\ status = "success" /\ err = NoErr /\ results = NoResults /\ resNil = TRUE

Next == Open \/ SendInitialMessage \/ ReadServerResponse

Spec == Init /\ [][Next]_vars

-----------------------------------------------------------------------------
(* The reply to a connection setup (X11 protocol, "Connection Setup"):    *)
(* byte 0 is the status (0 Failed, 1 Success, 2 Authenticate), bytes 2-5   *)
(* the protocol versions in the client's byte order.                       *)
ServerVersion(i) == LittleEndian(SubSeq(reply, i, i + 1))
ServerAccepted == Len(reply) >= 6 /\ reply[1] = 1 /\ ServerVersion(3) = 11

\* The scan records a refusal exactly when the server did not accept the
\* connection: "Handle a successful connection (status byte = 1)".
RefusalRecordedIffRefused ==
    (pc = "done" /\ status = "success" /\ results.banner = reply)
        => ((results.error = "none") <=> ServerAccepted)
=============================================================================
