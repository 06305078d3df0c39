--------------------------------- MODULE TFTP ---------------------------------
(***************************************************************************)
(* The TFTP scanner (src/modules/tftp/scanner.go): Scan opens a UDP        *)
(* socket, SendRRQ writes a read request for "dummyfile" and reads one     *)
(* datagram into a 516-byte buffer, and decodeTFTPResponse decodes it.     *)
(* The reply is one datagram (or none): a Read returns all of it, cut to   *)
(* the buffer.  response is buf[:n], whose capacity is 516, so slicing it  *)
(* past n up to 516 reads zeros; slicing from past n panics.               *)
(***************************************************************************)
EXTENDS Probe

CONSTANTS Replies      \* datagrams the server may answer with (<<>>: none)

VARIABLES pc, reply, status, err, results, resNil
vars == <<pc, reply, status, err, results, resNil>>

TFTP_DATA == 3
TFTP_ERROR == 5

Finish(e, s, isNil) ==
    /\ pc' = "done" /\ err' = e /\ status' = s /\ resNil' = isNil

\* OpenUDP: its error returns nil results.
Open ==
    /\ pc = "open"
    /\ \/ Finish("app", TryGetScanStatus("app"), TRUE)
       \/ pc' = "rrq" /\ UNCHANGED <<status, err, resNil>>
    /\ UNCHANGED <<reply, results>>

\* decodeTFTPResponse: the opcode; DATA's block number and data length;
\* ERROR's code and message without its last byte; response[4:] panics
\* when the datagram is shorter than 4 bytes.
Decode(r) ==
    LET buf == Filled(r, 4) IN
    CASE Len(r) < 2 -> [kind |-> "error"]
      [] BigEndian(SubSeq(buf, 1, 2)) = TFTP_DATA /\ Len(r) < 4 -> [kind |-> "panic"]
      [] BigEndian(SubSeq(buf, 1, 2)) = TFTP_DATA ->
             [kind |-> "data", num |-> BigEndian(SubSeq(buf, 3, 4)), size |-> Len(r) - 4]
      [] BigEndian(SubSeq(buf, 1, 2)) = TFTP_ERROR ->
             [kind |-> "err", num |-> BigEndian(SubSeq(buf, 3, 4)),
              msg |-> IF Len(r) > 4 THEN SubSeq(r, 5, Len(r) - 1) ELSE <<>>]
      [] OTHER -> [kind |-> "error"]

\* SendRRQ and the rest of Scan: the write, one Read, then the decoding;
\* every error returns nil results.
SendRRQ ==
    /\ pc = "rrq"
    /\ \/ \E e \in {"io-timeout", "app"} : Finish(e, TryGetScanStatus(e), TRUE)
                                           /\ UNCHANGED results
       \/ reply = <<>> /\ Finish("io-timeout", "io-timeout", TRUE) /\ UNCHANGED results
       \/ /\ reply # <<>>
          /\ LET d == Decode(SubSeq(reply, 1, Min({516, Len(reply)}))) IN
             CASE d.kind = "panic" -> pc' = "panic" /\ UNCHANGED <<status, err, resNil, results>>
               [] d.kind = "error" -> Finish("app", "unknown-error", TRUE) /\ UNCHANGED results
               [] OTHER -> results' = d /\ Finish(NoErr, "success", FALSE)
    /\ UNCHANGED reply

Init ==
    /\ pc = "open" /\ reply \in Replies
    /\ status = "success" /\ err = NoErr /\ results = [kind |-> "none"] /\ resNil = TRUE

Next == Open \/ SendRRQ

Spec == Init /\ [][Next]_vars

-----------------------------------------------------------------------------
\* Scan returns, with a status, whatever datagram the server sends.
ScanReturns == pc # "panic"
=============================================================================
