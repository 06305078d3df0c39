-------------------------------- MODULE Probe --------------------------------
(***************************************************************************)
(* The environment every scanner module of src/modules runs in: zgrab2's   *)
(* ScanTarget.Open and TryGetScanStatus, and a TCP stream whose reads may  *)
(* return any nonempty prefix of what the server has sent.  None of this   *)
(* is code of this repository; it is stated from the Go and zgrab2         *)
(* interfaces the scanners call.                                           *)
(*                                                                         *)
(* Bytes are naturals below 256.  An error is a string naming its kind.    *)
(***************************************************************************)
EXTENDS Naturals, Sequences, SequencesExt

\* The scan statuses of zgrab2 that the scanners return.
Statuses == {"success", "connection-refused", "connection-timeout",
             "connection-closed", "io-timeout", "protocol-error",
             "application-error", "unknown-error"}

\* "none" is a nil error; "app" is any error built with fmt.Errorf or
\* errors.New, which TryGetScanStatus does not recognise.
NoErr == "none"
DialErrors == {"dial-refused", "dial-timeout"}
IOErrors == {"io-timeout", "eof", "unexpected-eof"}

\* zgrab2.TryGetScanStatus.
TryGetScanStatus(e) ==
    CASE e = NoErr          -> "success"
      [] e = "eof"          -> "connection-closed"
      [] e = "dial-refused" -> "connection-refused"
      [] e = "dial-timeout" -> "connection-timeout"
      [] e = "io-timeout"   -> "io-timeout"
      [] OTHER              -> "unknown-error"

\* The status of fmt.Errorf("...: %w", e).  TryGetScanStatus recognises an
\* error by comparison and type assertion, not by unwrapping, so a wrapped
\* error is an unknown error whatever it wraps.
WrappedStatus(e) == TryGetScanStatus("app")

\* What one conn.Read(buf) with len(buf) = size may return while the server
\* still has `pending` bytes to send: a nonempty prefix of them (all of
\* what fits when `short` is FALSE), or, once the server has sent all,
\* io.EOF if it closed or a timeout if it keeps the connection open.
ReadChunks(pending, size, short) ==
    IF pending = <<>> THEN {}
    ELSE IF short
         THEN {SubSeq(pending, 1, k) : k \in 1..Min({size, Len(pending)})}
         ELSE {SubSeq(pending, 1, Min({size, Len(pending)}))}
ReadErrors(pending) == IF pending = <<>> THEN {"eof", "io-timeout"} ELSE {}

\* What a Read on a UDP socket may return instead of a datagram: a
\* timeout (no datagram, or the answer lost), or, after an ICMP port
\* unreachable, a refusal of the same kind as a refused dial.
UDPReadErrors == {"io-timeout", "dial-refused"}

\* io.ReadFull(conn, buf) with len(buf) = size: the error when fewer bytes
\* are left, or NoErr.
ReadFullErr(pending, size) ==
    CASE Len(pending) >= size -> NoErr
      [] pending = <<>>       -> "eof"
      [] OTHER                -> "unexpected-eof"

\* The errors io.ReadFull may return when fewer than `size` bytes are left:
\* io.EOF or io.ErrUnexpectedEOF if the server closed, a timeout if it
\* keeps the connection open.  Empty when the read succeeds.
ReadFullErrors(pending, size) ==
    IF Len(pending) >= size THEN {} ELSE {ReadFullErr(pending, size), "io-timeout"}

\* A buffer of `size` zero bytes after a read put `chunk` at its start.
Filled(chunk, size) == chunk \o [i \in 1..(size - Len(chunk)) |-> 0]

\* Unsigned big- and little-endian integers of a byte sequence.
RECURSIVE BigEndian(_)
BigEndian(s) == IF s = <<>> THEN 0 ELSE BigEndian(Front(s)) * 256 + Last(s)
LittleEndian(s) == BigEndian(Reverse(s))
=============================================================================
