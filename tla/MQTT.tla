--------------------------------- MODULE MQTT ---------------------------------
(***************************************************************************)
(* The MQTT scanner (src/modules/memcached/scanner.go, package mqtt):      *)
(* Scan (490-528) opens a connection, optionally completes a TLS           *)
(* handshake, sends a CONNECT packet (SendMQTTConnectPacket, 265-356) and  *)
(* reads the answer: one 4-byte Read for v3.1.1 (ReadMQTTv3Packet) or the *)
(* fixed header, its variable byte integer and the rest for v5             *)
(* (ReadMQTTv5Packet, processConnAck, processDisconnect,                   *)
(* readVariableByteInteger).                                               *)
(*                                                                         *)
(* The CONNECT packet is kept as its first four bytes and its true body    *)
(* length; the server's reply is one of a small set of byte sequences.     *)
(* results.Response, a hex string of the bytes, is kept as the bytes.      *)
(***************************************************************************)
EXTENDS Probe, Functions

CONSTANTS V5,          \* s.config.V5
          UseTLS,      \* s.config.UseTLS
          NameLens,    \* lengths s.config.Username may have (0: empty)
          PassLens,    \* lengths s.config.Password may have (0: empty)
          Replies,     \* byte sequences the server may answer with
          ShortReads   \* may a Read return less than has been sent?

VARIABLES pc, reply, srv, user, pass, sent, first, rlBytes,
          status, err, results, resNil
vars == <<pc, reply, srv, user, pass, sent, first, rlBytes,
          status, err, results, resNil>>

\* Mutant: the 7-bit groups are taken most significant first.
RECURSIVE Mut_Uvarint(_)
Mut_Uvarint(s) ==
    IF s = <<>> THEN <<0, 0>>
    ELSE IF Head(s) < 128 THEN <<Head(s), 1>>
    ELSE LET r == Mut_Uvarint(Tail(s))
         IN IF r[2] = 0 THEN <<0, 0>>
            ELSE <<(Head(s) - 128) * 128^r[2] + r[1], r[2] + 1>>

\* binary.Uvarint: the value and the number of bytes read, or <<0, 0>>
\* if the bytes end inside the integer.
RECURSIVE Uvarint(_)
Uvarint(s) ==
    IF s = <<>> THEN <<0, 0>>
    ELSE IF Head(s) < 128 THEN <<Head(s), 1>>
    ELSE LET r == Uvarint(Tail(s))
         IN IF r[2] = 0 THEN <<0, 0>> ELSE <<(Head(s) - 128) + 128 * r[1], r[2] + 1>>

\* The CONNECT packet (265-356): bytes 0-3 and the length of all bytes
\* after the fixed header.  v3 writes byte(remainingLength) into one byte.
ConnectPacket(u, p) ==
    IF V5 THEN [bytes |-> <<16, 23, 0, 4>>, body |-> 23]
    ELSE LET rl == 22 + (IF u > 0 THEN 2 + u ELSE 0) + (IF p > 0 THEN 2 + p ELSE 0)
         IN [bytes |-> <<16, rl % 256, 0, 4>>, body |-> rl]

\* Scan's return: status, the error, and whether the results are nil.
Finish(e, s, isNil) ==
    /\ pc' = "done" /\ err' = e /\ status' = s /\ resNil' = isNil

Open ==
    /\ pc = "open"
    /\ \/ \E e \in DialErrors : Finish(e, TryGetScanStatus(e), TRUE)
       \/ /\ pc' = IF UseTLS THEN "tls" ELSE "send"
          /\ UNCHANGED <<status, err, resNil>>
    /\ UNCHANGED <<reply, srv, user, pass, sent, first, rlBytes, results>>

\* The TLS handshake fails with the results (holding the TLS log) returned.
TLSHandshake ==
    /\ pc = "tls"
    /\ \/ \E e \in {"io-timeout", "eof", "app"} : Finish(e, TryGetScanStatus(e), FALSE)
       \/ pc' = "send" /\ UNCHANGED <<status, err, resNil>>
    /\ UNCHANGED <<reply, srv, user, pass, sent, first, rlBytes, results>>

SendConnect ==
    /\ pc = "send"
    /\ sent' = ConnectPacket(user, pass)
    /\ \/ \E e \in {"io-timeout", "app"} : Finish(e, TryGetScanStatus(e), TRUE)
       \/ /\ pc' = IF V5 THEN "v5first" ELSE "v3read"
          /\ UNCHANGED <<status, err, resNil>>
    /\ UNCHANGED <<reply, srv, user, pass, first, rlBytes, results>>

\* ReadMQTTv3Packet after its Read: DISCONNECT, a CONNACK, or an error.
ParseV3(r) ==
    LET none == [resp |-> r, sp |-> FALSE, rc |-> 0] IN
    CASE r[1] \div 16 = 14 /\ r[2] = 0 -> [res |-> none, e |-> NoErr]
      [] r[1] # 32 \/ r[2] # 2         -> [res |-> none, e |-> "app"]
      [] OTHER -> [res |-> [resp |-> r, sp |-> r[3] % 2 = 1, rc |-> r[4]], e |-> NoErr]

\* ReadMQTTv3Packet (359-382): one Read into a 4-byte buffer.
ReadV3 ==
    /\ pc = "v3read"
    /\ \/ \E e \in ReadErrors(srv) : Finish(e, TryGetScanStatus(e), FALSE)
                                     /\ UNCHANGED <<srv, results>>
       \/ \E chunk \in ReadChunks(srv, 4, ShortReads) :
             LET p == ParseV3(Filled(chunk, 4)) IN
             /\ srv' = SubSeq(srv, Len(chunk) + 1, Len(srv))
             /\ results' = p.res
             /\ Finish(p.e, TryGetScanStatus(p.e), FALSE)
    /\ UNCHANGED <<reply, user, pass, sent, first, rlBytes>>

\* ReadMQTTv5Packet (385-391): io.ReadFull of the first byte.
ReadV5First ==
    /\ pc = "v5first"
    /\ \/ \E e \in ReadFullErrors(srv, 1) : Finish(e, TryGetScanStatus(e), FALSE)
                                            /\ UNCHANGED <<srv, first>>
       \/ /\ srv # <<>>
          /\ first' = Head(srv) /\ srv' = Tail(srv) /\ pc' = "v5vbi"
          /\ UNCHANGED <<status, err, resNil>>
    /\ UNCHANGED <<reply, user, pass, sent, rlBytes, results>>


\* readVariableByteInteger (470-487): one byte per Read, at most four.
ReadVBIByte ==
    /\ pc = "v5vbi"
    /\ \/ \E e \in ReadErrors(srv) : Finish(e, TryGetScanStatus(e), FALSE)
                                     /\ UNCHANGED <<srv, rlBytes>>
       \/ /\ srv # <<>>
          /\ rlBytes' = Append(rlBytes, Head(srv)) /\ srv' = Tail(srv)
          /\ IF Head(srv) < 128 \/ Len(rlBytes) = 3
             THEN IF Len(rlBytes) = 3 /\ Head(srv) >= 128
                  THEN Finish("app", "unknown-error", FALSE)
                  ELSE pc' = "v5rest" /\ UNCHANGED <<status, err, resNil>>
             ELSE UNCHANGED <<pc, status, err, resNil>>
    /\ UNCHANGED <<reply, user, pass, sent, first, results>>

\* processConnAck (429-449) and processDisconnect (451-468): the error.
PropsErr(p, from) ==
    LET u == Uvarint(SubSeq(p, from, Len(p)))
    IN IF Len(p) >= from /\ (from - 1) + u[2] + u[1] > Len(p) THEN "app" ELSE NoErr

ProcessConnAck(p) ==
    IF Len(p) < 4 THEN [res |-> results, e |-> "app"]
    ELSE [res |-> [results EXCEPT !.sp = p[3] % 2 = 1, !.rc = p[4]], e |-> PropsErr(p, 5)]

ProcessDisconnect(p) ==
    IF Len(p) < 2 THEN [res |-> results, e |-> "app"] ELSE [res |-> results, e |-> PropsErr(p, 4)]

\* ReadMQTTv5Packet (393-427): read the rest, record it, dispatch on type.
ReadV5Rest ==
    LET need == Uvarint(rlBytes)[1]
        p    == <<first>> \o rlBytes \o SubSeq(srv, 1, need)
        r    == [results EXCEPT !.resp = p]
        out  == CASE first \div 16 = 2  -> ProcessConnAck(p)
                  [] first \div 16 = 14 -> ProcessDisconnect(p)
                  [] OTHER              -> [res |-> r, e |-> "app"]
    IN
    /\ pc = "v5rest"
    /\ \/ \E e \in ReadFullErrors(srv, need) : Finish(e, TryGetScanStatus(e), FALSE)
                                               /\ UNCHANGED <<srv, results>>
       \/ /\ Len(srv) >= need
          /\ srv' = SubSeq(srv, need + 1, Len(srv))
          /\ results' = [out.res EXCEPT !.resp = p]
          /\ Finish(out.e, TryGetScanStatus(out.e), FALSE)
    /\ UNCHANGED <<reply, user, pass, sent, first, rlBytes>>

Init ==
    /\ pc = "open" /\ reply \in Replies /\ srv = reply
    /\ user \in NameLens /\ pass \in PassLens
    /\ sent = [bytes |-> <<>>, body |-> 0]
    /\ first = 0 /\ rlBytes = <<>>
    /\ status = "success" /\ err = NoErr
    /\ results = [resp |-> <<>>, sp |-> FALSE, rc |-> 0] /\ resNil = TRUE

Next ==
    \/ Open \/ TLSHandshake \/ SendConnect \/ ReadV3
    \/ ReadV5First \/ ReadVBIByte \/ ReadV5Rest

Spec == Init /\ [][Next]_vars

-----------------------------------------------------------------------------
(* Reference decodings, from the MQTT standard (1.5.5, 3.2).               *)

\* The variable byte integer at the start of s: its length (0 if s ends
\* first or it runs past four bytes) and its value.
RefVBILen(s) ==
    LET ends == {k \in 1..Min({4, Len(s)}) : s[k] < 128} IN
    IF ends = {} THEN 0 ELSE Min(ends)
RefVBI(s) ==
    FoldFunction(+, 0, [i \in 1..RefVBILen(s) |-> (s[i] % 128) * 128^(i - 1)])

\* The server sent a complete CONNACK; its acknowledge flags and code.
HeaderLen == 1 + RefVBILen(Tail(reply))
IsConnAck ==
    /\ reply # <<>> /\ reply[1] = 32 /\ RefVBILen(Tail(reply)) > 0
    /\ RefVBI(Tail(reply)) >= 2 /\ Len(reply) >= HeaderLen + RefVBI(Tail(reply))
AckFlags == reply[HeaderLen + 1]
ReturnCode == reply[HeaderLen + 2]

TypeOK ==
    /\ pc \in {"open", "tls", "send", "v3read", "v5first", "v5vbi", "v5rest", "done"}
    /\ status \in Statuses /\ Len(rlBytes) <= 4
    /\ results.rc \in 0..255 /\ results.sp \in BOOLEAN

\* A successful scan of a server that answered with a CONNACK records that
\* CONNACK's session-present flag and connect return code, whichever
\* protocol version was used and however long the CONNACK is.
RecordsConnAck ==
    (pc = "done" /\ status = "success" /\ IsConnAck)
        => results.sp = (AckFlags % 2 = 1) /\ results.rc = ReturnCode

\* The remaining length of the CONNECT packet sent, read as the server
\* reads it (a variable byte integer), is the length of the rest of the
\* packet, for every username and password the configuration may hold.
ConnectLengthEncoded ==
    sent.bytes # <<>> => RefVBI(Tail(sent.bytes)) = sent.body

\* The remaining length the v5 reader decodes with binary.Uvarint is the
\* one the server encoded in the fixed header.
RemainingLengthDecoded ==
    pc = "v5rest" => Uvarint(rlBytes)[1] = RefVBI(Tail(reply))
=============================================================================
