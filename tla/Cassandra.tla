------------------------------- MODULE Cassandra -------------------------------
(***************************************************************************)
(* The Cassandra scanner (src/modules/cassandra/scanner.go, lines 1-163):  *)
(* Scan opens a connection, sendStartupMessage writes a CQL v4 STARTUP     *)
(* frame whose body is the string map {CQL_VERSION: 3.0.0}, and           *)
(* readResponse takes what zgrab2.ReadAvailable returns as the banner.     *)
(***************************************************************************)
EXTENDS Probe

CONSTANTS Replies,     \* byte sequences the server may answer with
          ShortReads   \* may ReadAvailable return less than has been sent?

VARIABLES pc, reply, srv, sent, status, err, results, resNil
vars == <<pc, reply, srv, sent, status, err, results, resNil>>

\* The ASCII bytes of "CQL_VERSION" and "3.0.0".
CQLVersionKey == <<67, 81, 76, 95, 86, 69, 82, 83, 73, 79, 78>>
CQLVersion == <<51, 46, 48, 46, 48>>

\* binary.Write(buf, binary.BigEndian, uint16(n)) and uint32(n).
Uint16BE(n) == <<(n \div 256) % 256, n % 256>>
Uint32BE(n) == Uint16BE(n \div 65536) \o Uint16BE(n % 65536)

\* The body: the map's length, then each key and value after its length.
StartupBody ==
    Uint16BE(1) \o Uint16BE(Len(CQLVersionKey)) \o CQLVersionKey
                \o Uint16BE(Len(CQLVersion)) \o CQLVersion

\* Mutant: the frame's length field counts the header as well.
Mut_StartupFrame == <<4, 0>> \o Uint16BE(0) \o <<1>> \o Uint32BE(9 + Len(StartupBody)) \o StartupBody

\* The frame: version 4, flags 0, stream 0, opcode STARTUP, body length,
\* body.
StartupFrame == <<4, 0>> \o Uint16BE(0) \o <<1>> \o Uint32BE(Len(StartupBody)) \o StartupBody

Finish(e, s, isNil) ==
    /\ pc' = "done" /\ err' = e /\ status' = s /\ resNil' = isNil

\* t.Open, and the return in Scan when it fails.
Open ==
    /\ pc = "open"
    /\ \/ \E e \in DialErrors : Finish(e, TryGetScanStatus(e), TRUE)
       \/ pc' = "startup" /\ UNCHANGED <<status, err, resNil>>
    /\ UNCHANGED <<reply, srv, sent, results>>

\* sendStartupMessage; its error returns nil results.
SendStartupMessage ==
    /\ pc = "startup"
    /\ \/ \E e \in {"io-timeout", "app"} : Finish(e, TryGetScanStatus(e), TRUE)
                                           /\ UNCHANGED sent
       \/ pc' = "read" /\ sent' = StartupFrame /\ UNCHANGED <<status, err, resNil>>
    /\ UNCHANGED <<reply, srv, results>>

\* readResponse with ReadAvailable: an error returns nil results;
\* otherwise what was read is the banner and the scan succeeds.
ReadResponse ==
    /\ pc = "read"
    /\ \/ \E e \in ReadErrors(srv) : Finish(e, TryGetScanStatus(e), TRUE) /\ UNCHANGED <<srv, results>>
       \/ \E chunk \in ReadChunks(srv, 10000, ShortReads) :
             /\ srv' = SubSeq(srv, Len(chunk) + 1, Len(srv))
             /\ results' = chunk
             /\ Finish(NoErr, "success", FALSE)
    /\ UNCHANGED <<reply, sent>>

Init ==
    /\ pc = "open" /\ reply \in Replies /\ srv = reply /\ sent = <<>>
    /\ status = "success" /\ err = NoErr /\ results = <<>> /\ resNil = TRUE

Next == Open \/ SendStartupMessage \/ ReadResponse

Spec == Init /\ [][Next]_vars

-----------------------------------------------------------------------------
\* A [string map] of the CQL protocol, decoded: its entry count, then each
\* entry's key and value after their 2-byte lengths.
RECURSIVE DecodeEntries(_, _)
DecodeEntries(s, n) ==
    IF n = 0 THEN IF s = <<>> THEN {} ELSE {"trailing"}
    ELSE IF Len(s) < 2 THEN {"short"}
    ELSE LET kl == BigEndian(SubSeq(s, 1, 2))
             rest == SubSeq(s, 3 + kl, Len(s))
         IN IF Len(s) < 2 + kl + 2 THEN {"short"}
            ELSE LET vl == BigEndian(SubSeq(rest, 1, 2))
                 IN IF Len(rest) < 2 + vl THEN {"short"}
                    ELSE {<<SubSeq(s, 3, 2 + kl), SubSeq(rest, 3, 2 + vl)>>}
                         \cup DecodeEntries(SubSeq(rest, 3 + vl, Len(rest)), n - 1)

\* A successful Cassandra scan sent, before reading its banner, a STARTUP
\* frame the server can decode: a v4 request header for stream 0 with
\* opcode STARTUP and a length that is the body's, and a body that is the
\* string map {CQL_VERSION: 3.0.0}; its banner is a nonempty start of the
\* answer.  sendStartupMessage, lines 112-135, and Scan.
StartupThenBanner ==
    (pc = "done" /\ status = "success") =>
        /\ Len(sent) >= 9
        /\ SubSeq(sent, 1, 5) = <<4, 0, 0, 0, 1>>
        /\ BigEndian(SubSeq(sent, 6, 9)) = Len(sent) - 9
        /\ LET body == SubSeq(sent, 10, Len(sent))
           IN Len(body) >= 2
              /\ DecodeEntries(SubSeq(body, 3, Len(body)), BigEndian(SubSeq(body, 1, 2)))
                    = {<<CQLVersionKey, CQLVersion>>}
        /\ results # <<>> /\ IsPrefix(results, reply)
====
