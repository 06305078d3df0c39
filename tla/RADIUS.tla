-------------------------------- MODULE RADIUS --------------------------------
(***************************************************************************)
(* The RADIUS scanner (src/modules/radius/scanner.go): Scan opens a UDP    *)
(* socket, SendAccessRequest writes an Access-Request with a random        *)
(* identifier and reads one datagram of at most 512 bytes, whose 20-byte   *)
(* header is parsed, and ValidateResponse accepts Access-Accept, -Reject   *)
(* and -Challenge.  The request authenticator (a time byte sixteen times)  *)
(* is abstracted to zeros, as is the response's.                           *)
(***************************************************************************)
EXTENDS Probe

CONSTANTS Replies,     \* datagrams the server may answer with (<<>>: none)
          Ids          \* identifiers generateRandomIdentifier may return

VARIABLES pc, reply, srv, sent, status, err, results, resNil
vars == <<pc, reply, srv, sent, status, err, results, resNil>>

AccessRequest == 1
AccessAccept == 2
AccessReject == 3
AccessChallenge == 11
RadiusPort == 1812

NoResults == [code |-> 0, identifier |-> 0, length |-> 0]

Finish(e, s, isNil) ==
    /\ pc' = "done" /\ err' = e /\ status' = s /\ resNil' = isNil

\* The two bytes of a uint16, big-endian.
Uint16(n) == <<n \div 256, n % 256>>

Zeros(n) == [i \in 1..n |-> 0]

\* RADIUSHeader.Encode and RADIUSAttribute.Encode.
EncodeHeader(code, id, length) == <<code, id>> \o Uint16(length) \o Zeros(16)
EncodeAttribute(type, length, value) == <<type, length>> \o value

\* Mutant: the final length is never written into the header.
Mut_BuildAccessRequest(id) ==
    EncodeHeader(AccessRequest, id, 0)
        \o EncodeAttribute(1, 2 + 4, <<116, 101, 115, 116>>)
        \o EncodeAttribute(4, 6, <<192, 168, 0, 1>>)
        \o EncodeAttribute(5, 6, <<0, 0>> \o Uint16(RadiusPort))

\* buildAccessRequest: the header, User-Name "test", NAS-IP-Address
\* 192.168.0.1 and NAS-Port 1812, then the packet's length in bytes 3-4.
BuildAccessRequest(id) ==
    LET packet == EncodeHeader(AccessRequest, id, 0)
                      \o EncodeAttribute(1, 2 + 4, <<116, 101, 115, 116>>)
                      \o EncodeAttribute(4, 6, <<192, 168, 0, 1>>)
                      \o EncodeAttribute(5, 6, <<0, 0>> \o Uint16(RadiusPort))
    IN [packet EXCEPT ![3] = Uint16(Len(packet))[1], ![4] = Uint16(Len(packet))[2]]

\* t.OpenUDP, and the return in Scan when it fails.
Open ==
    /\ pc = "open"
    /\ \/ \E e \in DialErrors : Finish(e, TryGetScanStatus(e), TRUE)
       \/ pc' = "request" /\ UNCHANGED <<status, err, resNil>>
    /\ UNCHANGED <<reply, srv, sent, results>>

\* The test of n against the minimum RADIUS packet size.
TooShort(n) == n < 20

\* The response header as SendAccessRequest parses it from the buffer.
ParseHeader(buf) ==
    [code |-> buf[1], identifier |-> buf[2], length |-> BigEndian(SubSeq(buf, 3, 4))]

\* SendAccessRequest, ValidateResponse and the rest of Scan: every error
\* returns nil results; an unknown code is a protocol error.
SendAccessRequest ==
    /\ pc = "request"
    /\ \E id \in Ids : sent' = BuildAccessRequest(id)
    /\ \/ \E e \in {"io-timeout", "app"} : Finish(e, TryGetScanStatus(e), TRUE)
                                           /\ UNCHANGED <<srv, results>>
       \/ \E e \in UDPReadErrors : Finish(e, TryGetScanStatus(e), TRUE)
                                   /\ UNCHANGED <<srv, results>>
       \/ /\ srv # <<>> /\ srv' = <<>>
          /\ LET buf == Filled(SubSeq(srv, 1, Min({512, Len(srv)})), 512)
                 hdr == ParseHeader(buf)
             IN \/ TooShort(Len(srv)) /\ UNCHANGED results
                   /\ Finish("app", TryGetScanStatus("app"), TRUE)
                \/ /\ ~TooShort(Len(srv))
                   /\ hdr.code \notin {AccessAccept, AccessReject, AccessChallenge}
                   /\ UNCHANGED results /\ Finish("app", "protocol-error", TRUE)
                \/ /\ ~TooShort(Len(srv))
                   /\ hdr.code \in {AccessAccept, AccessReject, AccessChallenge}
                   /\ results' = hdr /\ Finish(NoErr, "success", FALSE)
    /\ UNCHANGED reply

Init ==
    /\ pc = "open" /\ reply \in Replies /\ srv = reply /\ sent = <<>>
    /\ status = "success" /\ err = NoErr /\ results = NoResults /\ resNil = TRUE

Next == Open \/ SendAccessRequest

Spec == Init /\ [][Next]_vars

-----------------------------------------------------------------------------
\* How a server walks a packet's attributes: each starts with its type and
\* its length, which counts both, and the last ends where the packet does.
RECURSIVE AttributesFit(_)
AttributesFit(s) ==
    \/ s = <<>>
    \/ /\ Len(s) >= 2 /\ 2 <= s[2] /\ s[2] <= Len(s)
       /\ AttributesFit(SubSeq(s, s[2] + 1, Len(s)))

\* The Access-Request sent is one a server can parse: its length field is
\* the datagram's length, and its attributes tile the rest exactly.
RequestWellFormed ==
    sent # <<>> =>
        /\ BigEndian(SubSeq(sent, 3, 4)) = Len(sent)
        /\ AttributesFit(SubSeq(sent, 21, Len(sent)))

=============================================================================
