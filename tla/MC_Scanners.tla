----------------------------- MODULE MC_Scanners -----------------------------
(***************************************************************************)
(* One target scanned by one scanner module, chosen in the initial state:  *)
(* each behaviour is one Scan call of one module against one server reply. *)
(* The modules share the names of the variables they have in common; the  *)
(* variables of modules not chosen keep a fixed value.  The checks of SSH  *)
(* algorithm negotiation (MC_Negotiation), calls of pure functions, are   *)
(* one more choice: their inputs are fixed in the scans' behaviours.       *)
(***************************************************************************)
EXTENDS Naturals, Sequences, SequencesExt

VARIABLES which, pc, reply, srv, status, err, results, resNil,
          user, pass, sent, first, rlBytes, banner, byteOrder,
          client, server, clientInit, serverInit
negotiationVars == <<client, server, clientInit, serverInit>>
vars == <<which, pc, reply, srv, status, err, results, resNil,
          user, pass, sent, first, rlBytes, banner, byteOrder, negotiationVars>>

MQTTVars == <<user, pass, sent, first, rlBytes>>
MQTTIdle == user = 0 /\ pass = 0 /\ sent = 0 /\ first = 0 /\ rlBytes = <<>>

Zeros(n) == [i \in 1..n |-> 0]

-----------------------------------------------------------------------------
(* MQTT.  v3.1.1 answers: accepted; session present and "not authorized";  *)
(* a DISCONNECT; an HTTP server; silence.  v5 answers: accepted without    *)
(* properties; session present and "not authorized" (135) with a 2-byte   *)
(* property; a DISCONNECT of 130 bytes (two-byte remaining length); a     *)
(* truncated CONNACK; a properties length past the packet; variable byte  *)
(* integers of four continued bytes and of five; a lone first byte; a     *)
(* PUBLISH.                                                                *)
MQTTv3Replies == {<<32, 2, 0, 0>>, <<32, 2, 1, 5>>, <<224, 0>>, <<72, 84, 84, 80>>, <<>>}
MQTTv5Replies == {<<32, 3, 0, 0, 0>>, <<32, 5, 1, 135, 2, 33, 16>>,
                  <<224, 130, 1>> \o Zeros(130), <<32, 3, 0>>, <<32, 3, 0, 0, 9>>,
                  <<32, 255, 255, 255, 255>>, <<32, 255, 255, 255, 255, 1>>, <<32>>,
                  <<48, 2, 0, 0>>}
\* An accepted v5 CONNACK with 128 bytes of properties: remaining length
\* 132, encoded <<132, 1>>.
MQTTLongConnAck == {<<32, 132, 1, 0, 0, 128, 1>> \o Zeros(128)}

MQTT3 == INSTANCE MQTT WITH V5 <- FALSE, UseTLS <- FALSE, NameLens <- {0, 3, 9},
                            PassLens <- {0, 4, 12, 120}, Replies <- MQTTv3Replies, ShortReads <- FALSE
MQTT5 == INSTANCE MQTT WITH V5 <- TRUE, UseTLS <- TRUE, NameLens <- {0}, PassLens <- {0},
                            Replies <- MQTTv5Replies \cup MQTTLongConnAck, ShortReads <- FALSE

(* AMQP: "AMQP", "AMQ" and "HTTP" followed by up to four bytes 0 or 1,     *)
(* split by TCP in every way.                                              *)
AMQPS == INSTANCE AMQP WITH ImplicitTLS <- TRUE, ShortReads <- TRUE,
    Replies <- {p \o t : p \in {<<65, 77, 81, 80>>, <<65, 77, 81>>, <<72, 84, 84, 80>>},
                         t \in SeqOf({0, 1}, 4)}

(* Bolt: every answer of 4 or 5 bytes over 0, 4 and 'H', and silence.      *)
BoltS == INSTANCE Bolt WITH ShortReads <- FALSE,
    Replies <- {s \in SeqOf({0, 4, 72}, 5) : Len(s) >= 4} \cup {<<>>}

(* X11: accepted (status 1); refused with a reason of 5 bytes and of 1    *)
(* byte (status 0, byte 1 the reason's length); "authenticate" (status 2);*)
(* an HTTP server; silence.                                                *)
X11Replies == {<<1, 0, 11, 0, 0, 0, 8, 0>>, <<0, 5, 11, 0, 0, 0, 2, 0, 66, 97, 100, 33, 33, 0, 0, 0>>,
               <<0, 1, 11, 0, 0, 0, 1, 0, 66, 0, 0, 0>>, <<2, 0, 0, 0, 0, 0, 1, 0, 0, 0, 0, 0>>,
               <<72, 84, 84, 80, 47, 49>>, <<>>}
X11S == INSTANCE X11 WITH ShortReads <- FALSE, Replies <- X11Replies

(* TFTP: every datagram of up to 5 bytes over 0, 3 and 5, and none.       *)
TFTPS == INSTANCE TFTP WITH Replies <- SeqOf({0, 3, 5}, 5)

(* Memcached: a version line; one with a space in the version; one with no *)
(* version; one followed by another line; one after a line "END"; one     *)
(* ending in LF alone; ERROR; silence.  TCP may split each.               *)
MemcachedLine(v) == <<"V", "E", "R", "S", "I", "O", "N", "SP">> \o v \o <<"CR", "LF">>
MemcachedReplies == {MemcachedLine(<<"1", ".", "6">>), MemcachedLine(<<"1", "SP", "x">>),
                     MemcachedLine(<<>>), MemcachedLine(<<"1">>) \o <<"E", "N", "D">>,
                     <<"E", "N", "D", "CR", "LF">> \o MemcachedLine(<<"1">>),
                     <<"V", "E", "R", "S", "I", "O", "N", "SP", "1", "LF">>,
                     <<"E", "R", "R", "O", "R", "CR", "LF">>, <<>>}
MemcachedS == INSTANCE Memcached WITH ShortReads <- TRUE, Replies <- MemcachedReplies

(* Terraria: "password required" and "continue connecting"; a length field *)
(* one too large; an unknown packet ID; a length field big-endian; two     *)
(* packets back to back; two bytes; silence.  TCP may split each.         *)
TerrariaS == INSTANCE Terraria WITH ShortReads <- TRUE,
    Replies <- {<<3, 0, 2>>, <<4, 0, 3, 7>>, <<5, 0, 2>>, <<3, 0, 9>>, <<0, 3, 2>>,
                <<3, 0, 2, 4, 0, 3, 7>>, <<2, 0>>, <<>>}

(* RTSP: "RTSP/1.0 200", "RTSP/2.0", "HTTP/1.0", silence.  TCP may split. *)
RTSPS == INSTANCE RTSP WITH ShortReads <- TRUE,
    Replies <- {<<"R", "T", "S", "P", "/", "1", ".", "0", "SP", "2">>,
                <<"R", "T", "S", "P", "/", "2", ".", "0">>,
                <<"H", "T", "T", "P", "/", "1", ".", "0">>, <<>>}

(* TACACS+: a reply header, one byte, silence.  TCP may split.             *)
TACACSS == INSTANCE TACACS WITH ShortReads <- TRUE,
    Replies <- {<<192, 1, 2, 0>>, <<72>>, <<>>}

(* RADIUS: an Access-Accept, an Access-Reject of another identifier, an   *)
(* Access-Challenge with an attribute, the request echoed back, 19 bytes  *)
(* of an answer, and no datagram.                                          *)
RADIUSHeader(code, id, len) == <<code, id, len \div 256, len % 256>> \o Zeros(16)
RADIUSS == INSTANCE RADIUS WITH Ids <- {0, 255},
    Replies <- {RADIUSHeader(2, 0, 20), RADIUSHeader(3, 7, 20),
                RADIUSHeader(11, 255, 24) \o <<18, 4, 72, 105>>, RADIUSHeader(1, 0, 20),
                SubSeq(RADIUSHeader(2, 0, 20), 1, 19), <<>>}

(* RethinkDB: a success object; an object without success; text that     *)
(* contains success; null; an object with no NUL before EOF; an object    *)
(* followed by more bytes; silence.  The scanner's response is kept in    *)
(* banner.                                                                 *)
RethinkDBS == INSTANCE RethinkDB WITH response <- banner,
    Replies <- {<<"{", "S", ":", "t", ",", "s", ":", "s", "}", "NUL">>,
                <<"{", "s", ":", "s", "}", "NUL">>, <<"X", "NUL">>, <<"null", "NUL">>,
                <<"{", "S", ":", "t", "}">>, <<"{", "}", "NUL", "S">>,
                <<"{", "S", ":", "t", "}", "NUL", "x">>, <<>>}

(* XMPP, over TLS: a server that accepts the stream and keeps it open; one *)
(* that refuses it and closes the stream, alone or with more bytes after;  *)
(* a close without a stream; other bytes; silence.  TCP may split.  The   *)
(* scanner's buffer is kept in banner.                                     *)
XMPPS == INSTANCE XMPP WITH buffer <- banner, ImplicitTLS <- TRUE, ShortReads <- TRUE,
    Replies <- {<<"OPEN", "FEAT">>, <<"OPEN", "ERR", "CLOSE">>, <<"OPEN", "ERR", "CLOSE", "x">>,
                <<"x", "CLOSE">>, <<"x">>, <<>>}

(* SIP: a status line with an Allow header and another header; two Allow  *)
(* headers in other cases; an Allow header after the empty line; an HTTP  *)
(* answer; a code of two digits; a byte that is not UTF-8; an empty        *)
(* datagram.  Over UDP, and over TLS where TCP may split each.             *)
SIPStatus(code) == <<"SIP/2.0", "SP", code, "SP", "OK", "CRLF">>
SIPHeader(key, value) == <<key, ":", "SP">> \o value \o <<"CRLF">>
SIPReplies ==
    {SIPStatus("200") \o SIPHeader("Allow", <<"INVITE", ",", "SP", "BYE">>)
                     \o SIPHeader("Via", <<"20">>) \o <<"CRLF">>,
     SIPStatus("404") \o SIPHeader("ALLOW", <<"INVITE">>) \o SIPHeader("Allow", <<"BYE", "SP">>),
     SIPStatus("200") \o <<"CRLF">> \o SIPHeader("Allow", <<"BYE">>),
     <<"HTTP/1.1", "SP", "404", "CRLF", "Via", "SP", ":", "20", "CRLF">>,
     SIPStatus("20") \o SIPHeader("Via", <<"BAD">>), <<>>}
SIPUDP == INSTANCE SIP WITH UseTCP <- FALSE, ImplicitTLS <- FALSE, Replies <- SIPReplies
SIPTLS == INSTANCE SIP WITH UseTCP <- TRUE, ImplicitTLS <- TRUE, Replies <- SIPReplies

(* LDAP, over TLS: BindResponses of code 0, 49, 81 and -1; a message of   *)
(* one child; an operation without children; a code that is a string;    *)
(* silence; a packet cut short.                                            *)
LDAPInt(n) == [isInt |-> TRUE, value |-> n, kids |-> <<>>]
LDAPString == [isInt |-> FALSE, value |-> 0, kids |-> <<>>]
LDAPNode(kids) == [isInt |-> FALSE, value |-> 0, kids |-> kids]
LDAPMessage(op) == LDAPNode(<<LDAPInt(1), op>>)
LDAPS == INSTANCE LDAP WITH ImplicitTLS <- TRUE,
    Replies <- {[got |-> "packet", pkt |-> p] :
                   p \in {LDAPMessage(LDAPNode(<<LDAPInt(0), LDAPString>>)),
                         LDAPMessage(LDAPNode(<<LDAPInt(49), LDAPString>>)),
                         LDAPMessage(LDAPNode(<<LDAPInt(81), LDAPString>>)),
                         LDAPMessage(LDAPNode(<<LDAPInt(-1)>>)),
                         LDAPMessage(LDAPNode(<<LDAPString, LDAPString>>)),
                         LDAPNode(<<LDAPInt(1)>>), LDAPMessage(LDAPString)}}
               \cup {[got |-> g, pkt |-> LDAPNode(<<>>)] : g \in {"silent", "truncated"}}

(* LPD, without and with get_info: acknowledgements 0 and 1, a refusal 2 *)
(* with a message, silence.  TCP may split each.                          *)
LPDReplies == {<<0>>, <<1, 7>>, <<2, 7, 7>>, <<>>}
LPDS == INSTANCE LPD WITH GetInfo <- FALSE, Replies <- LPDReplies
LPDInfo == INSTANCE LPD WITH GetInfo <- TRUE, Replies <- LPDReplies

(* RFB: version lines 3.8 and 3.3; one followed by more bytes; one with a *)
(* two-digit number; other bytes; silence.  TCP may split each.  The      *)
(* scanner's buffer is kept in banner.                                     *)
RFBLine(minor) == <<"RFB", "SP", "003", ".", minor, "LF">>
RFBS == INSTANCE RFB WITH buffer <- banner, ShortReads <- TRUE,
    Replies <- {RFBLine("008"), RFBLine("003"), RFBLine("008") \o <<"x">>, RFBLine("38"),
                <<"x", "LF">>, <<>>}

(* Cassandra: the start of a v4 response frame; an HTTP answer; silence.   *)
(* TCP may split each.                                                     *)
CassandraS == INSTANCE Cassandra WITH ShortReads <- TRUE,
    Replies <- {<<132, 0, 0, 0, 6>>, <<72, 84, 84, 80>>, <<>>}

(* IRC, over implicit TLS and with --authtls: a NOTICE banner then 001;   *)
(* other words before and after; a NOTICE then ERROR; no banner; nothing   *)
(* after the registration.  TCP may split each.                            *)
IRCReplies == {[pre |-> <<"NOTICE", "x">>, post |-> <<"001">>],
               [pre |-> <<"x">>, post |-> <<"x">>],
               [pre |-> <<"NOTICE">>, post |-> <<"ERROR", "x">>],
               [pre |-> <<>>, post |-> <<"001">>],
               [pre |-> <<"x">>, post |-> <<>>]}
IRCS == INSTANCE IRC WITH ImplicitTLS <- TRUE, IRCAuthTLS <- FALSE, Replies <- IRCReplies
IRCAuth == INSTANCE IRC WITH ImplicitTLS <- FALSE, IRCAuthTLS <- TRUE, Replies <- IRCReplies

(* IPMI: a pong; a datagram with a byte below 16 first; no datagram.       *)
IPMIS == INSTANCE IPMI WITH Replies <- {<<6, 0, 255, 6, 0, 0, 17, 190>>, <<0, 255>>, <<>>}

(* DNS over QUIC: a framed message; a prefix stating less, and more, than *)
(* follows; a framed body that is not a DNS message; a prefix of one byte *)
(* and of none; a prefix of zero.                                          *)
DoQS == INSTANCE DoQ WITH
    Replies <- {[prefix |-> 2, declared |-> 3, body |-> 3, valid |-> TRUE],
                [prefix |-> 2, declared |-> 2, body |-> 3, valid |-> TRUE],
                [prefix |-> 2, declared |-> 4, body |-> 3, valid |-> TRUE],
                [prefix |-> 2, declared |-> 3, body |-> 3, valid |-> FALSE],
                [prefix |-> 1, declared |-> 0, body |-> 0, valid |-> FALSE],
                [prefix |-> 0, declared |-> 0, body |-> 0, valid |-> FALSE],
                [prefix |-> 2, declared |-> 0, body |-> 0, valid |-> FALSE]}

-----------------------------------------------------------------------------
(* Every findCommon call on lists of up to three of three names, and every *)
(* findAgreedAlgorithms call of MC_Negotiation's families.                 *)
N == INSTANCE MC_Negotiation WITH Names <- {"a", "b", "c"}, MaxListLen <- 3

\* The negotiation's inputs in a scan: one findCommon call on empty lists.
NegotiationIdle == N!InitCommon /\ client = <<>> /\ server = <<>>

\* The pass run leaves out the inputs of the findings: a 120-byte password,
\* a v5 CONNACK of 132 bytes, and TFTP datagrams of 2 or 3 bytes.
InitMQTT3 == which = "mqtt3" /\ MQTT3!Init /\ pass # 120 /\ banner = <<>> /\ byteOrder = 0
InitMQTT5 == which = "mqtt5" /\ MQTT5!Init /\ reply \notin MQTTLongConnAck
             /\ banner = <<>> /\ byteOrder = 0
InitAMQP == which = "amqp" /\ AMQPS!Init /\ MQTTIdle /\ results = 0 /\ byteOrder = 0
InitBolt == which = "bolt" /\ BoltS!Init /\ MQTTIdle /\ banner = <<>> /\ byteOrder = 0
InitX11 == which = "x11" /\ X11S!Init /\ MQTTIdle /\ banner = <<>>
InitTFTP == which = "tftp" /\ TFTPS!Init /\ Len(reply) \notin {2, 3} /\ MQTTIdle
            /\ banner = <<>> /\ byteOrder = 0 /\ srv = <<>>
InitMemcached == which = "memcached" /\ MemcachedS!Init /\ MQTTIdle
                 /\ banner = <<>> /\ byteOrder = 0
InitTerraria == which = "terraria" /\ TerrariaS!Init /\ MQTTIdle
                /\ banner = <<>> /\ byteOrder = 0
InitRTSP == which = "rtsp" /\ RTSPS!Init /\ MQTTIdle /\ banner = <<>> /\ byteOrder = 0
InitTACACS == which = "tacacs" /\ TACACSS!Init /\ MQTTIdle /\ banner = <<>> /\ byteOrder = 0
InitRADIUS == which = "radius" /\ RADIUSS!Init /\ user = 0 /\ pass = 0 /\ first = 0
              /\ rlBytes = <<>> /\ banner = <<>> /\ byteOrder = 0
InitRethinkDB == which = "rethinkdb" /\ RethinkDBS!Init /\ MQTTIdle /\ byteOrder = 0
InitXMPP == which = "xmpp" /\ XMPPS!Init /\ MQTTIdle /\ byteOrder = 0
InitSIPUDP == which = "sip-udp" /\ SIPUDP!Init /\ MQTTIdle /\ banner = <<>> /\ byteOrder = 0
InitLDAP == which = "ldap" /\ LDAPS!Init /\ srv = <<>> /\ MQTTIdle /\ banner = <<>> /\ byteOrder = 0
InitLPD == which = "lpd" /\ LPDS!Init /\ MQTTIdle /\ banner = <<>> /\ byteOrder = 0
InitLPDInfo == which = "lpd-info" /\ LPDInfo!Init /\ MQTTIdle /\ banner = <<>> /\ byteOrder = 0
InitRFB == which = "rfb" /\ RFBS!Init /\ MQTTIdle /\ byteOrder = 0
InitCassandra == which = "cassandra" /\ CassandraS!Init /\ user = 0 /\ pass = 0 /\ first = 0
                 /\ rlBytes = <<>> /\ banner = <<>> /\ byteOrder = 0
InitIRC == which = "irc" /\ IRCS!Init /\ MQTTIdle /\ banner = <<>> /\ byteOrder = 0
InitIRCAuth == which = "irc-authtls" /\ IRCAuth!Init /\ MQTTIdle /\ banner = <<>> /\ byteOrder = 0
InitIPMI == which = "ipmi" /\ IPMIS!Init /\ srv = <<>> /\ MQTTIdle /\ banner = <<>> /\ byteOrder = 0
InitDoQ == which = "doq" /\ DoQS!Init /\ srv = <<>> /\ MQTTIdle /\ banner = <<>> /\ byteOrder = 0
InitSIPTLS == which = "sip-tls" /\ SIPTLS!Init /\ MQTTIdle /\ banner = <<>> /\ byteOrder = 0

\* The inputs of the findings.
InitMQTT5Long == which = "mqtt5" /\ MQTT5!Init /\ reply \in MQTTLongConnAck
                 /\ banner = <<>> /\ byteOrder = 0 /\ NegotiationIdle
InitMQTT3LongPass == which = "mqtt3" /\ MQTT3!Init /\ pass = 120 /\ banner = <<>> /\ byteOrder = 0
                     /\ NegotiationIdle
InitTFTPShort == which = "tftp" /\ TFTPS!Init /\ Len(reply) \in {2, 3} /\ MQTTIdle
                 /\ banner = <<>> /\ byteOrder = 0 /\ srv = <<>> /\ NegotiationIdle
InitX11Scan == InitX11 /\ NegotiationIdle

\* The scan variables in a negotiation check: a scan not yet begun.
InitNegotiation == which = "negotiation" /\ N!Init
    /\ pc = "open" /\ reply = <<>> /\ srv = <<>> /\ status = "success" /\ err = "none"
    /\ results = [kind |-> "none"] /\ resNil = TRUE /\ MQTTIdle /\ banner = <<>> /\ byteOrder = 0

ScanInit == \/ InitMQTT3 \/ InitMQTT5 \/ InitAMQP \/ InitBolt \/ InitX11 \/ InitTFTP
        \/ InitMemcached \/ InitTerraria \/ InitRTSP \/ InitTACACS
        \/ InitRADIUS \/ InitRethinkDB \/ InitXMPP \/ InitSIPUDP \/ InitSIPTLS
        \/ InitLDAP \/ InitLPD \/ InitLPDInfo \/ InitRFB
        \/ InitCassandra \/ InitIRC \/ InitIRCAuth \/ InitIPMI \/ InitDoQ

Init == (ScanInit /\ NegotiationIdle) \/ InitNegotiation

ScanNext ==
    \/ which = "mqtt3" /\ MQTT3!Next /\ UNCHANGED <<which, banner, byteOrder>>
    \/ which = "mqtt5" /\ MQTT5!Next /\ UNCHANGED <<which, banner, byteOrder>>
    \/ which = "amqp" /\ AMQPS!Next /\ UNCHANGED <<which, results, byteOrder, MQTTVars>>
    \/ which = "bolt" /\ BoltS!Next /\ UNCHANGED <<which, banner, byteOrder, MQTTVars>>
    \/ which = "x11" /\ X11S!Next /\ UNCHANGED <<which, banner, MQTTVars>>
    \/ which = "tftp" /\ TFTPS!Next /\ UNCHANGED <<which, srv, banner, byteOrder, MQTTVars>>
    \/ which = "memcached" /\ MemcachedS!Next /\ UNCHANGED <<which, banner, byteOrder, MQTTVars>>
    \/ which = "terraria" /\ TerrariaS!Next /\ UNCHANGED <<which, banner, byteOrder, MQTTVars>>
    \/ which = "rtsp" /\ RTSPS!Next /\ UNCHANGED <<which, banner, byteOrder, MQTTVars>>
    \/ which = "tacacs" /\ TACACSS!Next /\ UNCHANGED <<which, banner, byteOrder, MQTTVars>>
    \/ which = "radius" /\ RADIUSS!Next
       /\ UNCHANGED <<which, banner, byteOrder, user, pass, first, rlBytes>>
    \/ which = "rethinkdb" /\ RethinkDBS!Next /\ UNCHANGED <<which, byteOrder, MQTTVars>>
    \/ which = "xmpp" /\ XMPPS!Next /\ UNCHANGED <<which, byteOrder, MQTTVars>>
    \/ which = "sip-udp" /\ SIPUDP!Next /\ UNCHANGED <<which, banner, byteOrder, MQTTVars>>
    \/ which = "sip-tls" /\ SIPTLS!Next /\ UNCHANGED <<which, banner, byteOrder, MQTTVars>>
    \/ which = "ldap" /\ LDAPS!Next /\ UNCHANGED <<which, srv, banner, byteOrder, MQTTVars>>
    \/ which = "lpd" /\ LPDS!Next /\ UNCHANGED <<which, banner, byteOrder, MQTTVars>>
    \/ which = "lpd-info" /\ LPDInfo!Next /\ UNCHANGED <<which, banner, byteOrder, MQTTVars>>
    \/ which = "rfb" /\ RFBS!Next /\ UNCHANGED <<which, byteOrder, MQTTVars>>
    \/ which = "cassandra" /\ CassandraS!Next
       /\ UNCHANGED <<which, banner, byteOrder, user, pass, first, rlBytes>>
    \/ which = "irc" /\ IRCS!Next /\ UNCHANGED <<which, banner, byteOrder, MQTTVars>>
    \/ which = "irc-authtls" /\ IRCAuth!Next /\ UNCHANGED <<which, banner, byteOrder, MQTTVars>>
    \/ which = "ipmi" /\ IPMIS!Next /\ UNCHANGED <<which, srv, banner, byteOrder, MQTTVars>>
    \/ which = "doq" /\ DoQS!Next /\ UNCHANGED <<which, srv, banner, byteOrder, MQTTVars>>

\* A negotiation check takes no step: its invariants are about its inputs.
Next == ScanNext /\ UNCHANGED negotiationVars

-----------------------------------------------------------------------------
(* The properties of the modules, each for the scans of its module.        *)

\* findCommon, findAgreedAlgorithms and the guess check meet their
\* reference definitions (MC_Negotiation).
FindCommonMeetsReference == N!FindCommonMeetsReference
AgreedAlgorithmsMeetReference == N!AgreedAlgorithmsMeetReference
GuessKeptOnlyIfAgreed == N!GuessKeptOnlyIfAgreed

\* A successful MQTT scan records the session-present flag and connect
\* return code of the server's CONNACK (v3.1.1 and v5).
MQTTRecordsConnAck ==
    /\ which = "mqtt3" => MQTT3!RecordsConnAck
    /\ which = "mqtt5" => MQTT5!RecordsConnAck

\* The CONNECT packet's remaining length, decoded as the server decodes it,
\* is the length of the rest of the packet.
MQTTConnectLengthEncoded == which = "mqtt3" => MQTT3!ConnectLengthEncoded

\* The v5 reader decodes the remaining length the server encoded.
MQTTRemainingLengthDecoded == which = "mqtt5" => MQTT5!RemainingLengthDecoded

\* An X11 scan records a refusal exactly when the server refused.
X11RefusalRecordedIffRefused == which = "x11" => X11S!RefusalRecordedIffRefused

\* A TFTP scan returns a status whatever datagram arrives.
TFTPScanReturns == which = "tftp" => TFTPS!ScanReturns

\* The RADIUS Access-Request's length field and attributes are consistent.
RADIUSRequestWellFormed == which = "radius" => RADIUSS!RequestWellFormed

\* Scan's comment: an XMPP scan that received the server's stream header
\* reports success.
XMPPStreamHeaderIsSuccess == which = "xmpp" => XMPPS!StreamHeaderIsSuccess

\* A successful RFB scan records the server's version line, and a server
\* that sends only a version line is scanned successfully.
RFBRecordsRFBBanner == which = "rfb" => RFBS!RecordsRFBBanner

\* A successful Cassandra scan sent a well-formed STARTUP frame and
\* recorded the start of the answer.
CassandraStartupThenBanner == which = "cassandra" => CassandraS!StartupThenBanner
=============================================================================
