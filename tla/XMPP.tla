--------------------------------- MODULE XMPP ---------------------------------
(***************************************************************************)
(* The XMPP scanner (src/unnamed/part_002): Scan opens a connection, sets  *)
(* up implicit TLS if configured, and GetXMPPBanner writes a stream header *)
(* and reads with zgrab2.ReadUntilRegex until what has been read matches   *)
(* </stream:stream>; the scan succeeds when that contains <stream:stream.  *)
(*                                                                         *)
(* The server's bytes are abstracted to XML pieces: "OPEN" its stream      *)
(* header <stream:stream ...>, "FEAT" <stream:features>, "ERR" a           *)
(* <stream:error>, "CLOSE" </stream:stream>, and "x" anything else.  Only  *)
(* "OPEN" contains <stream:stream, only "CLOSE" matches the expression.    *)
(***************************************************************************)
EXTENDS Probe

CONSTANTS ImplicitTLS, \* s.config.ImplicitTLS
          Replies,     \* sequences of pieces the server may send
          ShortReads   \* may a Read return less than has been sent?

VARIABLES pc, reply, srv, buffer, status, err, results, resNil
vars == <<pc, reply, srv, buffer, status, err, results, resNil>>

Finish(e, s, isNil) ==
    /\ pc' = "done" /\ err' = e /\ status' = s /\ resNil' = isNil

\* t.Open, and the return in Scan when it fails.
Open ==
    /\ pc = "open"
    /\ \/ \E e \in DialErrors : Finish(e, TryGetScanStatus(e), TRUE)
       \/ /\ pc' = (IF ImplicitTLS THEN "tls" ELSE "header")
          /\ UNCHANGED <<status, err, resNil>>
    /\ UNCHANGED <<reply, srv, buffer, results>>

\* GetTLSConnection and Handshake: a failure returns nil results.
SetupTLS ==
    /\ pc = "tls"
    /\ \/ \E e \in {"io-timeout", "eof", "app"} : Finish(e, TryGetScanStatus(e), TRUE)
       \/ pc' = "header" /\ UNCHANGED <<status, err, resNil>>
    /\ UNCHANGED <<reply, srv, buffer, results>>

\* sendStreamHeader; its error, wrapped with %w, returns the results.
SendStreamHeader ==
    /\ pc = "header"
    /\ \/ \E e \in {"io-timeout", "app"} : Finish(e, WrappedStatus(e), FALSE)
       \/ pc' = "read" /\ UNCHANGED <<status, err, resNil>>
    /\ UNCHANGED <<reply, srv, buffer, results>>

\* xmppEndRegex.Match and strings.Contains(banner, "<stream:stream").
EndMatch(s) == \E i \in DOMAIN s : s[i] = "CLOSE"
HasStream(s) == \E i \in DOMAIN s : s[i] = "OPEN"

\* One Read of ReadUntilRegex into conn.buffer.  An error ends
\* readResponse, which drops what was read, and GetXMPPBanner wraps it; a
\* match ends it, and the banner is recorded and tested.
ReadUntilRegex ==
    /\ pc = "read"
    /\ \/ \E e \in ReadErrors(srv) : Finish(e, WrappedStatus(e), FALSE)
                                     /\ UNCHANGED <<srv, buffer, results>>
       \/ \E chunk \in ReadChunks(srv, 10000, ShortReads) :
             /\ srv' = SubSeq(srv, Len(chunk) + 1, Len(srv))
             /\ buffer' = buffer \o chunk
             /\ IF EndMatch(buffer')
                THEN /\ results' = buffer'
                     /\ IF HasStream(buffer')
                        THEN Finish(NoErr, "success", FALSE)
                        ELSE Finish(NoErr, "unknown-error", FALSE)
                ELSE UNCHANGED <<pc, status, err, resNil, results>>
    /\ UNCHANGED reply

Init ==
    /\ pc = "open" /\ reply \in Replies /\ srv = reply /\ buffer = <<>>
    /\ status = "success" /\ err = NoErr /\ results = <<>> /\ resNil = TRUE

Next == Open \/ SetupTLS \/ SendStreamHeader \/ ReadUntilRegex

Spec == Init /\ [][Next]_vars

-----------------------------------------------------------------------------

\* Scan's comment (line 181): "If there's any valid information (even if
\* an error), return SCAN_SUCCESS": a scan that has received the server's
\* stream header ends in success.
StreamHeaderIsSuccess ==
    (pc = "done" /\ HasStream(buffer)) => status = "success"
=============================================================================
