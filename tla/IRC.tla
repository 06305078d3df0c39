---------------------------------- MODULE IRC ----------------------------------
(***************************************************************************)
(* The IRC scanner (src/modules/cassandra/scanner.go, lines 493-725): Scan *)
(* opens a connection, with implicit TLS if configured; GetIRCBanner makes *)
(* one Read for the banner; with --authtls SetupTLS starts a TLS handshake *)
(* on the connection; RegisterClient writes NICK and USER; a second single *)
(* Read is the response, judged by isValidIRCResponse.                     *)
(*                                                                         *)
(* The server's text is abstracted to words: "NOTICE", "001", "ERROR" and  *)
(* "x", anything else.  A server sends its `pre` words on connection and   *)
(* its `post` words once it has received the registration.                 *)
(***************************************************************************)
EXTENDS Probe

CONSTANTS ImplicitTLS,  \* s.config.ImplicitTLS
          IRCAuthTLS,   \* s.config.IRCAuthTLS
          Replies       \* records [pre, post] of word sequences

VARIABLES pc, reply, srv, status, err, results, resNil
vars == <<pc, reply, srv, status, err, results, resNil>>

\* ScanResults: Banner, Response, and Error, "none" when empty.
NoResults == [banner |-> <<>>, response |-> <<>>, error |-> NoErr]
TLSErrors == {"io-timeout", "eof", "app"}

Finish(e, s, isNil) ==
    /\ pc' = "done" /\ err' = e /\ status' = s /\ resNil' = isNil

\* t.Open, and with implicit TLS GetTLSConnection and Handshake, whose
\* failures return nil results.
Open ==
    /\ pc = "open"
    /\ \/ \E e \in DialErrors : Finish(e, TryGetScanStatus(e), TRUE)
       \/ /\ ImplicitTLS
          /\ \E e \in TLSErrors : Finish(e, TryGetScanStatus(e), TRUE)
       \/ pc' = "banner" /\ UNCHANGED <<status, err, resNil>>
    /\ UNCHANGED <<reply, srv, results>>

\* GetIRCBanner: one readResponse; its error returns the results.
GetIRCBanner ==
    /\ pc = "banner"
    /\ \/ \E e \in ReadErrors(srv) : Finish(e, TryGetScanStatus(e), FALSE)
                                     /\ UNCHANGED <<srv, results>>
       \/ \E chunk \in ReadChunks(srv, 10000, TRUE) :
             /\ srv' = SubSeq(srv, Len(chunk) + 1, Len(srv))
             /\ results' = [results EXCEPT !.banner = chunk]
             /\ pc' = IF IRCAuthTLS THEN "tls" ELSE "register"
             /\ UNCHANGED <<status, err, resNil>>
    /\ UNCHANGED reply

\* SetupTLS, with --authtls: the handshake starts at once on the plaintext
\* session; a failure, wrapped with %w, returns the results.
SetupTLS ==
    /\ pc = "tls"
    /\ \/ \E e \in TLSErrors : Finish(e, WrappedStatus(e), FALSE)
       \/ pc' = "register" /\ UNCHANGED <<status, err, resNil>>
    /\ UNCHANGED <<reply, srv, results>>

\* RegisterClient: NICK, then USER; the server answers the two with its
\* `post` words.  A write error returns the results.
RegisterClient ==
    /\ pc = "register"
    /\ \/ \E e \in {"io-timeout", "app"} : Finish(e, TryGetScanStatus(e), FALSE)
                                           /\ UNCHANGED srv
       \/ /\ pc' = "response" /\ srv' = srv \o reply.post
          /\ UNCHANGED <<status, err, resNil>>
    /\ UNCHANGED <<reply, results>>

\* isValidIRCResponse: the response contains 001, NOTICE or ERROR.
IsValidIRCResponse(response) ==
    \E i \in DOMAIN response : response[i] \in {"001", "NOTICE", "ERROR"}

\* The second readResponse and the rest of Scan: an error is recorded and
\* the scan still succeeds; a response is recorded and judged.
ReadRegistrationResponse ==
    /\ pc = "response"
    /\ \/ \E e \in ReadErrors(srv) :
             /\ results' = [results EXCEPT !.error = e]
             /\ Finish(NoErr, "success", FALSE)
             /\ UNCHANGED srv
       \/ \E chunk \in ReadChunks(srv, 10000, TRUE) :
             /\ srv' = SubSeq(srv, Len(chunk) + 1, Len(srv))
             /\ results' = [results EXCEPT !.response = chunk]
             /\ IF IsValidIRCResponse(chunk)
                THEN Finish(NoErr, "success", FALSE)
                ELSE Finish("app", "protocol-error", FALSE)
    /\ UNCHANGED reply

Init ==
    /\ pc = "open" /\ reply \in Replies /\ srv = reply.pre
    /\ status = "success" /\ err = NoErr /\ results = NoResults /\ resNil = TRUE

Next == Open \/ GetIRCBanner \/ SetupTLS \/ RegisterClient \/ ReadRegistrationResponse

Spec == Init /\ [][Next]_vars
====
