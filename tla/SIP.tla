---------------------------------- MODULE SIP ----------------------------------
(***************************************************************************)
(* The SIP scanner (src/modules/sip/scanner.go): Scan dials UDP, or TCP    *)
(* with implicit TLS if configured, writes an OPTIONS request and makes a  *)
(* single Read of at most 4096 bytes; the response, decoded as UTF-8, is   *)
(* recorded even when the read fails, and parseResponse extracts the      *)
(* status line, its code, the headers and the methods of an Allow header.  *)
(*                                                                         *)
(* The server's text is abstracted to words: "SIP/2.0", "HTTP/1.1", "SP", *)
(* "CRLF", ":", ",", three-digit codes "200" and "404", a two-digit "20",  *)
(* header names "Allow", "ALLOW" and "Via", methods "INVITE" and "BYE",    *)
(* and "BAD", a byte that is not valid UTF-8.                              *)
(***************************************************************************)
EXTENDS Probe, TLC

CONSTANTS UseTCP,       \* s.config.UseTCP
          ImplicitTLS,  \* s.config.ImplicitTLS
          Replies       \* word sequences the server may answer with

VARIABLES pc, reply, srv, status, err, results, resNil
vars == <<pc, reply, srv, status, err, results, resNil>>

Codes == {"200", "404"}           \* what \d{3} matches
NoCode == "none"
\* utf8.RuneError, the whole of a response that is not valid UTF-8.
RuneError == <<"RUNE-ERROR">>

\* &ScanResults{}: nothing recorded, Headers and Methods nil.
EmptyResults == [raw |-> <<>>, line |-> <<>>, code |-> NoCode,
                 headers |-> <<>>, methods |-> <<>>]

Finish(e, s, isNil) ==
    /\ pc' = "done" /\ err' = e /\ status' = s /\ resNil' = isNil

\* strings.Split(s, sep) for a one-word separator.
RECURSIVE Split(_, _)
Split(s, sep) ==
    IF \E i \in DOMAIN s : s[i] = sep
    THEN LET i == CHOOSE j \in DOMAIN s : s[j] = sep /\ \A k \in 1..(j - 1) : s[k] # sep
         IN <<SubSeq(s, 1, i - 1)>> \o Split(SubSeq(s, i + 1, Len(s)), sep)
    ELSE <<s>>

\* strings.TrimSpace.
RECURSIVE TrimSpace(_)
TrimSpace(s) ==
    CASE s # <<>> /\ Head(s) = "SP" -> TrimSpace(Tail(s))
      [] s # <<>> /\ Last(s) = "SP" -> TrimSpace(Front(s))
      [] OTHER -> s

\* decodeUTF8.
DecodeUTF8(input) == IF \E i \in DOMAIN input : input[i] = "BAD" THEN RuneError ELSE input

\* statusRegex.FindStringSubmatch(lines[0]): the code of the leftmost
\* "SIP/2.0 ddd".
StatusCode(line) ==
    LET at == {i \in 1..(Len(line) - 2) :
                 line[i] = "SIP/2.0" /\ line[i + 1] = "SP" /\ line[i + 2] \in Codes}
    IN IF at = {} THEN NoCode ELSE line[Min(at) + 2]

\* strings.ToLower(key) == "allow".
IsAllow(key) == key \in {<<"Allow">>, <<"ALLOW">>}

\* The loop body over one header line: SplitN(line, ":", 2), TrimSpace of
\* both parts, and an Allow header's methods.
ParseHeader(r, line) ==
    IF \E i \in DOMAIN line : line[i] = ":"
    THEN LET parts == Split(line, ":")
             key == TrimSpace(parts[1])
             value == TrimSpace(SubSeq(line, Len(parts[1]) + 2, Len(line)))
         IN [r EXCEPT !.headers = (key :> value) @@ @,
                      !.methods = IF IsAllow(key) THEN [m \in DOMAIN Split(value, ",") |->
                                                            TrimSpace(Split(value, ",")[m])]
                                                  ELSE @]
    ELSE r

\* for _, line := range lines[1:] { if line == "" { break } ... }
RECURSIVE ParseHeaders(_, _)
ParseHeaders(r, lines) ==
    IF lines = <<>> \/ Head(lines) = <<>> THEN r
    ELSE ParseHeaders(ParseHeader(r, Head(lines)), Tail(lines))

\* parseResponse, on the results that hold the raw response.
ParseResponse(r) ==
    LET lines == Split(r.raw, "CRLF")
    IN ParseHeaders([r EXCEPT !.line = lines[1], !.code = StatusCode(lines[1]),
                              !.headers = <<>>],
                    Tail(lines))

\* The dial (dialTCP or dialUDP) and, over TCP, GetTLSConnection and
\* Handshake; a TLS failure returns nil results.
Open ==
    /\ pc = "open"
    /\ \/ \E e \in DialErrors : Finish(e, TryGetScanStatus(e), FALSE)
       \/ /\ UseTCP /\ ImplicitTLS
          /\ \E e \in {"io-timeout", "eof", "app"} : Finish(e, TryGetScanStatus(e), TRUE)
       \/ pc' = "write" /\ UNCHANGED <<status, err, resNil>>
    /\ UNCHANGED <<reply, srv, results>>

\* conn.Write of craftOptionsRequest's request.
WriteOptions ==
    /\ pc = "write"
    /\ \/ \E e \in {"io-timeout", "app"} : Finish(e, TryGetScanStatus(e), FALSE)
       \/ pc' = "read" /\ UNCHANGED <<status, err, resNil>>
    /\ UNCHANGED <<reply, srv, results>>

\* The single conn.Read and the rest of Scan: the n bytes read (none on an
\* error) are decoded and recorded; an error returns them, otherwise the
\* response is parsed and the scan succeeds.  Over UDP the Read returns
\* the server's datagram or fails; over TCP any prefix of the stream.
ReadResponse ==
    /\ pc = "read"
    /\ \/ \E e \in (IF UseTCP THEN ReadErrors(srv) ELSE UDPReadErrors) :
             /\ results' = [results EXCEPT !.raw = DecodeUTF8(<<>>)]
             /\ Finish(e, TryGetScanStatus(e), FALSE)
             /\ UNCHANGED srv
       \/ \E chunk \in (IF UseTCP THEN ReadChunks(srv, 4096, TRUE) ELSE {reply}) :
             /\ srv' = SubSeq(srv, Len(chunk) + 1, Len(srv))
             /\ results' = ParseResponse([results EXCEPT !.raw = DecodeUTF8(chunk)])
             /\ Finish(NoErr, "success", FALSE)
    /\ UNCHANGED reply

Init ==
    /\ pc = "open" /\ reply \in Replies /\ srv = reply
    /\ status = "success" /\ err = NoErr /\ results = EmptyResults /\ resNil = FALSE

Next == Open \/ WriteOptions \/ ReadResponse

Spec == Init /\ [][Next]_vars
====
