------------------------------- MODULE RethinkDB -------------------------------
(***************************************************************************)
(* The RethinkDB scanner (src/modules/rethinkdb/scanner.go): Scan opens a  *)
(* connection, sendHandshake writes the V1_0 magic number, and             *)
(* readResponse reads one byte per Read until a NUL; the response must     *)
(* unmarshal as JSON and contain "success".                                *)
(*                                                                         *)
(* The server's bytes are abstracted to JSON tokens: "{", "}", ":", ",",  *)
(* "s" a string, "S" a string containing success, "t" true, "null", and   *)
(* "x" / "X" text that is not JSON (the latter containing success); "NUL" *)
(* is the zero byte.                                                       *)
(***************************************************************************)
EXTENDS Probe

CONSTANTS Replies      \* token sequences the server may send

VARIABLES pc, reply, srv, response, status, err, results, resNil
vars == <<pc, reply, srv, response, status, err, results, resNil>>

Finish(e, s, isNil) ==
    /\ pc' = "done" /\ err' = e /\ status' = s /\ resNil' = isNil

\* t.Open, and the return in Scan when it fails.
Open ==
    /\ pc = "open"
    /\ \/ \E e \in DialErrors : Finish(e, TryGetScanStatus(e), TRUE)
       \/ pc' = "handshake" /\ UNCHANGED <<status, err, resNil>>
    /\ UNCHANGED <<reply, srv, response, results>>

\* sendHandshake: one Write of c3 bd c2 34; its error returns nil results.
SendHandshake ==
    /\ pc = "handshake"
    /\ \/ \E e \in {"io-timeout", "app"} : Finish(e, TryGetScanStatus(e), TRUE)
       \/ pc' = "read" /\ UNCHANGED <<status, err, resNil>>
    /\ UNCHANGED <<reply, srv, response, results>>

\* json.Unmarshal into a map: an object of string keys and values that are
\* strings or true; "null" also unmarshals, leaving the map nil.
JSONStrings == {"s", "S"}
RECURSIVE IsMembers(_)
IsMembers(s) ==
    /\ Len(s) >= 3 /\ s[1] \in JSONStrings /\ s[2] = ":" /\ s[3] \in JSONStrings \cup {"t"}
    /\ \/ Len(s) = 3
       \/ Len(s) > 4 /\ s[4] = "," /\ IsMembers(SubSeq(s, 5, Len(s)))
Unmarshals(s) ==
    \/ s = <<"null">>
    \/ /\ Len(s) >= 2 /\ s[1] = "{" /\ Last(s) = "}"
       /\ Len(s) = 2 \/ IsMembers(SubSeq(s, 2, Len(s) - 1))

\* strings.Contains(response, "success").
ContainsSuccess(s) == \E i \in DOMAIN s : s[i] \in {"S", "X"}

\* The tail of Scan once readResponse returned.
CheckResponse(r) ==
    CASE ~Unmarshals(r)      -> Finish("app", "protocol-error", FALSE)
      [] ContainsSuccess(r)  -> Finish(NoErr, "success", FALSE)
      [] OTHER               -> Finish(NoErr, "application-error", FALSE)

\* One iteration of readResponse's loop: a Read of one byte; a NUL ends the
\* response, which Scan records as HandshakeResponse and then checks.
ReadByte ==
    /\ pc = "read"
    /\ \/ \E e \in ReadErrors(srv) : Finish(e, TryGetScanStatus(e), TRUE)
                                     /\ UNCHANGED <<srv, response, results>>
       \/ /\ srv # <<>> /\ srv' = Tail(srv)
          /\ IF Head(srv) = "NUL"
             THEN results' = response /\ CheckResponse(response) /\ UNCHANGED response
             ELSE /\ response' = Append(response, Head(srv))
                  /\ UNCHANGED <<pc, status, err, resNil, results>>
    /\ UNCHANGED reply

Init ==
    /\ pc = "open" /\ reply \in Replies /\ srv = reply /\ response = <<>>
    /\ status = "success" /\ err = NoErr /\ results = <<>> /\ resNil = TRUE

Next == Open \/ SendHandshake \/ ReadByte

Spec == Init /\ [][Next]_vars
=============================================================================
