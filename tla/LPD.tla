---------------------------------- MODULE LPD ----------------------------------
(***************************************************************************)
(* The LPD scanner (src/modules/ldap/scanner.go, lines 164-336): Scan      *)
(* opens a connection and GetLPDResponse sends one command, "receive a    *)
(* printer job" for queue "default" or, with get_info, a short queue      *)
(* state, then makes one Read of at most 1024 bytes and records it; the   *)
(* IsLPD verdict, from the first byte, is only made without get_info.     *)
(***************************************************************************)
EXTENDS Probe

CONSTANTS GetInfo,   \* lpd.config.GetInfo
          Replies    \* byte sequences the server may answer with

VARIABLES pc, reply, srv, status, err, results, resNil
vars == <<pc, reply, srv, status, err, results, resNil>>

\* Connection.results: Response and the *bool IsLPD, "nil" when unset.
NoResults == [response |-> <<>>, isLPD |-> "nil"]

Finish(e, s, isNil) ==
    /\ pc' = "done" /\ err' = e /\ status' = s /\ resNil' = isNil

\* t.Open, and the return in Scan when it fails.
Open ==
    /\ pc = "open"
    /\ \/ \E e \in DialErrors : Finish(e, TryGetScanStatus(e), TRUE)
       \/ pc' = "command" /\ UNCHANGED <<status, err, resNil>>
    /\ UNCHANGED <<reply, srv, results>>

\* len(response) > 0 && (response[0] == '\x00' || response[0] == '\x01').
IsLPD(response) == Len(response) > 0 /\ response[1] \in {0, 1}

\* GetLPDResponse with sendCommand and readResponse, and the rest of Scan:
\* a write or read error, wrapped with %w, returns the results, nothing
\* recorded; otherwise the response is recorded, with IsLPD unless
\* get_info, and the scan succeeds.
GetLPDResponse ==
    /\ pc = "command"
    /\ \/ \E e \in {"io-timeout", "app"} : Finish(e, WrappedStatus(e), FALSE)
                                           /\ UNCHANGED <<srv, results>>
       \/ \E e \in ReadErrors(srv) : Finish(e, WrappedStatus(e), FALSE)
                                     /\ UNCHANGED <<srv, results>>
       \/ \E response \in ReadChunks(srv, 1024, TRUE) :
             /\ srv' = SubSeq(srv, Len(response) + 1, Len(srv))
             /\ results' = [response |-> response,
                            isLPD |-> IF GetInfo THEN "nil" ELSE IsLPD(response)]
             /\ Finish(NoErr, "success", FALSE)
    /\ UNCHANGED reply

Init ==
    /\ pc = "open" /\ reply \in Replies /\ srv = reply
    /\ status = "success" /\ err = NoErr /\ results = NoResults /\ resNil = TRUE

Next == Open \/ GetLPDResponse

Spec == Init /\ [][Next]_vars
====
