--------------------------------- MODULE RTSP ---------------------------------
(***************************************************************************)
(* The RTSP scanner (src/modules/rtsp/scanner.go): Scan opens a            *)
(* connection, and sendOptionsRequest writes an OPTIONS request and makes  *)
(* a single Read of at most 4096 bytes; the scan succeeds when that        *)
(* response starts with "RTSP/1.0".  Characters are one-letter strings.    *)
(***************************************************************************)
EXTENDS Probe

CONSTANTS Replies,     \* character sequences the server may answer with
          ShortReads   \* may a Read return less than has been sent?

VARIABLES pc, reply, srv, status, err, results, resNil
vars == <<pc, reply, srv, status, err, results, resNil>>

RTSPVersion == <<"R", "T", "S", "P", "/", "1", ".", "0">>

Finish(e, s, isNil) ==
    /\ pc' = "done" /\ err' = e /\ status' = s /\ resNil' = isNil

\* t.Open, and the return in Scan when it fails.
Open ==
    /\ pc = "open"
    /\ \/ \E e \in DialErrors : Finish(e, TryGetScanStatus(e), TRUE)
       \/ pc' = "options" /\ UNCHANGED <<status, err, resNil>>
    /\ UNCHANGED <<reply, srv, results>>

\* strings.HasPrefix(response, "RTSP/1.0").
IsRTSPResponse(response) == IsPrefix(RTSPVersion, response)

\* sendOptionsRequest with readResponse, and the rest of Scan: a write or
\* read error returns nil results; a response is recorded, and is a
\* success or an application error by its prefix.
SendOptionsRequest ==
    /\ pc = "options"
    /\ \/ \E e \in {"io-timeout", "app"} : Finish(e, TryGetScanStatus(e), TRUE)
                                           /\ UNCHANGED <<srv, results>>
       \/ \E e \in ReadErrors(srv) : Finish(e, TryGetScanStatus(e), TRUE)
                                     /\ UNCHANGED <<srv, results>>
       \/ \E response \in ReadChunks(srv, 4096, ShortReads) :
             /\ srv' = SubSeq(srv, Len(response) + 1, Len(srv))
             /\ results' = response
             /\ IF IsRTSPResponse(response)
                THEN Finish(NoErr, "success", FALSE)
                ELSE Finish("app", "application-error", FALSE)
    /\ UNCHANGED reply

Init ==
    /\ pc = "open" /\ reply \in Replies /\ srv = reply
    /\ status = "success" /\ err = NoErr /\ results = <<>> /\ resNil = TRUE

Next == Open \/ SendOptionsRequest

Spec == Init /\ [][Next]_vars
=============================================================================
