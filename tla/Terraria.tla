-------------------------------- MODULE Terraria --------------------------------
(***************************************************************************)
(* The Terraria scanner (src/modules/terraria/scanner.go): Scan opens a    *)
(* connection, sends a Connect Request, then makes a single Read of at     *)
(* most 1024 bytes and accepts it when its little-endian length field is   *)
(* the number of bytes read and its packet ID is 2 (password required) or  *)
(* 3 (continue connecting).                                                *)
(***************************************************************************)
EXTENDS Probe

CONSTANTS Replies,     \* byte sequences the server may answer with
          ShortReads   \* may a Read return less than has been sent?

VARIABLES pc, reply, srv, status, err, results, resNil
vars == <<pc, reply, srv, status, err, results, resNil>>

Finish(e, s, isNil) ==
    /\ pc' = "done" /\ err' = e /\ status' = s /\ resNil' = isNil

\* t.Open, and the return in Scan when it fails.
Open ==
    /\ pc = "open"
    /\ \/ \E e \in DialErrors : Finish(e, TryGetScanStatus(e), TRUE)
       \/ pc' = "connect" /\ UNCHANGED <<status, err, resNil>>
    /\ UNCHANGED <<reply, srv, results>>

\* SendConnectRequest: one Write of the 14-byte packet "Terraria244"; its
\* error returns nil results.
SendConnectRequest ==
    /\ pc = "connect"
    /\ \/ \E e \in {"io-timeout", "app"} : Finish(e, TryGetScanStatus(e), TRUE)
       \/ pc' = "read" /\ UNCHANGED <<status, err, resNil>>
    /\ UNCHANGED <<reply, srv, results>>

\* ValidateResponse.
ValidateResponse(response) ==
    CASE Len(response) < 3                                   -> "app"
      [] LittleEndian(SubSeq(response, 1, 2)) # Len(response) -> "app"
      [] response[3] \in {2, 3}                              -> NoErr
      [] OTHER                                               -> "app"

\* ReadAndValidateResponse: the response is recorded before it is checked,
\* and Scan returns the results with the read's or the check's error.
ReadAndValidateResponse ==
    /\ pc = "read"
    /\ \/ \E e \in ReadErrors(srv) : Finish(e, TryGetScanStatus(e), FALSE)
                                     /\ UNCHANGED <<srv, results>>
       \/ \E response \in ReadChunks(srv, 1024, ShortReads) :
             LET e == ValidateResponse(response) IN
             /\ srv' = SubSeq(srv, Len(response) + 1, Len(srv))
             /\ results' = response
             /\ Finish(e, TryGetScanStatus(e), FALSE)
    /\ UNCHANGED reply

Init ==
    /\ pc = "open" /\ reply \in Replies /\ srv = reply
    /\ status = "success" /\ err = NoErr /\ results = <<>> /\ resNil = TRUE

Next == Open \/ SendConnectRequest \/ ReadAndValidateResponse

Spec == Init /\ [][Next]_vars
=============================================================================
