--------------------------------- MODULE AMQP ---------------------------------
(***************************************************************************)
(* The AMQP 1.0 scanner (src/modules/amqp/scanner.go, package amqp): Scan  *)
(* opens a connection, sets up implicit TLS if configured (SetupTLS), and  *)
(* GetAMQPBanner writes the protocol header and takes one Read of up to    *)
(* 10000 bytes (readResponse) as the banner, valid when it has at least 8  *)
(* bytes and starts with "AMQP".                                           *)
(***************************************************************************)
EXTENDS Probe

CONSTANTS ImplicitTLS, \* s.config.ImplicitTLS
          Replies,     \* byte sequences the server may answer with
          ShortReads   \* may a Read return less than has been sent?

VARIABLES pc, reply, srv, status, err, banner, resNil
vars == <<pc, reply, srv, status, err, banner, resNil>>

\* "AMQP" in ASCII.
AMQPMagic == <<65, 77, 81, 80>>

Finish(e, s, isNil) ==
    /\ pc' = "done" /\ err' = e /\ status' = s /\ resNil' = isNil

Open ==
    /\ pc = "open"
    /\ \/ \E e \in DialErrors : Finish(e, TryGetScanStatus(e), TRUE)
       \/ /\ pc' = IF ImplicitTLS THEN "tls" ELSE "header"
          /\ UNCHANGED <<status, err, resNil>>
    /\ UNCHANGED <<reply, srv, banner>>

\* SetupTLS: a failure, wrapped with %w, returns the results with the TLS
\* log.
SetupTLS ==
    /\ pc = "tls"
    /\ \/ \E e \in {"io-timeout", "eof", "app"} : Finish(e, WrappedStatus(e), FALSE)
       \/ pc' = "header" /\ UNCHANGED <<status, err, resNil>>
    /\ UNCHANGED <<reply, srv, banner>>

ValidBanner(b) == Len(b) >= 8 /\ SubSeq(b, 1, 4) = AMQPMagic

\* GetAMQPBanner: the header write, readResponse, and the validation; an
\* invalid banner is an error, so Scan's !isValidBanner branch is never
\* taken.
GetAMQPBanner ==
    /\ pc = "header"
    /\ \/ \E e \in {"io-timeout", "app"} : Finish(e, TryGetScanStatus(e), FALSE)
                                           /\ UNCHANGED <<srv, banner>>
       \/ \E e \in ReadErrors(srv) : Finish(e, TryGetScanStatus(e), FALSE)
                                     /\ UNCHANGED <<srv, banner>>
       \/ \E chunk \in ReadChunks(srv, 10000, ShortReads) :
             /\ srv' = SubSeq(srv, Len(chunk) + 1, Len(srv))
             /\ banner' = chunk
             /\ IF ValidBanner(chunk) THEN Finish(NoErr, "success", FALSE)
                ELSE Finish("app", TryGetScanStatus("app"), FALSE)
    /\ UNCHANGED reply

Init ==
    /\ pc = "open" /\ reply \in Replies /\ srv = reply
    /\ status = "success" /\ err = NoErr /\ banner = <<>> /\ resNil = TRUE

Next == Open \/ SetupTLS \/ GetAMQPBanner

Spec == Init /\ [][Next]_vars
=============================================================================
