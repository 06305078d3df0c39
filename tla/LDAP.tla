--------------------------------- MODULE LDAP ---------------------------------
(***************************************************************************)
(* The LDAP scanner (src/modules/ldap/scanner.go, lines 1-163): Scan opens *)
(* a connection, sets up implicit TLS if configured, writes an anonymous  *)
(* BindRequest, reads one BER packet with ber.ReadPacket and takes the    *)
(* result code from the packet's second child's first child.              *)
(*                                                                         *)
(* The server's answer is abstracted to the BER tree ReadPacket decodes:  *)
(* a node is a record of whether its decoded Value is an int64 (INTEGER   *)
(* and ENUMERATED are), that integer, and its children.  A reply is that  *)
(* tree; a reply is a record of what ReadPacket meets, a "packet", the    *)
(* server "silent", or a packet "truncated", and the tree.                 *)
(***************************************************************************)
EXTENDS Probe, Integers

CONSTANTS ImplicitTLS,  \* s.config.ImplicitTLS
          Replies       \* the replies the server may send

VARIABLES pc, reply, status, err, results, resNil
vars == <<pc, reply, status, err, results, resNil>>

Finish(e, s, isNil) ==
    /\ pc' = "done" /\ err' = e /\ status' = s /\ resNil' = isNil

\* t.Open, GetTLSConnection and Handshake: each failure returns nil results.
Open ==
    /\ pc = "open"
    /\ \/ \E e \in DialErrors : Finish(e, TryGetScanStatus(e), TRUE)
       \/ /\ ImplicitTLS
          /\ \E e \in {"io-timeout", "eof", "app"} : Finish(e, TryGetScanStatus(e), TRUE)
       \/ pc' = "bind" /\ UNCHANGED <<status, err, resNil>>
    /\ UNCHANGED <<reply, results>>

\* conn.Write(bindRequest).
SendBindRequest ==
    /\ pc = "bind"
    /\ \/ \E e \in {"io-timeout", "app"} : Finish(e, TryGetScanStatus(e), FALSE)
       \/ pc' = "read" /\ UNCHANGED <<status, err, resNil>>
    /\ UNCHANGED <<reply, results>>

\* What ber.ReadPacket returns instead of a packet: on silence EOF or the
\* deadline, on a packet cut short unexpected EOF or the deadline.
ReadPacketErrors ==
    CASE reply.got = "silent"    -> {"eof", "io-timeout"}
      [] reply.got = "truncated" -> {"unexpected-eof", "io-timeout"}
      [] OTHER                   -> {}

\* resultCode >= 0 && resultCode <= 80.
ValidResultCode(code) == code >= 0 /\ code <= 80

\* ber.ReadPacket and the rest of Scan: the packet is recorded; fewer than
\* two children is an unknown error; Children[1].Children[0] of a second
\* child without children is an index out of range, a panic; a value that
\* is not an int64 is an unknown error; the code decides the rest.
ReadBindResponse ==
    /\ pc = "read"
    /\ \/ \E e \in ReadPacketErrors : Finish(e, TryGetScanStatus(e), FALSE)
                                      /\ UNCHANGED results
       \/ /\ ReadPacketErrors = {}
          /\ results' = [recorded |-> TRUE, pkt |-> reply.pkt]
          /\ LET kids == reply.pkt.kids
             IN CASE Len(kids) < 2 -> Finish("app", "unknown-error", FALSE)
                  [] kids[2].kids = <<>> -> pc' = "panic" /\ UNCHANGED <<status, err, resNil>>
                  [] ~kids[2].kids[1].isInt -> Finish("app", "unknown-error", FALSE)
                  [] ValidResultCode(kids[2].kids[1].value) -> Finish(NoErr, "success", FALSE)
                  [] OTHER -> Finish("app", "protocol-error", FALSE)
    /\ UNCHANGED reply

Init ==
    /\ pc = "open" /\ reply \in Replies
    /\ status = "success" /\ err = NoErr /\ results = [recorded |-> FALSE, pkt |-> reply.pkt] /\ resNil = TRUE

Next == Open \/ SendBindRequest \/ ReadBindResponse

Spec == Init /\ [][Next]_vars
====
