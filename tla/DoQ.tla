---------------------------------- MODULE DoQ ----------------------------------
(***************************************************************************)
(* The DNS-over-QUIC scanner (src/modules/cassandra/scanner.go, lines      *)
(* 164-347): SendAndReceive dials QUIC, opens a stream, writes a DNS query *)
(* for example.com after its 2-byte length, reads a 2-byte length and      *)
(* that many bytes with io.ReadFull, and unpacks them as a DNS message.    *)
(*                                                                         *)
(* A reply is abstracted to a record: `prefix` the bytes of the length the *)
(* server sends (0, 1 or 2), `declared` the length they state, `body` the  *)
(* number of bytes that follow, and `valid` whether those bytes, all of    *)
(* them, are a DNS message.                                                *)
(***************************************************************************)
EXTENDS Probe

CONSTANTS Replies   \* the replies the server may send

VARIABLES pc, reply, status, err, results, resNil
vars == <<pc, reply, status, err, results, resNil>>

QUICErrors == {"io-timeout", "app"}

Finish(e, s, isNil) ==
    /\ pc' = "done" /\ err' = e /\ status' = s /\ resNil' = isNil

\* Every error of SendAndReceive is wrapped with %w, or made with
\* fmt.Errorf, and Scan returns nil results with it.
Fail(e) == Finish(e, WrappedStatus(e), TRUE)

\* quic.DialAddr and session.OpenStreamSync, each under the 10-second
\* context.
Dial ==
    /\ pc = "dial"
    /\ \/ \E e \in QUICErrors \cup DialErrors : Fail(e)
       \/ pc' = "query" /\ UNCHANGED <<status, err, resNil>>
    /\ UNCHANGED <<reply, results>>

\* msg.Pack, which cannot fail for this question, and the two
\* stream.Write calls: the length prefix, then the query.
SendQuery ==
    /\ pc = "query"
    /\ \/ \E e \in QUICErrors : Fail(e)
       \/ pc' = "prefix" /\ UNCHANGED <<status, err, resNil>>
    /\ UNCHANGED <<reply, results>>

\* io.ReadFull(stream, responsePrefix): the prefix bytes, or EOF, an
\* unexpected EOF, or the deadline.
ReadPrefix ==
    /\ pc = "prefix"
    /\ \/ /\ reply.prefix < 2
          /\ \E e \in {ReadFullErr(SubSeq(<<0, 0>>, 1, reply.prefix), 2), "io-timeout"} : Fail(e)
       \/ reply.prefix = 2 /\ pc' = "body" /\ UNCHANGED <<status, err, resNil>>
    /\ UNCHANGED <<reply, results>>

\* The bytes io.ReadFull(stream, responseData) reads of the body, or -1
\* when the stream ends first.
BodyBytes(r) == IF r.declared <= r.body THEN r.declared ELSE -1

\* The body's io.ReadFull and responseMsg.Unpack: the stated number of
\* bytes is read, or the read fails; Unpack succeeds only on the whole
\* of a DNS message, which is the result.
ReadBody ==
    /\ pc = "body"
    /\ \/ /\ BodyBytes(reply) < 0
          /\ \E e \in {IF reply.body = 0 THEN "eof" ELSE "unexpected-eof", "io-timeout"} : Fail(e)
          /\ UNCHANGED results
       \/ /\ BodyBytes(reply) >= 0
          /\ IF reply.valid /\ BodyBytes(reply) = reply.body
             THEN results' = reply /\ Finish(NoErr, "success", FALSE)
             ELSE Fail("app") /\ UNCHANGED results
    /\ UNCHANGED reply

Init ==
    /\ pc = "dial" /\ reply \in Replies
    /\ status = "success" /\ err = NoErr /\ results = "nil" /\ resNil = TRUE

Next == Dial \/ SendQuery \/ ReadPrefix \/ ReadBody

Spec == Init /\ [][Next]_vars
====
