------------------------------- MODULE Memcached -------------------------------
(***************************************************************************)
(* The Memcached scanner (src/modules/memcached/scanner.go): Scan opens a  *)
(* connection and calls GetMemcachedVersion, which writes "version\r\n",   *)
(* ignoring the write's error, makes a single Read of at most 256 bytes,   *)
(* and matches it against ^VERSION (\S+)\r\n$.                             *)
(*                                                                         *)
(* A character is a one-letter string; CR, LF and SP name the carriage    *)
(* return, the line feed and the space.                                    *)
(***************************************************************************)
EXTENDS Probe

CONSTANTS Replies,     \* character sequences the server may answer with
          ShortReads   \* may a Read return less than has been sent?

VARIABLES pc, reply, srv, status, err, results, resNil
vars == <<pc, reply, srv, status, err, results, resNil>>

CR == "CR"
LF == "LF"
SP == "SP"
\* Go's \s: tab, line feed, form feed, carriage return and space.
Space == {"TAB", LF, "FF", CR, SP}
VersionPrefix == <<"V", "E", "R", "S", "I", "O", "N", SP>>

Finish(e, s, isNil) ==
    /\ pc' = "done" /\ err' = e /\ status' = s /\ resNil' = isNil

\* t.Open, and the return in Scan when it fails.
Open ==
    /\ pc = "open"
    /\ \/ \E e \in DialErrors : Finish(e, TryGetScanStatus(e), TRUE)
       \/ pc' = "version" /\ UNCHANGED <<status, err, resNil>>
    /\ UNCHANGED <<reply, srv, results>>

\* memcachedEndRegex.FindStringSubmatch: the submatch, or none.
VersionMatch(s) ==
    LET n == Len(s) IN
    IF /\ n >= Len(VersionPrefix) + 3
       /\ SubSeq(s, 1, Len(VersionPrefix)) = VersionPrefix
       /\ SubSeq(s, n - 1, n) = <<CR, LF>>
       /\ \A i \in Len(VersionPrefix) + 1 .. n - 2 : s[i] \notin Space
    THEN {SubSeq(s, Len(VersionPrefix) + 1, n - 2)}
    ELSE {}

\* GetMemcachedVersion with sendCommand and readResponse: the write's
\* result is discarded; the read's error, or a response the expression
\* does not match, is returned with the (empty) results.
GetMemcachedVersion ==
    /\ pc = "version"
    /\ \/ \E e \in ReadErrors(srv) : Finish(e, TryGetScanStatus(e), FALSE)
                                     /\ UNCHANGED <<srv, results>>
       \/ \E resp \in ReadChunks(srv, 256, ShortReads) :
             /\ srv' = SubSeq(srv, Len(resp) + 1, Len(srv))
             /\ \/ \E v \in VersionMatch(resp) :
                      results' = v /\ Finish(NoErr, "success", FALSE)
                \/ VersionMatch(resp) = {} /\ UNCHANGED results
                   /\ Finish("app", TryGetScanStatus("app"), FALSE)
    /\ UNCHANGED reply

Init ==
    /\ pc = "open" /\ reply \in Replies /\ srv = reply
    /\ status = "success" /\ err = NoErr /\ results = <<>> /\ resNil = TRUE

Next == Open \/ GetMemcachedVersion

Spec == Init /\ [][Next]_vars
=============================================================================
