---------------------------------- MODULE RFB ----------------------------------
(***************************************************************************)
(* The RFB scanner (src/modules/rethinkdb/scanner.go, lines 164-324): Scan *)
(* opens a connection and GetRFBanner reads with zgrab2.ReadUntilRegex     *)
(* until what has been read matches ^RFB (\d{3})\.(\d{3})\n$, records it   *)
(* as the banner and tests it against the same expression.                *)
(*                                                                         *)
(* The server's text is abstracted to words: "RFB", "SP", three-digit      *)
(* numbers "003" and "008", a two-digit "38", ".", "LF" and "x", anything  *)
(* else.                                                                   *)
(***************************************************************************)
EXTENDS Probe

CONSTANTS Replies,     \* word sequences the server may send
          ShortReads   \* may a Read return less than has been sent?

VARIABLES pc, reply, srv, buffer, status, err, results, resNil
vars == <<pc, reply, srv, buffer, status, err, results, resNil>>

Digits3 == {"003", "008"}

Finish(e, s, isNil) ==
    /\ pc' = "done" /\ err' = e /\ status' = s /\ resNil' = isNil

\* t.Open, and the return in Scan when it fails.
Open ==
    /\ pc = "open"
    /\ \/ \E e \in DialErrors : Finish(e, TryGetScanStatus(e), TRUE)
       \/ pc' = "read" /\ UNCHANGED <<status, err, resNil>>
    /\ UNCHANGED <<reply, srv, buffer, results>>

\* Mutant: the expression is not anchored at the end.
Mut_BannerMatch(s) ==
    /\ Len(s) >= 6 /\ s[1] = "RFB" /\ s[2] = "SP" /\ s[3] \in Digits3
    /\ s[4] = "." /\ s[5] \in Digits3 /\ s[6] = "LF"

\* rfbBannerRegex.Match: the whole text is "RFB ddd.ddd\n".
BannerMatch(s) ==
    /\ Len(s) = 6 /\ s[1] = "RFB" /\ s[2] = "SP" /\ s[3] \in Digits3
    /\ s[4] = "." /\ s[5] \in Digits3 /\ s[6] = "LF"

\* One Read of ReadUntilRegex into rfb.buffer.  An error ends readResponse
\* and GetRFBanner, which record nothing; a match ends it, and the banner is
\* recorded and tested again: a success, or an application error.
ReadUntilRegex ==
    /\ pc = "read"
    /\ \/ \E e \in ReadErrors(srv) : Finish(e, TryGetScanStatus(e), FALSE)
                                     /\ UNCHANGED <<srv, buffer, results>>
       \/ \E chunk \in ReadChunks(srv, 10000, ShortReads) :
             /\ srv' = SubSeq(srv, Len(chunk) + 1, Len(srv))
             /\ buffer' = buffer \o chunk
             /\ IF BannerMatch(buffer')
                THEN /\ results' = buffer'
                     /\ IF BannerMatch(buffer')
                        THEN Finish(NoErr, "success", FALSE)
                        ELSE Finish("app", "application-error", FALSE)
                ELSE UNCHANGED <<pc, status, err, resNil, results>>
    /\ UNCHANGED reply

Init ==
    /\ pc = "open" /\ reply \in Replies /\ srv = reply /\ buffer = <<>>
    /\ status = "success" /\ err = NoErr /\ results = <<>> /\ resNil = TRUE

Next == Open \/ ReadUntilRegex

Spec == Init /\ [][Next]_vars

-----------------------------------------------------------------------------
\* GetRFBanner's comment: it returns true if and only if the server
\* returns a valid RFB banner.  A successful RFB scan recorded, as its
\* banner, the server's version line at the start of its answer, and a
\* scan of a server whose whole answer is a version line is a success,
\* however TCP splits it.
RecordsRFBBanner ==
    /\ (pc = "done" /\ status = "success") =>
          results = SubSeq(reply, 1, 6) /\ BannerMatch(results)
    /\ (pc = "done" /\ err \notin DialErrors /\ BannerMatch(reply)) => status = "success"
====
