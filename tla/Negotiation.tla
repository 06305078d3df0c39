---------------------------- MODULE Negotiation ----------------------------
(***************************************************************************)
(* Algorithm negotiation of the SSH transport (src/lib/ssh/common.go,     *)
(* findCommon and findAgreedAlgorithms).  Both are pure functions of the   *)
(* two KEXINIT messages; they are operators here, used by the handshake    *)
(* transport module and checked against a reference definition by         *)
(* MC_Negotiation.                                                         *)
(*                                                                         *)
(* A KEXINIT message is a record with one name-list (a sequence of         *)
(* algorithm names) per category and the FirstKexFollows flag.             *)
(***************************************************************************)
EXTENDS Naturals, Sequences

\* findCommon's "" result: no algorithm both sides offer.
NoCommon == ""

\* The error-free result of findAgreedAlgorithms.
NoError == ""

\* The eight name-list fields of KexInitMsg in the order findAgreedAlgorithms
\* looks them up; the first one without a common entry names the error.
AgreedOrder ==
    << "KexAlgos", "ServerHostKeyAlgos",
       "CiphersClientServer", "CiphersServerClient",
       "MACsClientServer", "MACsServerClient",
       "CompressionClientServer", "CompressionServerClient" >>

\* Is name offered anywhere in the name-list l?
Offers(l, name) == \E j \in DOMAIN l : l[j] = name

(***************************************************************************)
(* findCommon (common.go 111-120): the outer loop runs over the CLIENT's   *)
(* list in its order, the inner loop over the server's; the first client   *)
(* entry the server also offers is returned.                               *)
(***************************************************************************)
\* Mutant: the loops nested the other way round (server preference wins).
RECURSIVE Mut_FindCommonFrom(_, _, _)
Mut_FindCommonFrom(client, server, i) ==
    IF i > Len(server) THEN NoCommon
    ELSE IF Offers(client, server[i]) THEN server[i]
    ELSE Mut_FindCommonFrom(client, server, i + 1)

RECURSIVE FindCommonFrom(_, _, _)
FindCommonFrom(client, server, i) ==
    IF i > Len(client) THEN NoCommon
    ELSE IF Offers(server, client[i]) THEN client[i]
    ELSE FindCommonFrom(client, server, i + 1)

FindCommon(client, server) == FindCommonFrom(client, server, 1)

(***************************************************************************)
(* findAgreedAlgorithms (common.go 151-195): eight findCommon lookups in   *)
(* AgreedOrder, each on the SAME field of both messages; it returns on     *)
(* the first failing lookup.  Algorithms.W is the client-to-server group,  *)
(* Algorithms.R the server-to-client group.                                *)
(***************************************************************************)
\* Mutant: the client-to-server cipher matched against the server's
\* server-to-client offer (directions swapped).
Mut_CommonOf(clientInit, serverInit, f) ==
    IF f = "CiphersClientServer"
    THEN FindCommon(clientInit[f], serverInit["CiphersServerClient"])
    ELSE FindCommon(clientInit[f], serverInit[f])

CommonOf(clientInit, serverInit, f) == FindCommon(clientInit[f], serverInit[f])

FindAgreedAlgorithms(clientInit, serverInit) ==
    LET C(f) == CommonOf(clientInit, serverInit, f)
        failing == { i \in DOMAIN AgreedOrder : C(AgreedOrder[i]) = NoCommon }
        first == CHOOSE i \in failing : \A j \in failing : i <= j
    IN IF failing # {}
       THEN [err |-> AgreedOrder[first]]
       ELSE [err     |-> NoError,
             Kex     |-> C("KexAlgos"),
             HostKey |-> C("ServerHostKeyAlgos"),
             W |-> [Cipher      |-> C("CiphersClientServer"),
                    MAC         |-> C("MACsClientServer"),
                    Compression |-> C("CompressionClientServer")],
             R |-> [Cipher      |-> C("CiphersServerClient"),
                    MAC         |-> C("MACsServerClient"),
                    Compression |-> C("CompressionServerClient")]]

\* Mutant: only the kex algorithm's guess is compared.
Mut_GuessedWrong(clientInit, serverInit) ==
    clientInit.KexAlgos[1] # serverInit.KexAlgos[1]

\* enterKeyExchangeLocked (803), after the agreement succeeded: the other
\* side's guessed kex packet is wrong when the two sides' first kex or
\* first host-key algorithms differ (RFC 4253 section 7).
GuessedWrong(clientInit, serverInit) ==
    \/ clientInit.KexAlgos[1] # serverInit.KexAlgos[1]
    \/ clientInit.ServerHostKeyAlgos[1] # serverInit.ServerHostKeyAlgos[1]
=============================================================================
