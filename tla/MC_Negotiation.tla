--------------------------- MODULE MC_Negotiation ---------------------------
(***************************************************************************)
(* Checks findCommon and findAgreedAlgorithms over bounded inputs.  The    *)
(* inputs are fixed by Init and never change: every initial state is one   *)
(* call, and the invariants are checked on each.                           *)
(***************************************************************************)
EXTENDS Negotiation, FiniteSets, SequencesExt

CONSTANTS Names,      \* algorithm names, e.g. {"a", "b", "c"}
          MaxListLen  \* longest name-list enumerated for findCommon

VARIABLES client, server,          \* the two name-lists given to findCommon
          clientInit, serverInit   \* the two KEXINITs given to findAgreedAlgorithms
vars == <<client, server, clientInit, serverInit>>

\* Name-lists without repetitions, as SSH name-lists are.
NameLists(n) == { l \in BoundedSeq(Names, n) : \A i, j \in DOMAIN l : i # j => l[i] # l[j] }

\* Two short name-lists per field: enough to make every category agree or
\* fail independently of the others, and to tell the directions apart.
FieldLists == { <<"a">>, <<"b">> }
AllInits == [ Range(AgreedOrder) -> FieldLists ]

InitCommon ==
    /\ client \in NameLists(MaxListLen)
    /\ server \in NameLists(MaxListLen)
    /\ clientInit = [f \in Range(AgreedOrder) |-> <<>>]
    /\ serverInit = clientInit

InitAgreed ==
    /\ client = <<>>
    /\ server = <<>>
    /\ clientInit \in AllInits
    /\ serverInit \in AllInits

\* KEXINITs whose kex and host-key lists are any lists of up to two names,
\* the other fields <<"a">>: the server's first choices may differ from
\* the client's and still be agreed.
GuessFields == {"KexAlgos", "ServerHostKeyAlgos"}
GuessInits ==
    { [f \in Range(AgreedOrder) |-> IF f \in GuessFields THEN g[f] ELSE <<"a">>] :
        g \in [GuessFields -> NameLists(2)] }

InitGuess ==
    /\ client = <<>>
    /\ server = <<>>
    /\ clientInit \in GuessInits
    /\ serverInit \in GuessInits

\* All three families of calls in one run.
Init == InitCommon \/ InitAgreed \/ InitGuess

Next == UNCHANGED vars

-----------------------------------------------------------------------------
(* Reference: the common name that comes earliest in the client's list.    *)
RefCommon(c, s) ==
    LET common == Range(c) \cap Range(s)
        pos(x) == CHOOSE i \in DOMAIN c : c[i] = x
    IN IF common = {} THEN NoCommon
       ELSE CHOOSE x \in common : \A y \in common : pos(x) <= pos(y)

\* findCommon returns the entry of the client's list that comes first among
\* those the server also offers, whatever the order of the server's list,
\* and "" (an error) exactly when the lists are disjoint.
FindCommonMeetsReference ==
    FindCommon(client, server) = RefCommon(client, server)

\* findAgreedAlgorithms fails naming the first category of AgreedOrder with
\* no common algorithm; otherwise every field of Algorithms is the client's
\* preferred algorithm among the server's offers FOR THAT SAME FIELD, so
\* the client-to-server and server-to-client groups are never swapped.
AgreedAlgorithmsMeetReference ==
    LET res == FindAgreedAlgorithms(clientInit, serverInit)
        Ref(f) == RefCommon(clientInit[f], serverInit[f])
        missing == { i \in DOMAIN AgreedOrder : Ref(AgreedOrder[i]) = NoCommon }
    IN IF missing = {}
       THEN /\ res.err = NoError
            /\ res.Kex = Ref("KexAlgos")
            /\ res.HostKey = Ref("ServerHostKeyAlgos")
            /\ res.W = [Cipher |-> Ref("CiphersClientServer"),
                        MAC |-> Ref("MACsClientServer"),
                        Compression |-> Ref("CompressionClientServer")]
            /\ res.R = [Cipher |-> Ref("CiphersServerClient"),
                        MAC |-> Ref("MACsServerClient"),
                        Compression |-> Ref("CompressionServerClient")]
       ELSE res.err = AgreedOrder[Min(missing)]

\* The server's guessed kex packet is kept (not discarded at line 803) only
\* when it was guessed for the algorithms findAgreedAlgorithms agreed: the
\* server's first kex and first host-key algorithms are the agreed ones,
\* so the packet is never processed under an algorithm it was not for.
GuessKeptOnlyIfAgreed ==
    LET res == FindAgreedAlgorithms(clientInit, serverInit) IN
    (res.err = NoError /\ ~GuessedWrong(clientInit, serverInit))
        => /\ res.Kex = serverInit.KexAlgos[1]
           /\ res.HostKey = serverInit.ServerHostKeyAlgos[1]
=============================================================================
