------------------------ MODULE MC_HandshakeTransport ------------------------
(***************************************************************************)
(* Model values for HandshakeTransport.  Our KEXINIT is the client's: its *)
(* kex list has an unsupported name first-but-one to reach the kexAlgoMap *)
(* miss only when the server prefers it.                                  *)
(***************************************************************************)
EXTENDS HandshakeTransport, TLC

CONSTANTS w1, w2

MCWriters == {w1, w2}

\* A KexInitMsg with the given kex and host-key lists and one common name in
\* every other category.
Msg(kex, hostKey, follows) ==
    [KexAlgos |-> kex, ServerHostKeyAlgos |-> hostKey,
     CiphersClientServer |-> <<"aes128-ctr">>, CiphersServerClient |-> <<"aes128-ctr">>,
     MACsClientServer |-> <<"hmac-sha2-256">>, MACsServerClient |-> <<"hmac-sha2-256">>,
     CompressionClientServer |-> <<"none">>, CompressionServerClient |-> <<"none">>,
     FirstKexFollows |-> follows]

MCOurInit == Msg(<<"curve25519-sha256", "diffie-hellman-group14-sha1">>,
                 <<"ssh-rsa">>, FALSE)

MCSupportedKex == {"curve25519-sha256", "diffie-hellman-group14-sha1"}

\* An agreeing server, one that guesses (wrongly) and sends the guessed
\* packet, and one with no kex algorithm in common.
MCPeerInits ==
    { Msg(<<"curve25519-sha256">>, <<"ssh-rsa">>, FALSE),
      Msg(<<"diffie-hellman-group14-sha1", "curve25519-sha256">>, <<"ssh-rsa">>, TRUE),
      Msg(<<"ecdh-sha2-nistp256">>, <<"ssh-rsa">>, FALSE) }

Symm == Permutations(MCWriters)
=============================================================================
