---------------------------- MODULE MC_ClientMux ----------------------------
EXTENDS ClientMux, TLC

CONSTANTS h1, h2, h3, session, tcpip, custom

MCTypes == {session, tcpip, custom}
MCHandlers == {h1, h2, h3}
\* Two handlers race to register "session"; "custom" has none (spec 8).
MCHandlerType == (h1 :> session) @@ (h2 :> session) @@ (h3 :> tcpip)
=============================================================================
