--------------------------- MODULE MC_ProxyServer ---------------------------
(* A small instance of ProxyServer: two hosts, two on-demand ports, one TLS *)
(* and one plain.                                                           *)
EXTENDS ProxyServer

CONSTANTS a, b, u, v

On(h, p, t, up) == [host |-> h, port |-> p, tls |-> t, up |-> up]

\* A plain mapping of "a", and TLS ones of "b", whose CA may go; two of them cannot
\* share their port.
MCMappings == {On(a, 8080, FALSE, u), On(b, 8080, TRUE, v), On(b, 9443, TRUE, v)}

\* The same mapping, TLS and plain.
MCFlips == {On(a, 8080, FALSE, u), On(a, 8080, TRUE, u)}

MCInitialStates == {{}, {On(b, 9443, TRUE, v)}}
MCEmpty == {{}}
=============================================================================
