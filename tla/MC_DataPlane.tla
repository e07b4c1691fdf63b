---------------------------- MODULE MC_DataPlane ----------------------------
(* A small instance of DataPlane: hosts "a" and "b", an upstream whose name is *)
(* resolved and one on a port that may become a listener, management.bind on a *)
(* third, and certificates of two kinds of keys.                               *)
EXTENDS DataPlane, TLC

CONSTANTS a, b, mgmt, c, loop, lan, dead, meta, rsa, ecdsa, noname, noroute

On(h, p, t, name, up) ==
  [host |-> h, port |-> p, tls |-> t, up |-> [host |-> name, port |-> up]]

\* "a" proxies to port 8080 of a name that may mean this machine: in the other state
\* that is a listener, and one of its mappings names a host that the policy, changed
\* since it was stored, no longer accepts.  Port 9000 is management.bind's.
ToBox == On(a, 443, TRUE, "box", 8080)
MCStates == {{ToBox}, {ToBox, On(b, 8080, FALSE, "box", 9000),
               On(a, 8080, FALSE, "other", 9000)}}

\* The certificate of "a" comes second, and has a key that not every client accepts.
RSA(h) == [names |-> {h}, key |-> rsa]
ECDSA(h) == [names |-> {h}, key |-> ecdsa]
MCCertLists == {<<RSA(b), ECDSA(a)>>, <<RSA(b)>>}
MCOffers == {{rsa}, {rsa, ecdsa}}
MCResolutions == {[h \in {"box", "other"} |-> ips] : ips \in {{lan, dead}, {loop}, {loop, meta}, {}}}
MCSpellings == {[name |-> a, dots |-> 0], [name |-> b, dots |-> 1], [name |-> a, dots |-> 2],
                [name |-> mgmt, dots |-> 0], [name |-> a, dots |-> 3]}
=============================================================================
