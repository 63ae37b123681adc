------------------------------ MODULE MCCatalog ------------------------------
(* An instance of Catalog for TLC. *)
EXTENDS Catalog, TLC

CONSTANTS vx, d1, d2, mac, dashed, alice, bob, s1

WorkerSymmetry == Permutations(Worker)

a1 == "10.0.0.1"
a2 == "10.0.0.2"
l1 == "ap-1"
p1 == "PROXY-D1"
p2 == "PROXY-D2"
MCAddr == {a1, a2}
MCDomain == {vx, d1, d2}
MCProxyNames == {p1, p2, "PROXY-VX"}
MCName == {a1, a2, l1} \cup MCProxyNames
MCPROXY == [d \in MCDomain |-> CASE d = d1 -> p1 [] d = d2 -> p2 [] d = vx -> "PROXY-VX"]
MCMAC == {mac, dashed}
MCNormal == [m \in MCMAC |-> IF m = dashed THEN mac ELSE m]
MCUser == {alice, bob}

(* Requests through the proxy a1, with one of two domains or none; direct   *)
(* ones from the same address, one with an identifier that looks like the   *)
(* name of a proxy; an answer.                                              *)
Proxied(d, l, m, u) ==
    [request |-> TRUE, proxy |-> TRUE, src |-> a1, nas |-> a2, domain |-> d,
     identifier |-> l, mac |-> m, user |-> u]
MCMessage ==
    {Proxied(d1, l1, None, None), Proxied(d2, None, mac, alice), Proxied(None, None, None, None),
     [Proxied(None, l1, None, None) EXCEPT !.proxy = FALSE, !.nas = a1],
     [Proxied(None, p1, None, None) EXCEPT !.proxy = FALSE, !.nas = a1],
     [Proxied(d1, None, mac, bob) EXCEPT !.request = FALSE]}

MCNASItem ==
    {[ip |-> a1, name |-> l1, identifier |-> None, secret |-> s1]}
MCClientItem == {[mac |-> dashed, username |-> bob]}

MCImportRequest ==
    {[mode |-> "merge",
      nas |-> <<[ip |-> a1, name |-> None, identifier |-> None, secret |-> None]>>,
      clients |-> <<[mac |-> dashed, username |-> None]>>],
     [mode |-> "replace", clients |-> <<>>,
      nas |-> <<[ip |-> a2, name |-> p1, identifier |-> l1, secret |-> s1]>>],
     [mode |-> "merge", nas |-> <<>>, clients |-> <<[mac |-> None, username |-> bob]>>]}
=============================================================================
