----------------------------- MODULE MCServices -----------------------------
(* An instance of Services for TLC. *)
EXTENDS Services

\* The topics are single ones and a path of two tiers.
ProbeOf(nonce) == [origin |-> "none", owner |-> "flashsale", topics |-> {"health"}, method |-> "GET",
                   ip |-> "ip1", credential |-> "none", nonce |-> nonce]

MCShapes ==
    [origin : {"allowed"}, owner : Owners,
     topics : {{}, {"orders"}, {"investigations"}, {"auth"}, {"ai", "auth"}},
     method : {"GET", "POST"}, ip : {"ip1"}, credential : {"none", "bearer1"}, nonce : {"none"}]
    \cup {ProbeOf(n) : n \in {"fresh", "malformed"}}
    \cup {[ProbeOf("none") EXCEPT !.origin = "other"], [ProbeOf("none") EXCEPT !.owner = "unknown"],
          [ProbeOf("none") EXCEPT !.method = "OPTIONS"], [ProbeOf("none") EXCEPT !.ip = "ip2"]}

MCAmount == [r \in 1..MaxRows |-> (r % 2) + 1]
Listing(n, more) == [i \in 1..n |-> Transaction(i)] \o more

\* The first rows, some of them with one more record: again, or of another amount.
MCStatements ==
    {Listing(n, << >>) : n \in 0..4}
    \cup {Listing(n, <<Transaction(1)>>) : n \in {1, 3}}
    \cup {<<Transaction(2), Transaction(3), Transaction(3)>>,
          Listing(2, <<[Transaction(3) EXCEPT !.amount = 5]>>)}
==============================================================================
