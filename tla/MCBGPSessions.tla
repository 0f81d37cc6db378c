--------------------------- MODULE MCBGPSessions ---------------------------
(* A small instance of BGPSessions. *)
EXTENDS BGPSessions, TLC

CONSTANTS n1, n2, s1, s2, s3, e1, e2, e3, e4, a, b

(* s1 has an endpoint in each zone, s2 one more in zone a and one whose    *)
(* subnet is not found.                                                    *)
Servers == e1 :> s1 @@ e2 :> s1 @@ e3 :> s2 @@ e4 :> s2
ZoneMap == e1 :> a @@ e2 :> b @@ e3 :> a @@ e4 :> NoZone

Router == "role" :> "router"
In(z) == Router @@ "zone" :> z
Good == <<"aws:", "", "", "a", "i">>
Malformed == <<"aws:", "", "a", "i">>

RouterX == [labels |-> In(a), ip |-> "x", providerID |-> Good]
OneRouter == n1 :> RouterX @@ n2 :> Absent

(* Complete router nodes, and some that are not complete or not routers. *)
Objects ==
    {RouterX,
     [labels |-> In(b), ip |-> "x", providerID |-> Good],
     [labels |-> In(a), ip |-> "y", providerID |-> Good],
     [labels |-> In(a), ip |-> "", providerID |-> Good],
     [labels |-> In(a), ip |-> "x", providerID |-> Malformed],
     [labels |-> Router, ip |-> "x", providerID |-> <<"">>],
     [labels |-> "zone" :> a, ip |-> "x", providerID |-> Good]}

Wish(ids, selector) == [aws |-> TRUE, ids |-> ids, selector |-> selector, azs |-> << >>]

(* Two Route Servers; one listed twice, with a selector that names a zone; *)
(* one that does not exist; and a specification without AWS.               *)
Wishes ==
    {Wish(<<s1, s2>>, Router), Wish(<<s1, s1>>, In(a)), Wish(<<s1, s3>>, Router),
     [aws |-> FALSE, ids |-> << >>, selector |-> Router,
      azs |-> <<[nodeSelector |-> "zone" :> b, neighbors |-> {[address |-> e2, asn |-> s1]}]>>]}
=============================================================================
