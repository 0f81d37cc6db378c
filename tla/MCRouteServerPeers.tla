------------------------ MODULE MCRouteServerPeers ------------------------
(* Small instances of RouteServerPeers. *)
EXTENDS RouteServerPeers, TLC

CONSTANTS c1, c2, s1, s2, e1, e2, i1, i2

(* Two Route Servers with an endpoint each, or one with two. *)
TwoServers == e1 :> s1 @@ e2 :> s2
OneServer == [e \in Endpoints |-> s1]

(* One zone, or one for each endpoint and node. *)
EndpointZone == [e \in Endpoints |-> "a"]
NodeZone == [ip \in IPs |-> "a"]
EndpointZones == e1 :> "a" @@ e2 :> "b"
NodeZones == i1 :> "a" @@ i2 :> "b"

(* An address that stays with a cluster, or goes from one to another. *)
OwnHomes == i1 :> {c1} @@ i2 :> {c2}
AnyHomes == [ip \in IPs |-> Clusters]

(* Each cluster has a node and an endpoint of its own zone: the two halves *)
(* of this instance are interchangeable.                                   *)
SwapHalves ==
    {p \in Permutations({c1, c2, e1, e2, i1, i2}) :
        {<<p[c1], p[e1], p[i1]>>, <<p[c2], p[e2], p[i2]>>} = {<<c1, e1, i1>>, <<c2, e2, i2>>}}
=============================================================================
