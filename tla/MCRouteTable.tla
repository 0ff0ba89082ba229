---------------------------- MODULE MCRouteTable ----------------------------
(* RouteTable for TLC: versions that add a route, change a target or the    *)
(* method of a path, name a route of the gateway, a path that gin joins to  *)
(* another one or a wildcard it refuses, and one that is no list.           *)
EXTENDS RouteTable

Route(p, m, t) == [path |-> p, method |-> m, to |-> t]

OwnRoutes == {<<"own", "post">>}

ClashingPaths == {<<"a", "alias">>, <<"alias", "a">>}

Saved ==
  { <<Route("a", "get", "t1")>>,
    <<Route("a", "get", "t2"), Route("b", "post", "t1")>>,
    <<Route("b", "get", "t1"), Route("own", "post", "t1")>>,
    <<Route("alias", "get", "t2"), Route("wild", "post", "t1")>>,
    <<NoList>> }

=============================================================================
