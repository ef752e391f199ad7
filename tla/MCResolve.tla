----------------------------- MODULE MCResolve ------------------------------
(* Packages p, c, q and u of the registry; c, u and w also as URLs, the    *)
(* last two with or without a declared version.  A world gives the root    *)
(* and every package version its requirements, so that between them there  *)
(* are diamonds, cycles, two sources for a name, constraints on what has   *)
(* no version, names required twice, and a range with nothing in it.       *)
EXTENDS Resolve, TLC

CONSTANTS rp, rc, rq, ru, xc, xu, xw

MCPublished == [s \in {rp, rc, rq, ru} |-> IF s \in {rp, rc} THEN {1, 2} ELSE {1}]
MCVersion == 0 .. 2

Req(n, s, range) == [name |-> n, source |-> s, range |-> range]

P == Req("p", rp, MCVersion)
P1 == Req("p", rp, {1})
PNever == Req("p", rp, {})
C1 == Req("c", rc, {1})
C2 == Req("c", rc, {2})
XC == Req("c", xc, MCVersion)
Q == Req("q", rq, MCVersion)
Below2 == Req("u", ru, {0, 1})
From1 == Req("u", ru, {1, 2})
U == Req("u", xu, MCVersion)
W == Req("w", xw, MCVersion)

MCWorlds ==
    {[root |-> root,
      requires |-> (<<rp, 2>> :> p2 @@ <<rp, 1>> :> p1 @@ <<rq, 1>> :> q
                    @@ <<xw, 0>> :> w @@ <<xw, 1>> :> w @@ <<xu, 0>> :> u
                    @@ <<rc, 1>> :> <<>> @@ <<rc, 2>> :> <<>> @@ <<ru, 1>> :> <<>>
                    @@ <<xc, 1>> :> <<>>),
      unknown |-> unknown] :
        root \in {<<P>>, <<P, P1>>, <<PNever>>, <<P, C1, W>>, <<P, C1, U>>, <<U, W>>, <<P, U, W>>},
        p2 \in {<<Q>>, <<XC>>, <<W, C2>>, <<C1, C2>>, <<U>>},
        p1 \in {<<>>, <<Below2>>, <<C2>>},
        q \in {<<>>, <<C2, From1>>, <<XC>>},
        w \in {<<>>, <<Below2>>, <<P>>, <<C2, U>>},
        u \in {<<>>, <<W>>, <<C2>>},
        unknown \in {{xu}, {xu, xw}}}
=============================================================================
