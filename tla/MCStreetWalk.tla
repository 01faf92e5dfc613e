----------------------------- MODULE MCStreetWalk ----------------------------
(* A ring road a-b-c-d-a on which b and c have no turning, and a way round *)
(* by the mews d-e-g-a, which forks at e into the dead end f.  Two lamps   *)
(* follow each other on the way c-d-a.  The obstacle on c-d is             *)
(* photographed from one side only.                                        *)
EXTENDS StreetWalk

CONSTANTS a, b, c, d, e, f, g

Roads == {{a, b}, {b, c}, {c, d}, {a, d}, {d, e}, {e, g}, {e, f}, {a, g}}
RoadOrder ==
  <<{a, b}, {a, d}, {a, g}, {b, c}, {c, d}, {d, e}, {e, f}, {e, g}>>
Names == [n \in Node |-> IF n \in {e, f, g} THEN "mews" ELSE "ring"]
Upright == {{a, b}, {c, d}, {a, g}, {d, e}}
Lamps == {<<c, d>>, <<d, a>>}
HashedRoads == {{a, b}, {b, c}, {c, d}, {e, f}}
Photos == {<<n, m>> : n \in Node, m \in Node} \ {<<d, c>>}
==============================================================================
