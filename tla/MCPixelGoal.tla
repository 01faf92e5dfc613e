----------------------------- MODULE MCPixelGoal -----------------------------
(* A pavement a - b - c along the x axis, a crossing from c over x to d;   *)
(* a..c and c..d are legs over two edges.  The pool files are what the     *)
(* pruning tool writes for the legs an engine accepted, and two written by *)
(* hand.                                                                   *)
EXTENDS PixelGoal, TLC

CONSTANTS a, b, c, d, x

Places == (a :> <<0, 0>>) @@ (b :> <<3, 0>>) @@ (c :> <<6, 0>>)
            @@ (x :> <<6, 3>>) @@ (d :> <<6, 6>>)
Paving == {{a, b}, {b, c}, {c, x}, {x, d}}

Doorways == {{a, b}}

Crossing == {<<c, d>>, <<d, c>>}
Short == {<<a, b>>, <<b, a>>, <<b, c>>, <<c, b>>}
Long == {<<a, c>>, <<c, a>>}

Accepted ==
  {Short \union Long \union Crossing,
   Short \union {<<c, d>>},                         \* d cannot be left
   {<<a, b>>, <<b, c>>, <<c, a>>} \union Crossing,  \* one way round
   Long \union {<<b, c>>, <<c, x>>} \union Crossing}    \* b and x lost

(* Ways in but no way from the pavement to the crossing; and all is well.  *)
ByHand ==
  LET file(legs) == [nodes |-> Node, edges |-> Edge, stops |-> Node \ {x}, legs |-> legs]
  IN {file({<<a, b>>, <<b, a>>} \union Crossing),
      file(Long \union {<<a, b>>, <<b, a>>} \union Crossing)}

PoolFiles == ByHand \union UNION {Prune(accepted) : accepted \in Accepted}
==============================================================================
