------------------------------- MODULE MCRatings -------------------------------
EXTENDS Learning

(* One pass of any kind beside another that adds ratings. *)
CONSTANTS p1, p2
KindsOfTwo == (p1 :> AllKinds \ {"inline"}) @@ (p2 :> {"inline"})

(* Facts of different lengths, near enough for the first bounds of a pass. *)
Lengths(f) == <<1, 1, 2, 4>>[f]
NoLimit == {Unset}

(* Two values of each parameter; the bounds on length come alone and in turn. *)
Terms ==
  [margin : 1..2, least : {Unset, 2}, most : {Unset, 1}, noReuse : BOOLEAN,
   chosenOk : {1..3}, rejectedOk : {1..3, 1..2},
   epsilons : {<<>>, <<0>>, <<1, Unset>>, <<0, 2>>}]
================================================================================
