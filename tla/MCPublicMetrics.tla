-------------------------- MODULE MCPublicMetrics --------------------------
(* Instances of PublicMetrics for TLC.                                     *)
EXTENDS PublicMetrics, TLC

CONSTANTS a, b, c

(* Under the first key a and b share the base prefix, and so does c's      *)
(* under the second; the next step tells them apart.                       *)
Colliding ==
    [v \in 1..2 |-> IF v = 1 THEN (a :> <<0, 1>>) @@ (b :> <<0, 2>>) @@ (c :> <<1, 1>>)
                    ELSE (a :> <<2, 1>>) @@ (b :> <<3, 2>>) @@ (c :> <<0, 3>>)]
=============================================================================
