-------------------------- MODULE MCRunLifecycle --------------------------
(* Two processes, the first one with two threads. *)
EXTENDS RunLifecycle, TLC

CONSTANTS a, b, c, x, y

MCActors == {a, b, c}
MCProcessOf == a :> "p" @@ b :> "p" @@ c :> "q"

(* The threads of one process are interchangeable, and so are the reactions. *)
Interchangeable ==
    {f @@ g : f \in Permutations({a, b}), g \in Permutations({x, y})}
===========================================================================
