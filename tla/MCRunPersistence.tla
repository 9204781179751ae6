-------------------------- MODULE MCRunPersistence --------------------------
(***************************************************************************)
(* Two reactions; every session may crash or raise anywhere.  Three        *)
(* sessions of two steps with frames on another cadence than the           *)
(* checkpoints, so that the last step may lie on both, on one or on        *)
(* neither; and two sessions of three steps with the two cadences equal,   *)
(* so that closing marks a frame whose bytes a checkpoint refers to.       *)
(***************************************************************************)
EXTENDS RunPersistence, TLC

Configured(steps, every, dump, most) ==
  [steps |-> steps, every |-> every, dump |-> dump, sessions |-> most]

MCConfigurations == {Configured(2, 2, 3, 3), Configured(3, 2, 2, 2)}

\* A checkpoint at every step.
EveryStep == {Configured(2, 1, 3, 2)}
=============================================================================
