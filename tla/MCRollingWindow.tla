---------------------------- MODULE MCRollingWindow ---------------------------
(* Two analyses sync one asset over five days, with a window, an overlap and *)
(* a ttl short enough for observations to leave each of them.               *)
EXTENDS RollingWindow, TLC

Symmetric == Permutations(Sessions)
==============================================================================
