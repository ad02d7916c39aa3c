---------------------------- MODULE MCRegistrations ----------------------------
(* Registrations on a small instance.                                      *)
EXTENDS Registrations, TLC

\* A publisher, a subscriber of a reserved topic, and a list that is denied.
SmallTopics ==
  {[publish |-> {"own"}, subscribe |-> {}],
   [publish |-> {}, subscribe |-> {"reserved"}],
   [publish |-> {"nested"}, subscribe |-> {}]}

AddonSymmetry == Permutations(Addons)
=============================================================================
