---------------------------- MODULE MCDesiredState ----------------------------
(* Values for TLC: three groups and an unknown one; a chain, as in           *)
(* manifest.json, and a cycle that also needs the unknown group.             *)
EXTENDS DesiredState

MCManifests ==
  {[supported |-> {"broker", "tools", "observer"}, required |-> {"broker", "observer"},
    deps |-> [broker |-> <<>>, tools |-> <<>>, observer |-> <<"tools">>]],
   [supported |-> {"broker", "tools", "observer"}, required |-> {"tools"},
    deps |-> [broker |-> <<"observer">>, tools |-> <<"gone", "observer">>,
              observer |-> <<"tools">>]]}
MCGroupIds == {"broker", "tools", "observer", "gone"}
MCSelections == {<<>>, <<"observer", "gone">>, <<"tools">>}
=============================================================================
