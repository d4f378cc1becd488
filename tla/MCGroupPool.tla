---------------------------- MODULE MCGroupPool ----------------------------
(* One group for TLC: percentages in tens, a quota of two workers; the load 9 is past
   the veto, 10 past the restart. *)
EXTENDS GroupPool, TLC
CONSTANTS u1, u2

MCOff == [close |-> None, reopen |-> 4, spare |-> 4, offload |-> None,
          veto |-> 8, restart |-> 9, heads |-> 1]
MCOn == [close |-> 7, reopen |-> 4, spare |-> 4, offload |-> 8,
         veto |-> 8, restart |-> 9, heads |-> 2]
MCPolicies == {MCOff, MCOn}
=============================================================================
