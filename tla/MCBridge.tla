------------------------------- MODULE MCBridge -------------------------------
(* Small instances of the bridge: councils of two, three and four SONs.  A   *)
(* behaviour follows one transfer or one change of the wallet, so that the   *)
(* numbers of their states add up and do not multiply.                       *)
EXTENDS SonBridge, TLC

CONSTANTS s1, s2, s3, s4, d1, d2, w1

MCCouncils == << {s1, s2, s3, s4}, {s1, s2}, {s1, s2, s3}, {s3} >>

MCPlans ==
    { [does |-> {d1}, from |-> 1, to |-> 2],
      [does |-> {d1, "late"}, from |-> 2, to |-> 4],
      [does |-> {d1, "restart"}, from |-> 3, to |-> 3],
      [does |-> {d2}, from |-> 3, to |-> 3],
      [does |-> {w1, "late"}, from |-> 2, to |-> 2],
      [does |-> {w1}, from |-> 2, to |-> 3],
      [does |-> {w1, "restart"}, from |-> 2, to |-> 2],
      [does |-> {"wallet"}, from |-> 2, to |-> 4] }

MCTimely ==
    { [does |-> {d1, "timely"}, from |-> 3, to |-> 3],
      [does |-> {w1, "timely"}, from |-> 2, to |-> 2] }

Symm == Permutations({s1, s2})
=============================================================================
