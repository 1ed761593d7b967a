----------------------------- MODULE MCSampling -----------------------------
(***************************************************************************)
(* Seven cards; doubles have five significant bits and round to even.      *)
(***************************************************************************)
EXTENDS Sampling

MCRounded ==
  [x \in Grid |->
     LET unit  == 2 ^ (CHOOSE e \in 0 .. 6 : x < 32 * 2 ^ e /\ (e = 0 \/ x >= 16 * 2 ^ e))
         below == x \div unit
         past  == 2 * (x % unit)
     IN  IF past < unit \/ (past = unit /\ below % 2 = 0) THEN below * unit
         ELSE (below + 1) * unit]
=============================================================================
