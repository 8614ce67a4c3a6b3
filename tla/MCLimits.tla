------------------------------ MODULE MCLimits ------------------------------
(* Instances of Limits: limits of a few bytes, increased in small steps.      *)
EXTENDS Limits
MCUnackedIncrease == {[consecutive |-> 0, percent |-> 150],
                      [consecutive |-> 1, percent |-> 200]}
=============================================================================
