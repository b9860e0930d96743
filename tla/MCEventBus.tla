----------------------------- MODULE MCEventBus -----------------------------
(* The bus with one typed, certainty-filtered subscription and one         *)
(* catch-all subscription.                                                 *)
EXTENDS EventBus, TLC

CONSTANTS s1, s2, goal, clock

MCSubType == (s1 :> goal) @@ (s2 :> AnyType)
MCMinCert == (s1 :> 0) @@ (s2 :> 2)
MCEvents  == {[type |-> goal, cert |-> c] : c \in 0..1}
=============================================================================
