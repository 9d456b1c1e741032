---------------------------- MODULE MCArtifacts ----------------------------
(* Target a in two profiles and target b in one.  The builds of a in the     *)
(* debug profile may be given either of two output directories.              *)
EXTENDS Artifacts, TLC

CONSTANTS debug_a, release_a, debug_b, f1, f2, g1, g2, h1, h2, i1, i2

MCTarget == debug_a :> "a" @@ release_a :> "a" @@ debug_b :> "b"
MCPlans == debug_a :> {<<f1, f2>>, <<g1, g2>>}
           @@ release_a :> {<<h1, h2>>} @@ debug_b :> {<<i1, i2>>}
=============================================================================
