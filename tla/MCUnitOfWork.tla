----------------------------- MODULE MCUnitOfWork -----------------------------
EXTENDS UnitOfWork, TLC

CONSTANTS m1, m2, m3, t1, t2

\* Two models of one class and one of another, so that either may lack a mapper.
TwoClasses == m1 :> t1 @@ m2 :> t1 @@ m3 :> t2

Symmetry == Permutations({m1, m2})

=============================================================================
