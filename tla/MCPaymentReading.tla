--------------------------- MODULE MCPaymentReading ---------------------------
EXTENDS PaymentReading, TLC

CONSTANTS c1, c2

\* Clients do the same GETs; payments differ in what reading them meets.
Symmetry == Permutations({c1, c2})

=============================================================================
