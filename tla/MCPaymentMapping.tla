--------------------------- MODULE MCPaymentMapping ---------------------------
EXTENDS PaymentMapping

\* Below, at and above zero, half a cent and the limit of ten units.
Boundaries == {-10, 0, 4, 5, 10, 14, 15, 1000, 9994, 9995, 10000}

=============================================================================
