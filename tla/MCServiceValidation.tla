------------------------- MODULE MCServiceValidation -------------------------
(* ServiceValidation with one elder and one adult, three queries.          *)
EXTENDS ServiceValidation

CONSTANTS e1, a1, q1, q2, q3

MCNodes == {e1, a1}
MCElders == {e1}
MCQueries == {q1, q2, q3}

=============================================================================
