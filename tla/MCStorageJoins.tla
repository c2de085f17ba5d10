--------------------------- MODULE MCStorageJoins ---------------------------
EXTENDS StorageJoins

CONSTANTS e1, a1

MCNodes == {e1, a1}
MCElders == {e1}

=============================================================================
