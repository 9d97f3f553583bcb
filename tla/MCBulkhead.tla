----------------------------- MODULE MCBulkhead -----------------------------
EXTENDS Bulkhead

CONSTANTS c1, c2, c3
=============================================================================
