------------------------- MODULE MCDeadLetterQueue -------------------------
EXTENDS DeadLetterQueue

CONSTANTS a, b, w1, w2
=============================================================================
