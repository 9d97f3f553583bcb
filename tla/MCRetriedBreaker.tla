-------------------------- MODULE MCRetriedBreaker --------------------------
EXTENDS RetriedBreaker

CONSTANTS p1, c1

\* errors.New makes an errorString, fmt.Errorf with one %w a wrapError.
MCTypeOf == [e \in {"open", "transient", "fatal", "panic", "timeout"} |->
                IF e \in {"panic", "timeout"} THEN "wrapError" ELSE "errorString"]
=============================================================================
