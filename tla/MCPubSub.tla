------------------------------- MODULE MCPubSub -------------------------------
EXTENDS PubSub

CONSTANTS m1, m2, s1, s2

\* The first message is for both subscriptions, the second for one, and that
\* one asks for messages that have not been retried.
MCMatches       == {<<m1, s1>>, <<m1, s2>>, <<m2, s1>>}
MCMaxRetryCount == [s \in Subs |-> IF s = s1 THEN 1 ELSE 0]
=============================================================================
