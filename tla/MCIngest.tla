------------------------------ MODULE MCIngest ------------------------------
EXTENDS IngestProperties

MCMaxLen == [l \in Lanes |-> IF l = "main" THEN 1 ELSE 2]
=============================================================================
