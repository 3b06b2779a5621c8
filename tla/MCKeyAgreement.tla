--------------------------- MODULE MCKeyAgreement ---------------------------
EXTENDS KeyAgreement, TLC

CONSTANTS a, b, c, d

AllDraws == Client \X (1 .. MaxDraws)
AllRoutes == UNION {SetToSeqs(who) : who \in SUBSET Client \ {{}}}
AnyClient == Permutations(Client)
=============================================================================
