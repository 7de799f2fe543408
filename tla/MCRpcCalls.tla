------------------------------ MODULE MCRpcCalls ------------------------------
EXTENDS RpcCalls

CONSTANTS c1, c2

TwoCalls == {c1, c2}
JustOne  == {c1}
=============================================================================
