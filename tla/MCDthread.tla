----------------------------- MODULE MCDthread ------------------------------
EXTENDS DthreadLife, DthreadInv
=============================================================================
