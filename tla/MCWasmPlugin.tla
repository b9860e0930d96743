---------------------------- MODULE MCWasmPlugin ----------------------------
EXTENDS WasmPlugin, TLC
CONSTANTS h1, h2
Symmetric == Permutations({h1, h2})
=============================================================================
