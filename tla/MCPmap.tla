------------------------------- MODULE MCPmap -------------------------------
EXTENDS Pmap

Attached == {<<1, 0>>, <<0, 2>>}
Zero == <<1, 4>>
Perms == Permutations(Spaces)
=============================================================================
