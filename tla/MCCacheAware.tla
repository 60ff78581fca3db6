---------------------------- MODULE MCCacheAware ----------------------------
EXTENDS CacheAware
\* Texts that split each other's nodes.
SomeTexts == {<<"a", "b", "c">>, <<"a", "b">>, <<"a", "d">>}
TwoModels == <<"m", "m", "n">>
\* Two balanced loads and an imbalanced one.
SomeLoads == {<<0, 1, 1>>, <<2, 0, 2>>}
=============================================================================
