-------------------------- MODULE MCFlashNamespace --------------------------
(* FlashNamespace on small instances. *)
EXTENDS FlashNamespaceHistory

CONSTANTS chip_factory, chip_config, BEKEN0, ns1, ns2, n1, n2, b1, b2

\* Two values of one byte and one of two bytes: programming one over another
\* leaves a byte that neither has.
MCBits == {b1, b2}
MCValues == {<<{b1}>>, <<{b2}>>, <<{}, {b1}>>}
MCReadLens == {1, 2}
MCTwoValues == {<<{b1}>>, <<{b2}, {b1}>>}

\* Power is lost in one of two namespaces, one of them with two names.
PowerNamespaces == {chip_factory, ns1, ns2}
PowerAccesses == {<<ns1, n1>>, <<ns1, n2>>, <<ns2, n1>>}
PowerLong == {n2}

\* One namespace.
BlockNamespaces == {chip_factory, ns1}
BlockAccesses == {<<ns1, n1>>, <<ns1, n2>>}
NoBeken == [r \in {} |-> ns1]

\* Three namespaces for two blocks, one of them behind a reserved name, and
\* the factory partition.  One block gets two names and is compacted.
MapNamespaces == {chip_factory, chip_config, BEKEN0, ns1, ns2}
MapBeken == [r \in {chip_config} |-> BEKEN0]
MapAccesses == {<<chip_factory, n1>>, <<chip_config, n1>>, <<ns1, n1>>, <<ns1, n2>>, <<ns2, n1>>}
MapLong == {n2, ns2}
==================================================================
