---------------------------- MODULE MCDhcpServer ----------------------------
(* Small instances of DhcpServer.                                          *)
EXTENDS DhcpServer, TLC

CONSTANTS m1, m2, m3

TwoMacs == {m1, m2}
ThreeMacs == {m1, m2, m3}
OneMac == {m1}
NoMacs == {}
MacSymmetry == Permutations(Macs)

\* Nothing, the AP's own address, the broadcast address of eight, a usable
\* address, one of another network.
RememberedAnything == {NoIp, 1, 5, 7, Outside}
RememberedSome == {NoIp, 4, 5, Outside}
RememberedOne == {NoIp, 4}

\* Messages that may be on their way to the server together.
CONSTANT MaxInFlight
FewInFlight == Cardinality(requests) <= MaxInFlight

=============================================================================
