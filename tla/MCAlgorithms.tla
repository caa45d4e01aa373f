---------------------------- MODULE MCAlgorithms ----------------------------
(* Algorithms over all short streams of two letters, every number of eight bits,
   and labels around the size of the buffer names are written with. *)
EXTENDS Algorithms

a == 97
b == 98
MCStreams == {s \in BoundedSeq({a, b}, 7) : Len(s) >= 5}
               \cup {s \o <<Timeout>> \o t : s, t \in BoundedSeq({a, b}, 2)}
MCWords == {<<>>, <<a>>, <<b, b>>, <<a, a, b>>, <<a, b, a, a>>, <<a, a, b, a, a>>}
MCNumbers == -128 .. 127
MCJunk == {<<>>, <<Space>>, <<a, Comma, Dot>>}
MCTails == {<<>>, <<Timeout, a>>, <<a, Zero>>, <<Dot, Zero>>, <<Minus, Zero>>}
MCLines == BoundedSeq({a, NewLine, Timeout}, 5)
MCTexts == BoundedSeq({Zero + 2, Dot, a}, 7) \cup BoundedSeq({Zero, Zero + 6, Minus, a}, 4)
             \cup {<<50, 53, 54, Dot, 49, Dot, 49, Dot, 49>>, <<49, Dot, 49, Dot, 49, Dot, 50, 53, 54>>}
MCAddressBytes == {0, 9, 10, 199, 255}
MCLabelSet == {<<a>>, <<b, a>>} \cup {[k \in 1 .. n |-> a] : n \in {12, 13, 24}}
MCWordBytes == {0, 1, 90, 127}

\* Two hosts whose names share a beginning; one with a free slot among its records.
Service(name, port, proto, text) == [name |-> name, port |-> port, proto |-> proto, text |-> text]
web == <<95, 104>>
MCHosts ==
  { [name |-> <<a, b>> \o local, ip |-> <<10, 0, 0, 1>>,
     services |-> << Service(<<b, Dot>> \o web, 80, "TCP", <<a, a>>), None,
                     Service(<<a, b, Dot>> \o web, 81, "UDP", <<>>) >>],
    [name |-> <<a>> \o local, ip |-> <<10, 0, 0, 2>>, services |-> <<None>>] }
MCJunk8 == {[ip |-> 0, port |-> 7], [ip |-> 5, port |-> 8]}
=============================================================================
