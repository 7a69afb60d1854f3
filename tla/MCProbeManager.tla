--------------------------- MODULE MCProbeManager ---------------------------
(* Small instances of ProbeManager.                                        *)
EXTENDS ProbeManager

CONSTANTS k1, k2

MCOneKey  == {k1}
MCTwoKeys == {k1, k2}
MCNoStatuses == {}
MCDisabled == {-2}
MCHashes2 == 1..2
MCHashes3 == 1..3

(* Two hashes with the same timestamp and one before them; an answer of    *)
(* 200, an answer of 401 and a transport failure without a code.           *)
MCPayload(ks) ==
    {[key |-> k, ts |-> t, failed |-> f, code |-> c] :
        k \in ks, t \in {1, 2}, f \in {FALSE}, c \in {200, 401}}
    \cup {[key |-> k, ts |-> 2, failed |-> TRUE, code |-> 0] : k \in ks}

MCPayloadsOne == MCPayload({k1})
MCPayloadsTwo ==
    {[key |-> x[1], ts |-> 1, failed |-> FALSE, code |-> x[2]] :
        x \in {<<k1, 200>>, <<k1, 401>>, <<k2, 200>>}}

MCRow(s, x) == [status |-> s, priority |-> 1, expires |-> x]
MCUnknown    == {MCRow(0, 0)}
MCTwoRows    == {MCRow(1, 2)}

=============================================================================
