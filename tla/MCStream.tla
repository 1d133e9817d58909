------------------------------ MODULE MCStream ------------------------------
(* CuuidStream over payloads of every length whose first byte is at an edge *)
(* of a room of the table, followed by zeros or by ones.                    *)
EXTENDS CuuidStream

\* k significant bytes: the first, a filling, and a last one.
Payload(k, first, fill, end) ==
    [i \in 1 .. PAYLOAD |->
        CASE i = PAYLOAD         -> IF k = 1 /\ first # 0 THEN first ELSE end
          [] i = PAYLOAD + 1 - k -> first
          [] i > PAYLOAD + 1 - k -> fill
          [] OTHER               -> 0]
    \o <<>>

PayloadsOf(firsts, fills, ends) ==
    { w \in { Payload(k, b, f, e) : k \in 1 .. PAYLOAD, b \in firsts,
                                    f \in fills, e \in ends } :
        PayloadOK(w) }

\* Both sides of every room of the table.
EdgeBytes == {1, 2, 3, 4, 15, 16, 31, 32, 63, 64, 255}

EdgePayloads == PayloadsOf(EdgeBytes, {0}, {0}) \cup PayloadsOf(EdgeBytes, {255}, {255})

\* An expanded payload of small bytes and a compact one of large bytes per size.
FewPayloads == PayloadsOf({1}, {0}, {0}) \cup PayloadsOf({255}, {255}, {255})

\* A random (version 4) id whose bytes look like leads and tags.
SomeRaws == { [i \in 1 .. PAYLOAD |-> 16 * i - 15] \o <<>> }

\* Leads of every kind (unknown, full, short, long) and too few or more than
\* enough bytes after them.
SomeJunk ==
    { <<lead>> \o [i \in 1 .. n |-> 0] : lead \in {0, 1, 2, 12, 28, 255},
                                       n \in {0, 1, 3, 17} }

NoJunk == {}

\* Only the writer at work.
WriteSpec == Init /\ [][Write]_vars
=============================================================================
