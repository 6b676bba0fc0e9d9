------------------------------ MODULE MCDetector ------------------------------
(* The two parts of the infection detector, on small inputs of their own: a  *)
(* behaviour is one of a single part.                                        *)
EXTENDS HashReader, DetectorWalk

VARIABLE part   \* hash or walk

Arcs == [kind : {"arc"}, size : {2}, data : {0}, hasData : {FALSE}, last : {TRUE}, ok : {TRUE},
         encrypted : BOOLEAN, volumes : BOOLEAN]
Block(kind, cells, data, ends, ok) ==
    [kind |-> kind, size |-> cells, data |-> data, last |-> ends, ok |-> ok,
     hasData |-> data > 0 \/ kind \in {"file", "dir"}, encrypted |-> TRUE, volumes |-> FALSE]
Inner == {Block("file", s, d, l, k) : s \in {3, 4}, d \in {0, 6}, l \in BOOLEAN, k \in BOOLEAN}
         \cup {Block("dir", 3, 0, TRUE, TRUE)}
         \cup {Block("service", 2, d, TRUE, TRUE) : d \in {0, 2, 5, 6}}
         \cup {[Block("service", 2, 0, TRUE, TRUE) EXCEPT !.hasData = TRUE]}
         \cup {[Block("arc", 2, 0, TRUE, TRUE) EXCEPT !.encrypted = FALSE], Block("arc", 2, 0, TRUE, TRUE)}
Ends == {<<>>} \cup {<<Block("end", 2, 0, l, TRUE)>> : l \in BOOLEAN}
Middles == {<<x>> : x \in Inner} \cup {<<x, y>> : x \in Inner, y \in Inner}
           \cup {<<Block("file", 3, 2, TRUE, FALSE), x, Block("file", 4, 0, TRUE, TRUE)>> : x \in Inner}
MCArchives ==
    [blocks : {<<a>> \o m \o e : a \in Arcs, m \in Middles, e \in Ends}, damaged : {0}, cut : {0}]
    \cup {[blocks |-> <<[Block("arc", 2, 0, TRUE, TRUE) EXCEPT !.volumes = v]>> \o m
                        \o <<Block("end", 2, 0, TRUE, TRUE)>>,
           damaged |-> x[1], cut |-> x[2]]
          : v \in BOOLEAN, m \in Middles, x \in {<<1, 0>>, <<2, 0>>, <<3, 0>>, <<0, 1>>, <<0, 2>>, <<0, 4>>}}

WalkOff == /\ archive = [blocks |-> <<>>, damaged |-> 1, cut |-> 0] /\ at = "off"
           /\ file = [pos |-> 0, buffered |-> 0] /\ checked = <<>>
           /\ crypto = FALSE /\ dataSize = 0 /\ multi = FALSE
HashOff == Init /\ chunks = <<>> /\ whole /\ size = 0 /\ last
-----------------------------------------------------------------------------
MCInit == \/ part = "hash" /\ Init /\ WalkOff
          \/ part = "walk" /\ WInit /\ HashOff
MCNext == /\ part' = part
          /\ \/ part = "hash" /\ Next /\ UNCHANGED wvars
             \/ part = "walk" /\ WNext /\ UNCHANGED vars
=============================================================================
