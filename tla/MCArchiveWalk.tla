--------------------------- MODULE MCArchiveWalk ----------------------------
(* Archives of two files, cut into at most three volumes in every way, in    *)
(* both formats and naming schemes; and a plain one of each format with one  *)
(* fault at every place.  The first file has two units, or three, of which   *)
(* each volume has one.                                                      *)
EXTENDS ArchiveWalk, FiniteSets

FilesOf(s) == <<[name |-> "a", size |-> s.size], [name |-> "b", size |-> 1]>>
Stream(s) == [k \in 1..s.size |-> <<"a", k>>] \o <<<<"b", 1>>>>

Shapes == [fmt : {15, 50}, enc : BOOLEAN, mode : {"stored", "packed", "solid"},
           ends : BOOLEAN, naming : {"new", "old", "oldDigits"}, cuts : SUBSET {1, 2},
           service : BOOLEAN, size : {2, 3}]
Plain(s) == s.naming = "new" /\ ~s.service /\ s.mode # "packed"
Shape(s) == /\ s.fmt = 50 => s.ends
            /\ s.size = 3 => Plain(s) /\ s.cuts = {1, 2}

VolumesOf(s) == Cardinality(s.cuts) + 1
Bounds(s) == <<0>> \o SetToSortSeq(s.cuts, <) \o <<s.size + 1>>
Scheme(s) == IF s.naming = "new" THEN "new" ELSE "old"
NameIn(s, i) == IF i = 1 THEN First ELSE <<Scheme(s), i>>

Piece(s, lo, hi, f) ==
    LET ks == SelectSeq(SubSeq(Stream(s), lo + 1, hi), LAMBDA u : u[1] = f.name)
        head == [t |-> "file", enc |-> s.enc, name |-> f.name, n |-> Len(ks),
                 first |-> ks[1][2] = 1, last |-> ks[Len(ks)][2] = f.size,
                 sum |-> IF ks[Len(ks)][2] = f.size THEN f.name ELSE "part",
                 solid |-> s.mode = "solid" /\ f.name # "a"]
    IN  IF ks = <<>> THEN <<>>
        ELSE <<head>> \o [k \in 1..Len(ks) |-> [t |-> "data", name |-> f.name, k |-> ks[k][2]]]

CellsOf(s, i) ==
    LET arc == [t |-> "arc", enc |-> s.enc /\ s.fmt = 50, crypt |-> s.enc, multi |-> s.cuts # {},
                solid |-> s.mode = "solid", old |-> s.naming # "new"]
        b == Bounds(s)
    IN  (IF s.enc /\ s.fmt = 50 THEN <<[t |-> "key", enc |-> FALSE]>> ELSE <<>>)
        \o <<arc>>
        \o (IF s.service THEN <<[t |-> "service", enc |-> s.enc, n |-> 1], [t |-> "bad"]>> ELSE <<>>)
        \o FlattenSeq([j \in 1..2 |-> Piece(s, b[i], b[i + 1], FilesOf(s)[j])])
        \o (IF s.ends THEN <<[t |-> "end", enc |-> s.enc, more |-> i < VolumesOf(s)]>> ELSE <<>>)

VolsOf(s) == [n \in {NameIn(s, i) : i \in 1..VolumesOf(s)} |-> [sig |-> s.fmt, cells |-> CellsOf(s, n[2])]]

DiskOf(s, vols, exists, fault) ==
    [fmt |-> s.fmt, digits |-> s.naming # "old", vols |-> vols, files |-> FilesOf(s),
     packed |-> s.mode # "stored", exists |-> exists, fault |-> fault]

Spoiled(c) == IF c.t = "data" THEN [c EXCEPT !.t = "spoiled"] ELSE [t |-> "bad"]

Damaged(vols) ==
    {[n \in DOMAIN vols \ {x} |-> vols[n]] : x \in DOMAIN vols \ {First}}
    \cup {[vols EXCEPT ![x].sig = z] : x \in DOMAIN vols \ {First}, z \in {0, 15, 50}}
    \cup UNION {{[vols EXCEPT ![x].cells = SubSeq(@, 1, k - 1)] : k \in DOMAIN vols[x].cells}
                \cup {[vols EXCEPT ![x].cells[k] = Spoiled(@)] : k \in DOMAIN vols[x].cells}
                \cup {[vols EXCEPT ![x].cells[k].t = "refused"] : k \in
                          {k \in DOMAIN vols[x].cells : vols[x].cells[k].t = "file"}}
                : x \in DOMAIN vols}
    \* An end that announces a volume that is not there, with blocks behind it.
    \cup UNION {{[vols EXCEPT ![x].cells = InsertAt(@, k, [t |-> "end", enc |-> @[k].enc, more |-> TRUE])]
                 : k \in {k \in DOMAIN vols[x].cells : vols[x].cells[k].t = "file"}}
                : x \in {x \in DOMAIN vols : \A y \in DOMAIN vols : y[2] <= x[2]}}

MCDisks ==
    LET shapes == {s \in Shapes : Shape(s)}
    IN  {DiskOf(s, VolsOf(s), e, "none") : s \in shapes, e \in {{}, {"a"}}}
        \cup {DiskOf(s, VolsOf(s), {}, "full") : s \in shapes}
        \cup UNION {{DiskOf(s, d, {}, "damaged") : d \in Damaged(VolsOf(s)) \ {VolsOf(s)}}
                    : s \in {s \in shapes : Plain(s)}}
=============================================================================
