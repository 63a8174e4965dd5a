----------------------------- MODULE MCArrayOps -----------------------------
(* Small instances of ArrayOps for TLC. *)
EXTENDS ArrayOps, TLC

CONSTANTS p1, p2, d1, d2, d3, md0, md1, mdU, u, v, w

ByPath == IF d3 \in Disks THEN <<d1, d2, d3>> ELSE <<d1, d2>>
ByEntry == IF d3 \in Disks THEN <<d2, d3, d1>> ELSE <<d2, d1>>
Names == [x \in UUIDs |-> IF x = u THEN mdU ELSE md1]
Interchangeable == Permutations(Procs)

(* On the disks: set u is d1 and d2, in this order, at the 1.2 location;   *)
(* d3 is left over from the two-disk set v.                                *)
At(minor, uuid, number) ==
  [k \in Minors |->
     IF k = minor THEN [uuid |-> uuid, number |-> number, disks |-> 2]
                  ELSE Blank]
NoSuper == [k \in Minors |-> Blank]
InOrder == [d \in Disks |-> IF d = d1 THEN At(2, u, 0)
                            ELSE IF d = d2 THEN At(2, u, 1) ELSE At(2, v, 0)]
BlankDisks == [d \in Disks |-> NoSuper]

On(m, list, k) == [md |-> m, comps |-> list, minor |-> k]
Ask(op, todo) == [op |-> op, dry |-> FALSE, todo |-> todo]
Dry(r) == [r EXCEPT !.dry = TRUE]

(* Assembles of the set, of the set and a stranger, and of the set under   *)
(* another name with the disks in the other order.                         *)
Assembles ==
  {Ask("assemble", <<On(md0, <<d1, d2>>, 2)>>),
   Ask("assemble", <<On(md0, <<d2, d3>>, 2)>>),
   Ask("assemble", <<On(md1, <<d2, d1>>, 2)>>)}

(* Everything one administrator may ask for, dry or not.                   *)
Wet ==
  {Ask("create", <<On(md0, <<d1, d3>>, 0)>>),
   Ask("create", <<On(md1, <<d3, d2>>, 2)>>),
   Ask("assemble", <<On(md0, <<d1, d2>>, 2)>>),
   Ask("auto", <<On(None, <<d2>>, 2)>>),
   Ask("apply", <<On(md0, <<d1, d3>>, 1), On(md1, <<d2>>, 2)>>)}
Everything == Wet \cup {Dry(r) : r \in Wet}

CreateReversed == {Ask("create", <<On(md0, <<d2, d1>>, 2)>>)}
Applies == {Ask("apply", <<On(md0, <<d1, d2>>, 2)>>)}
=============================================================================
