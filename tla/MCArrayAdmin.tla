---------------------------- MODULE MCArrayAdmin ----------------------------
(* Small instances of ArrayAdmin for TLC. *)
EXTENDS ArrayAdmin

CONSTANTS d1, d2

Ask(op) ==
  [op |-> op, dry |-> FALSE, force |-> FALSE,
   fail |-> <<>>, remove |-> <<>>, add |-> <<>>, disk |-> None, slot |-> None,
   loc |-> "+0", chunk |-> None, target |-> [a \in Attrs |-> None],
   delta |-> None]

(* A disk replaced in one command, two failed at once, one added.          *)
Disk ==
  {[Ask("manage") EXCEPT !.fail = <<d1>>, !.remove = <<d1>>, !.add = <<d1, d2>>],
   [Ask("manage") EXCEPT !.fail = <<d1, d2>>],
   [Ask("manage") EXCEPT !.add = <<d2>>, !.dry = TRUE],
   Ask("stop")}
Spare ==
  {[Ask("add_spare") EXCEPT !.disk = d2],
   [Ask("remove_spare") EXCEPT !.disk = d2],
   [Ask("activate_spare") EXCEPT !.disk = d2],
   [Ask("activate_spare") EXCEPT !.disk = d2, !.slot = 1]}
Bitmap ==
  {[Ask("add_bitmap") EXCEPT !.chunk = 128],
   [Ask("add_bitmap") EXCEPT !.loc = "file"],
   [Ask("add_bitmap") EXCEPT !.chunk = 3],
   [Ask("add_bitmap") EXCEPT !.chunk = 8, !.dry = TRUE],
   Ask("remove_bitmap"), Ask("clear_bitmap")}
Geometry ==
  {[Ask("reshape") EXCEPT !.target["level"] = 5, !.delta = 1, !.force = TRUE],
   [Ask("reshape") EXCEPT !.delta = -1],
   [Ask("reshape") EXCEPT !.delta = 1, !.dry = TRUE],
   [Ask("reshape") EXCEPT !.target["chunk_size"] = 64, !.target["layout"] = 2]}

Every == Disk \cup Spare \cup Bitmap \cup Geometry \cup {Ask("scrub")}
Failing == {[Ask("manage") EXCEPT !.fail = <<d1, d2>>]}
=============================================================================
