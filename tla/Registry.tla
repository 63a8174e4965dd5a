------------------------------ MODULE Registry ------------------------------
(***************************************************************************)
(* What cluster.rs promises of the list of nodes: a command that overlaps  *)
(* no other one takes effect as a whole and at once, on the list as it is. *)
(* Commands that overlap may leave anything behind; one that is cut off    *)
(* while it saves leaves a list that nobody can read.                      *)
(***************************************************************************)
CONSTANTS Procs, Nodes, Addresses, NoAddress

VARIABLES
  list,    \* {book} where book is the content of the list, {} if unreadable
  client   \* client[p]: the command p runs

avars == <<list, client>>

Book == [Nodes -> Addresses \cup {NoAddress}]

Out(p) == client[p].at = "out"
Exits(p) == client' = [client EXCEPT ![p] = client'[p]] /\ client'[p].at = "out"
Moves(p) == \E at \in {"in", "done"} : client' = [client EXCEPT ![p].at = at]

Init ==
  /\ list = {[n \in Nodes |-> NoAddress]}
  /\ client = [p \in Procs |-> [at |-> "out", node |-> NoAddress,
                                address |-> NoAddress, lapped |-> FALSE]]

(* p sets out to give a node an address, or none.  What it finds being     *)
(* saved overlaps from then on, and may be lost.                           *)
Enter(p) ==
  LET others == {q \in Procs \ {p} : ~Out(q)}
  IN  /\ Out(p)
      /\ \E n \in Nodes, a \in Addresses \cup {NoAddress} :
           client' = [q \in Procs |->
                       IF q = p
                         THEN [at |-> "in", node |-> n, address |-> a,
                               lapped |-> others # {}]
                         ELSE [client[q] EXCEPT !.lapped = @ \/ q \in others]]
      /\ \/ UNCHANGED list
         \/ list' = {} /\ \E q \in others : client[q].at = "done"

Apply(p) ==
  /\ client[p].at = "in"
  /\ ~client[p].lapped
  /\ \E book \in list :
       list' = {[book EXCEPT ![client[p].node] = client[p].address]}
  /\ client' = [client EXCEPT ![p].at = "done"]

(* p reports success, or gives up before it has changed anything.          *)
Exit(p) ==
  /\ ~Out(p)
  /\ Exits(p)
  /\ UNCHANGED list

(* p dies while it saves.                                                  *)
Cut(p) ==
  /\ client[p].at = "done"
  /\ Exits(p)
  /\ list' = {}

(* Of an overlapping command nothing is promised.                          *)
Disturb(p) ==
  /\ client[p].lapped
  /\ Moves(p) \/ Exits(p)
  /\ list' = {} \/ \E book \in Book : list' = {book}

Next ==
  \E p \in Procs : Enter(p) \/ Apply(p) \/ Exit(p) \/ Cut(p) \/ Disturb(p)

Spec == Init /\ [][Next]_avars
=============================================================================
