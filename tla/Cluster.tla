------------------------------ MODULE Cluster -------------------------------
(***************************************************************************)
(* src/cluster.rs: the nodes of a cluster, kept in nodes.json.             *)
(*                                                                         *)
(* Every `rmdadm cluster join|leave` and every REST request makes a        *)
(* ClusterManager of its own: it loads the whole file, changes its copy,   *)
(* and saves the whole copy.  No lock protects the file.  A save is        *)
(* File::create (which truncates) followed by the writes of the            *)
(* serializer, token by token, and a load reads byte by byte: one that     *)
(* meets another's save ends in spliced bytes.                             *)
(*                                                                         *)
(* Abstractions: an entry is the address of its node (is_active is always  *)
(* true); an absent file and an empty list are the same, since load_nodes  *)
(* returns no nodes for both; listing changes nothing.  What spliced bytes *)
(* say is not worked out: names and addresses of different length make up  *)
(* others, so they may parse as any list.  The snapshot that sync writes,  *)
(* which no command reads back, is left out.                               *)
(***************************************************************************)
CONSTANTS
  Procs,       \* invocations of the cluster commands
  Nodes,       \* node ids, those that splices make up included
  Addresses,   \* socket addresses, likewise
  NoAddress    \* the entry of a node that is not listed

ASSUME ClusterAssumption == NoAddress \notin Addresses

VARIABLES
  file,     \* {book} where book is what load_nodes returns, {} if it fails
  exact,    \* whether no splice went into the file (only observed)
  run,      \* run[p]: where invocation p is, and its copy of the list
  joined    \* what was ever asked for in a join (only observed)

vars == <<file, exact, run, joined>>

-----------------------------------------------------------------------------
(* Data. *)

Entry == Addresses \cup {NoAddress}
Book == [Nodes -> Entry]
Empty == [n \in Nodes |-> NoAddress]
Listed(book) == {n \in Nodes : book[n] # NoAddress}

(* node and address are the change.  met: the load or the save under way   *)
(* has met another's save.  Only observed: lapped, whether another command *)
(* was active at the same time; exact, whether no splice went into book.   *)
Idle == [pc |-> "idle", book |-> Empty, node |-> NoAddress,
         address |-> NoAddress, met |-> FALSE, lapped |-> FALSE,
         exact |-> TRUE]

RunState ==
  [pc : {"idle", "load", "save", "write"}, book : Book,
   node : Nodes \cup {NoAddress}, address : Entry, met : BOOLEAN,
   lapped : BOOLEAN, exact : BOOLEAN]

(* mutant: leaving keeps the entry, with any address. *)
ChangedKept(book, n, a) ==
  [book EXCEPT ![n] = IF a = NoAddress THEN CHOOSE b \in Addresses : TRUE ELSE a]

(* mutant: the copy starts from nothing instead of from the file. *)
ChangedFresh(book, n, a) == [Empty EXCEPT ![n] = a]

(* insert and remove. *)
Changed(book, n, a) == [book EXCEPT ![n] = a]

(* The other commands that are between the truncation and the last write   *)
(* of a save, and those that p meets in a load too.                        *)
Saving(p) == {q \in Procs \ {p} : run[q].pc = "write"}
Accessing(p) == {q \in Procs \ {p} : run[q].pc \in {"load", "write"}}

(* What bytes of several saves may parse as.                               *)
Spliced == {{}} \cup {{book} : book \in Book}

(* What p finds in the file, and what the file holds when p has written.   *)
Found(p) == IF run[p].met THEN Spliced ELSE {file}
Left(p) == IF run[p].met THEN Spliced ELSE {{run[p].book}}

Become(p, r) == run' = [run EXCEPT ![p] = r]

-----------------------------------------------------------------------------
Init ==
  /\ file = {Empty}
  /\ exact = TRUE
  /\ run = [p \in Procs |-> Idle]
  /\ joined = {}

(* A command, join if a is an address and leave otherwise, opens the file. *)
Begin(p) ==
  LET others == {q \in Procs \ {p} : run[q].pc # "idle"}
  IN  /\ run[p].pc = "idle"
      /\ \E n \in Nodes, a \in Entry :
           /\ run' = [q \in Procs |->
                       IF q = p
                         THEN [Idle EXCEPT !.pc = "load",
                                           !.node = n, !.address = a,
                                           !.met = Saving(p) # {},
                                           !.lapped = others # {}]
                         ELSE [run[q] EXCEPT !.lapped = @ \/ q \in others]]
           /\ joined' = IF a = NoAddress THEN joined ELSE joined \cup {<<n, a>>}
      /\ UNCHANGED <<file, exact>>

(* It has read the file and changes its copy.                              *)
Load(p) ==
  /\ run[p].pc = "load"
  /\ \E found \in Found(p) : \E book \in found :
       Become(p, [run[p] EXCEPT
                    !.pc = "save", !.met = FALSE,
                    !.book = Changed(book, run[p].node, run[p].address),
                    !.exact = exact /\ ~run[p].met])
  /\ UNCHANGED <<file, exact, joined>>

(* A command that cannot load the file is refused.                         *)
Refuse(p) ==
  /\ run[p].pc = "load"
  /\ {} \in Found(p)
  /\ Become(p, Idle)
  /\ UNCHANGED <<file, exact, joined>>

SaveOpen(p) ==
  /\ run[p].pc = "save"
  /\ file' = {}
  /\ exact' = TRUE
  /\ run' = [q \in Procs |->
               IF q = p
                 THEN [run[p] EXCEPT !.pc = "write", !.met = Saving(p) # {}]
                 ELSE [run[q] EXCEPT !.met = @ \/ q \in Accessing(p)]]
  /\ UNCHANGED joined

(* Some of the writes of a save, while others save or after they have.     *)
SavePart(p) ==
  /\ run[p].pc = "write"
  /\ run[p].met
  /\ file' \in Spliced
  /\ exact' = FALSE
  /\ UNCHANGED <<run, joined>>

(* mutant: what the save has met is not forgotten at its end. *)
SaveWriteKeepsMet(p) ==
  /\ run[p].pc = "write"
  /\ file' \in Left(p)
  /\ exact' = (run[p].exact /\ ~run[p].met)
  /\ Become(p, [Idle EXCEPT !.met = run[p].met])
  /\ UNCHANGED joined

SaveWrite(p) ==
  /\ run[p].pc = "write"
  /\ file' \in Left(p)
  /\ exact' = (run[p].exact /\ ~run[p].met)
  /\ Become(p, Idle)
  /\ UNCHANGED joined

(* The process is killed, or a call fails and `?` returns the error.       *)
Die(p) ==
  /\ run[p].pc # "idle"
  /\ Become(p, Idle)
  /\ UNCHANGED <<file, exact, joined>>

Next ==
  \E p \in Procs :
    \/ Begin(p)
    \/ Load(p)
    \/ Refuse(p)
    \/ SaveOpen(p)
    \/ SavePart(p)
    \/ SaveWrite(p)
    \/ Die(p)

Spec == Init /\ [][Next]_vars

-----------------------------------------------------------------------------
(* Properties. *)

(* The values the variables take: only a load or an open save can meet     *)
(* another's, and a truncated file holds nothing that is spliced.          *)
TypeOK ==
  /\ file = {} \/ \E book \in Book : file = {book}
  /\ exact \in BOOLEAN
  /\ run \in [Procs -> RunState]
  /\ \A p \in Procs : run[p].met => run[p].pc \in {"load", "write"}
  /\ joined \subseteq Nodes \X Addresses

(* Unless a splice went into it, the list that can be read back names only *)
(* nodes that somebody joined, at an address that was given for that node: *)
(* commands may overlap and undo each other's changes, and die anywhere,   *)
(* but only a load or a save that meets another's save makes up entries    *)
(* (cluster.rs saves what it loaded and was asked for).                    *)
ListedWasJoined ==
  exact => \A book \in file : \A n \in Listed(book) : <<n, book[n]>> \in joined

(* A command that overlaps no other is atomic: it loads, changes and saves *)
(* the list as if in one step, and what was acknowledged before stays.     *)
(* Between the truncation and the last write nobody can load the file, so  *)
(* the change is taken to happen at the truncation.                        *)
Writer == {p \in Procs : run[p].pc = "write" /\ ~run[p].lapped}
List == IF Writer # {} THEN {run[p].book : p \in Writer} ELSE file
At == [idle |-> "out", load |-> "in", save |-> "in", write |-> "done"]
Client == [p \in Procs |->
             [at |-> At[run[p].pc], node |-> run[p].node,
              address |-> run[p].address, lapped |-> run[p].lapped]]
Promise == INSTANCE Registry WITH list <- List, client <- Client
AtomicUnlessLapped == Promise!Spec
=============================================================================
