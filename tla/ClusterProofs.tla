--------------------------- MODULE ClusterProofs ----------------------------
(* Theorems about Cluster, for any number of commands, nodes, addresses.   *)
EXTENDS Cluster, TLAPS

Content(f) == f = {} \/ \E book \in Book : f = {book}

(* A save leaves a list, its own or a spliced one, or nothing to load; and *)
(* a load finds no more.                                                   *)
LEMMA OutcomeType ==
  ASSUME TypeOK, NEW p \in Procs
  PROVE  /\ \A f \in Spliced : Content(f)
         /\ \A f \in Left(p) : Content(f)
         /\ \A f \in Found(p) : Content(f)
         /\ \A f : Content(f) => \A book \in f : book \in Book
<1>1. run[p].book \in Book
  BY DEF TypeOK, RunState
<1>2. \A f \in Spliced : Content(f)
  BY DEF Spliced, Content
<1>3. \A f \in Left(p) : Content(f)
  BY <1>1, <1>2 DEF Left, Content
<1>4. \A f \in Found(p) : Content(f)
  BY <1>2 DEF TypeOK, Found, Content
<1> QED
  BY <1>2, <1>3, <1>4 DEF Content

LEMMA IdleType == Idle \in RunState /\ Idle.met = FALSE /\ Idle.exact = TRUE
<1>1. Empty \in Book
  BY DEF Empty, Book, Entry
<1> QED
  BY <1>1 DEF Idle, RunState, Entry

(* What a command is when it has begun.                                    *)
LEMMA BeginRuns ==
  ASSUME TypeOK, NEW p \in Procs, Begin(p)
  PROVE  /\ run[p].pc = "idle"
         /\ file' = file /\ exact' = exact
         /\ run'[p] \in RunState
         /\ run'[p].pc = "load"
         /\ run'[p].met = (Saving(p) # {})
         /\ run'[p].node \in Nodes /\ run'[p].address \in Entry
         /\ run'[p].lapped = (\E q \in Procs : q # p /\ run[q].pc # "idle")
         /\ joined' = IF run'[p].address = NoAddress THEN joined
                      ELSE joined \cup {<<run'[p].node, run'[p].address>>}
<1> DEFINE others == {q \in Procs \ {p} : run[q].pc # "idle"}
<1>1. PICK n \in Nodes, a \in Entry :
        /\ run' = [q \in Procs |->
                    IF q = p
                      THEN [Idle EXCEPT !.pc = "load",
                                        !.node = n, !.address = a,
                                        !.met = Saving(p) # {},
                                        !.lapped = others # {}]
                      ELSE [run[q] EXCEPT !.lapped = @ \/ q \in others]]
        /\ joined' = IF a = NoAddress THEN joined ELSE joined \cup {<<n, a>>}
  BY DEF Begin
<1>2. PICK l \in BOOLEAN : l = (others # {})
  OBVIOUS
<1>3. PICK k \in BOOLEAN : k = (Saving(p) # {})
  OBVIOUS
<1>4. run'[p] = [pc |-> "load", book |-> Empty, node |-> n, address |-> a,
                 met |-> k, lapped |-> l, exact |-> TRUE]
  BY <1>1, <1>2, <1>3 DEF Idle
<1>5. l = (\E q \in Procs : q # p /\ run[q].pc # "idle")
  BY <1>2
<1>6. Empty \in Book
  BY DEF Empty, Book, Entry
<1>7. run'[p] \in RunState
  BY <1>4, <1>6 DEF RunState
<1>8. run[p].pc = "idle" /\ file' = file /\ exact' = exact
  BY DEF Begin
<1>9. /\ run'[p].pc = "load" /\ run'[p].node = n /\ run'[p].address = a
      /\ run'[p].met = k /\ run'[p].lapped = l
  BY <1>4
<1>10. joined' = IF run'[p].address = NoAddress THEN joined
                 ELSE joined \cup {<<run'[p].node, run'[p].address>>}
  BY <1>1, <1>9
<1> QED
  BY <1>3, <1>5, <1>7, <1>8, <1>9, <1>10

(* And what becomes of the others: they are lapped if they are active.     *)
LEMMA BeginOthers ==
  ASSUME TypeOK, NEW p \in Procs, Begin(p), NEW q \in Procs, q # p
  PROVE  /\ run'[q] \in RunState
         /\ run'[q].pc = run[q].pc
         /\ run'[q].book = run[q].book
         /\ run'[q].met = run[q].met
         /\ run'[q].exact = run[q].exact
         /\ run'[q].node = run[q].node
         /\ run'[q].address = run[q].address
         /\ run'[q].lapped = (run[q].lapped \/ run[q].pc # "idle")
<1> DEFINE others == {r \in Procs \ {p} : run[r].pc # "idle"}
<1>1. run[q] \in RunState
  BY DEF TypeOK
<1>2. PICK j \in BOOLEAN : j = (run[q].lapped \/ q \in others)
  OBVIOUS
<1>3. run'[q] = [run[q] EXCEPT !.lapped = j]
  BY <1>2 DEF Begin
<1>4. j = (run[q].lapped \/ run[q].pc # "idle")
  BY <1>2
<1> QED
  BY <1>1, <1>3, <1>4 DEF RunState

LEMMA BeginType ==
  ASSUME TypeOK, NEW p \in Procs, Begin(p)
  PROVE  run' \in [Procs -> RunState]
<1>1. PICK f : run' = [q \in Procs |-> f[q]]
  BY DEF Begin
<1>2. \A q \in Procs : run'[q] \in RunState
  BY BeginRuns, BeginOthers
<1> QED
  BY <1>1, <1>2

(* The copy that a command has when it has loaded.                         *)
LEMMA LoadRuns ==
  ASSUME TypeOK, NEW p \in Procs, Load(p)
  PROVE  /\ run[p].pc = "load"
         /\ file' = file /\ exact' = exact /\ joined' = joined
         /\ run'[p] \in RunState
         /\ run'[p].pc = "save" /\ ~run'[p].met
         /\ run'[p].node = run[p].node /\ run'[p].address = run[p].address
         /\ run'[p].lapped = run[p].lapped
         /\ run'[p].exact = (exact /\ ~run[p].met)
         /\ ~run[p].met => \E book \in file :
              /\ book \in Book
              /\ run'[p].book = [book EXCEPT ![run[p].node] = run[p].address]
         /\ \A q \in Procs : q # p => run'[q] = run[q]
         /\ run' \in [Procs -> RunState]
<1> DEFINE Loaded(book) ==
      [run[p] EXCEPT !.pc = "save", !.met = FALSE,
                     !.book = Changed(book, run[p].node, run[p].address),
                     !.exact = exact /\ ~run[p].met]
<1>0. PICK found \in Found(p) :
        \E book \in found : run' = [run EXCEPT ![p] = Loaded(book)]
  BY DEF Load, Become
<1>1. PICK book \in found : run' = [run EXCEPT ![p] = Loaded(book)]
  BY <1>0
<1>2. run[p] \in RunState /\ run \in [Procs -> RunState] /\ exact \in BOOLEAN
  BY DEF TypeOK
<1>3. book \in Book
  BY OutcomeType
<1>4. PICK new \in Book :
        new = [book EXCEPT ![run[p].node] = run[p].address]
  BY <1>2, <1>3 DEF RunState, Book
<1>5. PICK e \in BOOLEAN : e = (exact /\ ~run[p].met)
  OBVIOUS
<1>6. run'[p] = [run[p] EXCEPT !.pc = "save", !.met = FALSE,
                               !.book = new, !.exact = e]
  BY <1>1, <1>2, <1>4, <1>5 DEF Changed
<1>7. /\ run'[p] \in RunState /\ run'[p].pc = "save" /\ ~run'[p].met
      /\ run'[p].node = run[p].node /\ run'[p].address = run[p].address
      /\ run'[p].lapped = run[p].lapped /\ run'[p].exact = e
      /\ run'[p].book = new
  BY <1>2, <1>6 DEF RunState
<1>8. \A q \in Procs : q # p => run'[q] = run[q]
  BY <1>1, <1>2
<1>9. run' \in [Procs -> RunState]
  BY <1>1, <1>2, <1>7
<1>10. ~run[p].met => book \in file
  BY DEF Found
<1>11. run[p].pc = "load" /\ file' = file /\ exact' = exact /\ joined' = joined
  BY DEF Load
<1> QED
  BY <1>3, <1>4, <1>5, <1>7, <1>8, <1>9, <1>10, <1>11

(* A truncation marks those that it meets and changes nobody's copy.       *)
LEMMA OpenRuns ==
  ASSUME TypeOK, NEW p \in Procs, SaveOpen(p)
  PROVE  /\ run[p].pc = "save" /\ file' = {} /\ exact' /\ joined' = joined
         /\ run'[p].pc = "write" /\ run'[p].met = (Saving(p) # {})
         /\ \A q \in Procs :
              /\ run'[q] \in RunState
              /\ q # p => /\ run'[q].pc = run[q].pc
                          /\ run'[q].met = (run[q].met \/ q \in Accessing(p))
              /\ run'[q].book = run[q].book
              /\ run'[q].node = run[q].node
              /\ run'[q].address = run[q].address
              /\ run'[q].lapped = run[q].lapped
              /\ run'[q].exact = run[q].exact
         /\ run' \in [Procs -> RunState]
<1>1. /\ run[p].pc = "save" /\ file' = {} /\ exact' = TRUE /\ joined' = joined
      /\ run' = [q \in Procs |->
                  IF q = p
                    THEN [run[p] EXCEPT !.pc = "write", !.met = Saving(p) # {}]
                    ELSE [run[q] EXCEPT !.met = @ \/ q \in Accessing(p)]]
  BY DEF SaveOpen
<1>2. PICK k \in BOOLEAN : k = (Saving(p) # {})
  OBVIOUS
<1>3. run'[p] = [run[p] EXCEPT !.pc = "write", !.met = k]
  BY <1>1, <1>2
<1>4. run[p] \in RunState
  BY DEF TypeOK
<1>5. ASSUME NEW q \in Procs, q # p
      PROVE  /\ run'[q] \in RunState
             /\ run'[q].pc = run[q].pc
             /\ run'[q].met = (run[q].met \/ q \in Accessing(p))
             /\ run'[q].book = run[q].book
             /\ run'[q].node = run[q].node
             /\ run'[q].address = run[q].address
             /\ run'[q].lapped = run[q].lapped
             /\ run'[q].exact = run[q].exact
  <2>1. run[q] \in RunState
    BY DEF TypeOK
  <2>2. PICK j \in BOOLEAN : j = (run[q].met \/ q \in Accessing(p))
    OBVIOUS
  <2>3. run'[q] = [run[q] EXCEPT !.met = j]
    BY <1>1, <1>5, <2>2
  <2> QED
    BY <2>1, <2>2, <2>3 DEF RunState
<1>6. /\ run'[p] \in RunState /\ run'[p].pc = "write" /\ run'[p].met = k
      /\ run'[p].book = run[p].book /\ run'[p].node = run[p].node
      /\ run'[p].address = run[p].address /\ run'[p].lapped = run[p].lapped
      /\ run'[p].exact = run[p].exact
  BY <1>3, <1>4 DEF RunState
<1>7. run' \in [Procs -> RunState]
  BY <1>1, <1>5, <1>6
<1> QED
  BY <1>1, <1>2, <1>5, <1>6, <1>7

(* A command that ends is idle, and nobody else has changed.               *)
LEMMA EndRuns ==
  ASSUME TypeOK, NEW p \in Procs, Become(p, Idle)
  PROVE  /\ run'[p] = Idle
         /\ \A q \in Procs : q # p => run'[q] = run[q]
         /\ run' \in [Procs -> RunState]
BY IdleType DEF TypeOK, Become

LEMMA TypeStep == TypeOK /\ [Next]_vars => TypeOK'
<1> SUFFICES ASSUME TypeOK, [Next]_vars
             PROVE  TypeOK'
  OBVIOUS
<1>1. ASSUME NEW p \in Procs, Begin(p)
      PROVE  TypeOK'
  <2>1. joined' \subseteq Nodes \X Addresses
    <3> DEFINE n == run'[p].node
               a == run'[p].address
    <3>1. joined \subseteq Nodes \X Addresses
      BY DEF TypeOK
    <3>2. /\ n \in Nodes /\ a \in Entry
          /\ joined' = IF a = NoAddress THEN joined ELSE joined \cup {<<n, a>>}
      BY <1>1, BeginRuns
    <3> HIDE DEF n, a
    <3>3. CASE a = NoAddress
      BY <3>1, <3>2, <3>3
    <3>4. CASE a # NoAddress
      <4>1. a \in Addresses
        BY <3>2, <3>4 DEF Entry
      <4> QED
        BY <3>1, <3>2, <3>4, <4>1
    <3> QED
      BY <3>3, <3>4
  <2>2. \A q \in Procs : run'[q].met => run'[q].pc \in {"load", "write"}
    <3>1. run'[p].pc = "load"
      BY <1>1, BeginRuns
    <3>2. \A q \in Procs : q # p =>
            run'[q].pc = run[q].pc /\ run'[q].met = run[q].met
      BY <1>1, BeginOthers
    <3> QED
      BY <3>1, <3>2 DEF TypeOK
  <2>3. file' = file /\ exact' = exact
    BY <1>1 DEF Begin
  <2> QED
    BY <1>1, <2>1, <2>2, <2>3, BeginType DEF TypeOK
<1>2. ASSUME NEW p \in Procs, Load(p)
      PROVE  TypeOK'
  <2>1. \A q \in Procs : run'[q].met => run'[q].pc \in {"load", "write"}
    BY <1>2, LoadRuns DEF TypeOK
  <2> QED
    BY <1>2, <2>1, LoadRuns DEF TypeOK
<1>3. ASSUME NEW p \in Procs, SaveOpen(p)
      PROVE  TypeOK'
  <2>1. ASSUME NEW q \in Procs, run'[q].met
        PROVE  run'[q].pc \in {"load", "write"}
    <3>1. CASE q = p
      BY <1>3, <3>1, OpenRuns
    <3>2. CASE q # p
      <4>1. run'[q].pc = run[q].pc /\ (run[q].met \/ q \in Accessing(p))
        BY <1>3, <2>1, <3>2, OpenRuns
      <4> QED
        BY <4>1 DEF TypeOK, Accessing
    <3> QED
      BY <3>1, <3>2
  <2> QED
    BY <1>3, <2>1, OpenRuns DEF TypeOK
<1>4. ASSUME NEW p \in Procs, SavePart(p)
      PROVE  TypeOK'
  <2>1. Content(file')
    BY <1>4, OutcomeType DEF SavePart
  <2> QED
    BY <1>4, <2>1 DEF TypeOK, SavePart, Content
<1>5. ASSUME NEW p \in Procs, Become(p, Idle), joined' = joined,
             Content(file'), exact' \in BOOLEAN
      PROVE  TypeOK'
  <2>1. \A q \in Procs : run'[q].met => run'[q].pc \in {"load", "write"}
    BY <1>5, EndRuns, IdleType DEF TypeOK
  <2> QED
    BY <1>5, <2>1, EndRuns DEF TypeOK, Content
<1>6. ASSUME NEW p \in Procs, SaveWrite(p)
      PROVE  TypeOK'
  <2>1. Content(file')
    BY <1>6, OutcomeType DEF SaveWrite
  <2>2. exact' \in BOOLEAN
    BY <1>6 DEF SaveWrite
  <2> QED
    BY <1>5, <1>6, <2>1, <2>2 DEF SaveWrite
<1>7. ASSUME NEW p \in Procs, Refuse(p) \/ Die(p)
      PROVE  TypeOK'
  BY <1>5, <1>7 DEF Refuse, Die, TypeOK, Content
<1>8. CASE UNCHANGED vars
  BY <1>8 DEF TypeOK, vars
<1> QED
  BY <1>1, <1>2, <1>3, <1>4, <1>6, <1>7, <1>8 DEF Next

(* The type invariant: what can be loaded is one list or nothing, and only *)
(* a load or an open save can meet another's save.                         *)
THEOREM TypeCorrect == Spec => []TypeOK
<1>1. Init => TypeOK
  <2>1. Empty \in Book
    BY DEF Empty, Book, Entry
  <2> QED
    BY <2>1, IdleType DEF Init, TypeOK
<1> QED
  BY <1>1, TypeStep, PTL DEF Spec

-----------------------------------------------------------------------------
(* Where entries come from: not only the file but every copy in which no   *)
(* splice went names only what was joined.                                 *)

Named(book) == \A n \in Listed(book) : <<n, book[n]>> \in joined

AllNamed ==
  /\ exact => \A book \in file : Named(book)
  /\ \A p \in Procs : run[p].exact => run[p].pc = "load" \/ Named(run[p].book)
  /\ \A p \in Procs : run[p].pc # "idle" /\ run[p].address # NoAddress =>
       <<run[p].node, run[p].address>> \in joined

LEMMA NamedStep == TypeOK /\ AllNamed /\ [Next]_vars => AllNamed'
<1> SUFFICES ASSUME TypeOK, AllNamed, [Next]_vars
             PROVE  AllNamed'
  OBVIOUS
<1>0. ASSUME joined \subseteq joined', NEW book, Named(book)
      PROVE  Named(book)'
  BY <1>0 DEF Named, Listed
<1>1. ASSUME NEW p \in Procs, Begin(p)
      PROVE  AllNamed'
  <2>1. joined \subseteq joined'
    BY <1>1 DEF Begin
  <2>2. ASSUME NEW q \in Procs, q # p
        PROVE  /\ (run[q].exact => run[q].pc = "load" \/ Named(run[q].book))'
               /\ run'[q].pc # "idle" /\ run'[q].address # NoAddress =>
                    <<run'[q].node, run'[q].address>> \in joined'
    <3>1. /\ run'[q].pc = run[q].pc /\ run'[q].book = run[q].book
          /\ run'[q].exact = run[q].exact /\ run'[q].node = run[q].node
          /\ run'[q].address = run[q].address
      BY <1>1, <2>2, BeginOthers
    <3>2. ASSUME run[q].exact, run[q].pc # "load"
          PROVE  Named(run[q].book)'
      <4>1. PICK book : book = run[q].book
        OBVIOUS
      <4>2. Named(book)
        BY <3>2, <4>1 DEF AllNamed
      <4>3. Named(book)'
        BY <1>0, <2>1, <4>2
      <4> QED
        BY <3>1, <4>1, <4>3 DEF Named
    <3>3. run[q].pc # "idle" /\ run[q].address # NoAddress =>
            <<run[q].node, run[q].address>> \in joined'
      BY <2>1 DEF AllNamed
    <3> QED
      BY <3>1, <3>2, <3>3
  <2>3. run'[p].pc = "load"
        /\ (run'[p].address # NoAddress =>
              <<run'[p].node, run'[p].address>> \in joined')
    <3>1. /\ run'[p].pc = "load"
          /\ joined' = IF run'[p].address = NoAddress THEN joined
                       ELSE joined \cup {<<run'[p].node, run'[p].address>>}
      BY <1>1, BeginRuns
    <3> QED
      BY <3>1
  <2>4. exact' => \A book \in file' : Named(book)'
    <3>1. file' = file /\ exact' = exact
      BY <1>1 DEF Begin
    <3> QED
      BY <1>0, <2>1, <3>1 DEF AllNamed
  <2>5. ASSUME NEW q \in Procs
        PROVE  /\ (run[q].exact => run[q].pc = "load" \/ Named(run[q].book))'
               /\ run'[q].pc # "idle" /\ run'[q].address # NoAddress =>
                    <<run'[q].node, run'[q].address>> \in joined'
    BY <2>2, <2>3
  <2> QED
    BY <2>4, <2>5 DEF AllNamed
<1>2. ASSUME NEW p \in Procs, Load(p)
      PROVE  AllNamed'
  <2>1. ASSUME run'[p].exact
        PROVE  Named(run'[p].book)
    <3>1. exact /\ ~run[p].met
      BY <1>2, <2>1, LoadRuns
    <3>2. PICK book \in file :
            /\ book \in Book
            /\ run'[p].book = [book EXCEPT ![run[p].node] = run[p].address]
      BY <1>2, <3>1, LoadRuns
    <3>3. Named(book)
      BY <3>1 DEF AllNamed
    <3>4. run[p].pc = "load"
      BY <1>2, LoadRuns
    <3>5. ASSUME NEW k \in Listed(run'[p].book)
          PROVE  <<k, run'[p].book[k]>> \in joined
      <4>1. CASE k = run[p].node
        <5>1. run'[p].book[k] = run[p].address
          BY <3>2, <3>5, <4>1 DEF Book, Listed
        <5>2. run[p].address # NoAddress
          BY <3>5, <5>1 DEF Listed
        <5> QED
          BY <3>4, <4>1, <5>1, <5>2 DEF AllNamed
      <4>2. CASE k # run[p].node
        <5>1. k \in Listed(book) /\ run'[p].book[k] = book[k]
          BY <3>2, <3>5, <4>2 DEF Book, Listed
        <5> QED
          BY <3>3, <5>1 DEF Named
      <4> QED
        BY <4>1, <4>2
    <3> QED
      BY <3>5 DEF Named
  <2>2. ASSUME NEW q \in Procs
        PROVE  /\ run'[q].exact => run'[q].pc = "load" \/ Named(run'[q].book)
               /\ run'[q].pc # "idle" /\ run'[q].address # NoAddress =>
                    <<run'[q].node, run'[q].address>> \in joined
    <3>1. CASE q = p
      BY <1>2, <2>1, <3>1, LoadRuns DEF AllNamed
    <3>2. CASE q # p
      BY <1>2, <3>2, LoadRuns DEF AllNamed
    <3> QED
      BY <3>1, <3>2
  <2>3. file' = file /\ exact' = exact /\ joined' = joined
    BY <1>2, LoadRuns
  <2> QED
    BY <2>2, <2>3 DEF AllNamed, Named
<1>3. ASSUME NEW p \in Procs, SaveOpen(p)
      PROVE  AllNamed'
  <2>1. run[p].pc = "save" /\ file' = {} /\ joined' = joined
    BY <1>3, OpenRuns
  <2>2. ASSUME NEW q \in Procs
        PROVE  /\ run'[q].exact => run'[q].pc = "load" \/ Named(run'[q].book)
               /\ run'[q].pc # "idle" /\ run'[q].address # NoAddress =>
                    <<run'[q].node, run'[q].address>> \in joined
    <3>1. /\ run'[q].book = run[q].book /\ run'[q].exact = run[q].exact
          /\ run'[q].node = run[q].node /\ run'[q].address = run[q].address
          /\ q # p => run'[q].pc = run[q].pc
      BY <1>3, OpenRuns
    <3> QED
      BY <2>1, <3>1 DEF AllNamed
  <2> QED
    BY <2>1, <2>2 DEF AllNamed, Named
<1>4. ASSUME NEW p \in Procs, SavePart(p)
      PROVE  AllNamed'
  BY <1>4 DEF SavePart, AllNamed, Named
<1>5. Named(Empty)
  BY DEF Named, Listed, Empty
<1>6. ASSUME NEW p \in Procs, Become(p, Idle), joined' = joined,
             exact' => \A book \in file' : Named(book)
      PROVE  AllNamed'
  <2>1. Idle.book = Empty /\ Idle.pc = "idle"
    BY DEF Idle
  <2>2. ASSUME NEW q \in Procs
        PROVE  /\ run'[q].exact => run'[q].pc = "load" \/ Named(run'[q].book)
               /\ run'[q].pc # "idle" /\ run'[q].address # NoAddress =>
                    <<run'[q].node, run'[q].address>> \in joined
    BY <1>5, <1>6, <2>1, EndRuns DEF AllNamed
  <2> QED
    BY <1>6, <2>2 DEF AllNamed, Named
<1>7. ASSUME NEW p \in Procs, SaveWrite(p)
      PROVE  AllNamed'
  <2>1. ASSUME exact', NEW book \in file'
        PROVE  Named(book)
    <3>1. run[p].exact /\ ~run[p].met /\ run[p].pc = "write"
      BY <1>7, <2>1 DEF SaveWrite
    <3>2. book = run[p].book
      BY <1>7, <2>1, <3>1 DEF SaveWrite, Left
    <3> QED
      BY <3>1, <3>2 DEF AllNamed
  <2> QED
    BY <1>6, <1>7, <2>1 DEF SaveWrite
<1>8. ASSUME NEW p \in Procs, Refuse(p) \/ Die(p)
      PROVE  AllNamed'
  BY <1>6, <1>8 DEF Refuse, Die, AllNamed
<1>9. CASE UNCHANGED vars
  BY <1>9 DEF AllNamed, Named, vars
<1> QED
  BY <1>1, <1>2, <1>3, <1>4, <1>7, <1>8, <1>9 DEF Next

(* Unless a splice went into it, the list that can be read back names only *)
(* nodes that were joined, at an address they were joined with, whatever   *)
(* overlaps and wherever it is cut off (save_nodes after load_nodes).      *)
THEOREM OnlyJoined == Spec => []ListedWasJoined
<1>1. Init => AllNamed
  BY DEF Init, AllNamed, Named, Listed, Idle, Empty
<1>2. AllNamed => ListedWasJoined
  BY DEF AllNamed, Named, ListedWasJoined
<1> QED
  BY <1>1, <1>2, NamedStep, TypeCorrect, PTL DEF Spec

-----------------------------------------------------------------------------
(* Why a command that overlaps no other is atomic: whoever is active with  *)
(* it would make it lapped, so nobody touches the file between its load    *)
(* and its last write.                                                     *)

Active(p) == run[p].pc # "idle"

Alone ==
  \A p, q \in Procs : p # q /\ Active(p) /\ Active(q) => run[p].lapped

Fresh(p) ==
  /\ run[p].lapped => Active(p)
  /\ run[p].met => run[p].lapped
  /\ run[p].pc = "save" /\ ~run[p].lapped =>
       \E book \in file :
         run[p].book = [book EXCEPT ![run[p].node] = run[p].address]
  /\ run[p].pc = "write" /\ ~run[p].lapped => file = {}

IInv == TypeOK /\ Alone /\ \A p \in Procs : Fresh(p)

(* Whoever is active together with p is lapped.                            *)
LEMMA OthersLapped ==
  ASSUME IInv, NEW p \in Procs, Active(p), NEW q \in Procs, q # p
  PROVE  /\ run[q].pc = "idle" \/ run[q].lapped
         /\ Active(q) => run[p].lapped
BY DEF IInv, Alone, Active

LEMMA OverlapStep == IInv /\ [Next]_vars => IInv'
<1> SUFFICES ASSUME IInv, [Next]_vars
             PROVE  Alone' /\ \A q \in Procs : Fresh(q)'
  BY TypeStep DEF IInv
<1>0. TypeOK
  BY DEF IInv
<1>1. ASSUME NEW p \in Procs, Begin(p)
      PROVE  Alone' /\ \A q \in Procs : Fresh(q)'
  <2>1. ASSUME NEW q \in Procs, q # p
        PROVE  /\ run'[q].pc = run[q].pc /\ run'[q].met = run[q].met
               /\ run'[q].lapped = Active(q)
    <3>1. run[q].lapped => Active(q)
      BY DEF IInv, Fresh
    <3>2. /\ run'[q].pc = run[q].pc /\ run'[q].met = run[q].met
          /\ run'[q].lapped = (run[q].lapped \/ run[q].pc # "idle")
      BY <1>0, <1>1, <2>1, BeginOthers
    <3> QED
      BY <3>1, <3>2 DEF Active
  <2>2. /\ run'[p].pc = "load"
        /\ run'[p].lapped = (\E q \in Procs : q # p /\ Active(q))
        /\ run'[p].met = (Saving(p) # {})
    BY <1>0, <1>1, BeginRuns DEF Active
  <2>3. Alone'
    <3>1. ASSUME NEW q \in Procs, NEW r \in Procs, q # r,
                 Active(q)', Active(r)'
          PROVE  run'[q].lapped
      <4>1. CASE q # p
        BY <2>1, <3>1, <4>1 DEF Active
      <4>2. CASE q = p
        BY <2>1, <2>2, <3>1, <4>2 DEF Active
      <4> QED
        BY <4>1, <4>2
    <3> QED
      BY <3>1 DEF Alone
  <2>4. Fresh(p)'
    <3>1. run'[p].met => run'[p].lapped
      BY <2>2 DEF Saving, Active
    <3> QED
      BY <2>2, <3>1 DEF Fresh, Active
  <2>5. ASSUME NEW q \in Procs, q # p
        PROVE  Fresh(q)'
    <3>1. run[q].met => Active(q)
      BY DEF IInv, Fresh
    <3> QED
      BY <2>1, <2>5, <3>1 DEF Fresh, Active
  <2> QED
    BY <2>3, <2>4, <2>5
<1>2. ASSUME NEW p \in Procs, Load(p)
      PROVE  Alone' /\ \A q \in Procs : Fresh(q)'
  <2>1. /\ run[p].pc = "load" /\ file' = file
        /\ run'[p].pc = "save" /\ ~run'[p].met
        /\ run'[p].node = run[p].node /\ run'[p].address = run[p].address
        /\ run'[p].lapped = run[p].lapped
        /\ \A q \in Procs : q # p => run'[q] = run[q]
    BY <1>0, <1>2, LoadRuns
  <2>2. Alone'
    BY <2>1 DEF IInv, Alone, Active
  <2>3. ~run[p].lapped => \E book \in file :
          run'[p].book = [book EXCEPT ![run[p].node] = run[p].address]
    <3>1. run[p].met => run[p].lapped
      BY DEF IInv, Fresh
    <3>2. ~run[p].met => \E book \in file :
            run'[p].book = [book EXCEPT ![run[p].node] = run[p].address]
      BY <1>0, <1>2, LoadRuns
    <3> QED
      BY <3>1, <3>2
  <2>4. Fresh(p)'
    <3>1. ~run'[p].lapped => \E book \in file' :
            run'[p].book = [book EXCEPT ![run'[p].node] = run'[p].address]
      BY <2>1, <2>3
    <3>2. Active(p)'
      BY <2>1 DEF Active
    <3>3. ~run'[p].met
      BY <2>1
    <3>4. run'[p].pc # "write"
      BY <2>1
    <3> QED
      BY Zenon, <3>1, <3>2, <3>3, <3>4 DEF Fresh
  <2>5. ASSUME NEW q \in Procs, q # p
        PROVE  Fresh(q)'
    <3>1. run'[q] = run[q] /\ file' = file
      BY <2>1, <2>5
    <3>2. Fresh(q)
      BY DEF IInv
    <3>3. Fresh(q)' = Fresh(q)
      BY Zenon, <3>1 DEF Fresh, Active
    <3> QED
      BY <3>2, <3>3
  <2> QED
    BY <2>2, <2>4, <2>5
<1>3. ASSUME NEW p \in Procs, SaveOpen(p)
      PROVE  Alone' /\ \A q \in Procs : Fresh(q)'
  <2>1. /\ run[p].pc = "save" /\ run'[p].pc = "write" /\ file' = {}
        /\ run'[p].met = (Saving(p) # {})
        /\ \A q \in Procs :
             /\ q # p => /\ run'[q].pc = run[q].pc
                         /\ run'[q].met = (run[q].met \/ q \in Accessing(p))
             /\ run'[q].lapped = run[q].lapped
    BY <1>0, <1>3, OpenRuns
  <2>2. Alone'
    BY <2>1 DEF IInv, Alone, Active
  <2>3. Fresh(p)'
    <3>1. run'[p].met => run'[p].lapped
      BY <2>1 DEF IInv, Alone, Saving, Active
    <3> QED
      BY <2>1, <3>1 DEF Fresh, Active
  <2>4. ASSUME NEW q \in Procs, q # p
        PROVE  Fresh(q)'
    <3>1. run[q].pc = "idle" \/ run[q].lapped
      BY <2>1, <2>4, OthersLapped DEF Active
    <3>2. run[q].lapped => Active(q)
      BY DEF IInv, Fresh
    <3>3. run[q].met => run[q].lapped
      BY DEF IInv, Fresh
    <3>4. q \in Accessing(p) => run[q].lapped
      BY <3>1 DEF Accessing
    <3> QED
      BY <2>1, <2>4, <3>1, <3>2, <3>3, <3>4 DEF Fresh, Active
  <2> QED
    BY <2>2, <2>3, <2>4
<1>4. ASSUME NEW p \in Procs, SavePart(p)
      PROVE  Alone' /\ \A q \in Procs : Fresh(q)'
  <2>1. run' = run /\ run[p].pc = "write" /\ run[p].lapped
    BY <1>4 DEF SavePart, IInv, Fresh
  <2>2. \A q \in Procs : run[q].pc = "idle" \/ run[q].lapped
    BY <2>1, OthersLapped DEF Active
  <2> QED
    BY <2>1, <2>2 DEF IInv, Alone, Fresh, Active
<1>5. ASSUME NEW p \in Procs, Active(p), Become(p, Idle),
             file' = file \/ run[p].pc = "write"
      PROVE  Alone' /\ \A q \in Procs : Fresh(q)'
  <2>1. run'[p] = Idle /\ \A q \in Procs : q # p => run'[q] = run[q]
    BY <1>0, <1>5, EndRuns
  <2>2. Idle.pc = "idle" /\ Idle.lapped = FALSE /\ Idle.met = FALSE
    BY DEF Idle
  <2>3. Alone'
    BY <2>1, <2>2 DEF IInv, Alone, Active
  <2>4. Fresh(p)'
    BY <2>1, <2>2 DEF Fresh, Active
  <2>5. ASSUME NEW q \in Procs, q # p
        PROVE  Fresh(q)'
    <3>1. run[q].pc = "idle" \/ run[q].lapped
      BY <1>5, <2>5, OthersLapped
    <3>2. run'[q] = run[q]
      BY <2>1, <2>5
    <3> QED
      BY <3>1, <3>2 DEF IInv, Fresh, Active
  <2> QED
    BY <2>3, <2>4, <2>5
<1>6. ASSUME NEW p \in Procs, SaveWrite(p) \/ Refuse(p) \/ Die(p)
      PROVE  Alone' /\ \A q \in Procs : Fresh(q)'
  BY <1>5, <1>6 DEF SaveWrite, Refuse, Die, Active
<1>7. CASE UNCHANGED vars
  BY <1>7 DEF vars, IInv, Alone, Fresh, Active
<1> QED
  BY <1>1, <1>2, <1>3, <1>4, <1>6, <1>7 DEF Next

LEMMA OverlapInv == Spec => []IInv
<1>1. Init => IInv
  <2>1. Init => TypeOK
    <3>1. Empty \in Book
      BY DEF Empty, Book, Entry
    <3> QED
      BY <3>1, IdleType DEF Init, TypeOK
  <2> QED
    BY <2>1 DEF Init, IInv, Alone, Fresh, Active, Idle
<1> QED
  BY <1>1, OverlapStep, PTL DEF Spec

-----------------------------------------------------------------------------
(* The refinement: the change happens at the truncation.                   *)

(* Seen from a lapped or idle process, or before the truncation, the list  *)
(* is the file; a command in its last writes that is not lapped holds it.  *)
LEMMA NoWriter ==
  ASSUME IInv, NEW p \in Procs, Active(p),
         run[p].lapped \/ run[p].pc # "write"
  PROVE  Writer = {} /\ List = file
<1>1. ASSUME NEW q \in Writer
      PROVE  FALSE
  <2>1. q \in Procs /\ Active(q) /\ ~run[q].lapped /\ run[q].pc = "write"
    BY DEF Writer, Active
  <2>2. q # p
    BY <2>1
  <2> QED
    BY <2>1, <2>2, OthersLapped
<1> QED
  BY <1>1 DEF List

LEMMA OneWriter ==
  ASSUME IInv, NEW p \in Procs, run[p].pc = "write", ~run[p].lapped
  PROVE  Writer = {p} /\ List = {run[p].book}
<1>1. p \in Writer
  BY DEF Writer
<1>2. ASSUME NEW q \in Writer, q # p
      PROVE  FALSE
  <2>1. q \in Procs /\ Active(q) /\ ~run[q].lapped
    BY DEF Writer, Active
  <2> QED
    BY <1>2, <2>1, OthersLapped DEF Active
<1>3. Writer = {p}
  BY <1>1, <1>2
<1> QED
  BY <1>3 DEF List

(* What the registry sees of a process depends on these four fields.       *)
LEMMA Seen ==
  ASSUME TypeOK, TypeOK', NEW q \in Procs
  PROVE  /\ Client[q].at = At[run[q].pc]
         /\ Client[q].node = run[q].node
         /\ Client[q].address = run[q].address
         /\ Client[q].lapped = run[q].lapped
         /\ (Client[q].at = "out") = (run[q].pc = "idle")
         /\ (Client[q].at = "in") = (run[q].pc \in {"load", "save"})
         /\ (Client[q].at = "done") = (run[q].pc = "write")
         /\ Client'[q] = [at |-> At[run'[q].pc], node |-> run'[q].node,
                          address |-> run'[q].address,
                          lapped |-> run'[q].lapped]
<1>1. run[q].pc \in {"idle", "load", "save", "write"}
  BY DEF TypeOK, RunState
<1>2. /\ Client[q] = [at |-> At[run[q].pc], node |-> run[q].node,
                      address |-> run[q].address, lapped |-> run[q].lapped]
      /\ Client'[q] = [at |-> At[run'[q].pc], node |-> run'[q].node,
                       address |-> run'[q].address, lapped |-> run'[q].lapped]
  BY DEF Client
<1>3. (At[run[q].pc] = "out") = (run[q].pc = "idle")
  BY <1>1 DEF At
<1>4. (At[run[q].pc] = "in") = (run[q].pc \in {"load", "save"})
  BY <1>1 DEF At
<1>5. (At[run[q].pc] = "done") = (run[q].pc = "write")
  BY <1>1 DEF At
<1>6. /\ Client[q].at = At[run[q].pc] /\ Client[q].node = run[q].node
      /\ Client[q].address = run[q].address
      /\ Client[q].lapped = run[q].lapped
  BY <1>2
<1> QED
  BY <1>2, <1>3, <1>4, <1>5, <1>6

LEMMA StepAtomic == IInv /\ IInv' /\ [Next]_vars => [Promise!Next]_<<List, Client>>
<1> SUFFICES ASSUME IInv, IInv', [Next]_vars
             PROVE  [Promise!Next]_<<List, Client>>
  OBVIOUS
<1>0. TypeOK /\ TypeOK'
  BY DEF IInv
<1>1. ASSUME NEW p \in Procs, Begin(p)
      PROVE  Promise!Enter(p)
  <2> DEFINE others == {q \in Procs \ {p} : Client[q].at # "out"}
             n == run'[p].node
             a == run'[p].address
  <2>1. others = {q \in Procs \ {p} : Active(q)}
    BY <1>0, Seen DEF Active
  <2>2. Writer = {} => List = file
    BY DEF List
  <2>3. ASSUME Writer # {}
        PROVE  file = {} /\ \E q \in others : Client[q].at = "done"
    <3>1. PICK q \in Writer : TRUE
      BY <2>3
    <3>2. q \in Procs /\ run[q].pc = "write" /\ ~run[q].lapped
      BY <3>1 DEF Writer
    <3>3. file = {}
      BY <3>2 DEF IInv, Fresh
    <3>4. q # p /\ Active(q)
      BY <1>0, <1>1, <3>2, BeginRuns DEF Active
    <3> QED
      BY <1>0, <2>1, <3>2, <3>3, <3>4, Seen
  <2>4. Writer' = {} /\ List' = file
    <3>1. Active(p)' /\ run'[p].pc # "write" /\ file' = file
      BY <1>0, <1>1, BeginRuns DEF Active
    <3>2. ASSUME NEW q \in Writer'
          PROVE  FALSE
      <4>1. q \in Procs /\ Active(q)' /\ ~run'[q].lapped /\ run'[q].pc = "write"
        BY <3>2 DEF Writer, Active
      <4>2. q # p
        BY <3>1, <4>1
      <4> QED
        BY <3>1, <4>1, <4>2 DEF IInv, Alone
    <3> QED
      BY <3>1, <3>2 DEF List
  <2>5. n \in Nodes /\ a \in Addresses \cup {NoAddress}
    BY <1>0, <1>1, BeginRuns DEF Entry
  <2>6. Client'[p] = [at |-> "in", node |-> n, address |-> a,
                      lapped |-> others # {}]
    <3>1. run'[p].pc = "load"
      BY <1>0, <1>1, BeginRuns
    <3>2. run'[p].lapped = (others # {})
      <4>1. run'[p].lapped = (\E q \in Procs : q # p /\ Active(q))
        BY <1>0, <1>1, BeginRuns DEF Active
      <4>2. (others # {}) = (\E q \in Procs : q # p /\ Active(q))
        BY <2>1
      <4> QED
        BY <4>1, <4>2
    <3>3. At["load"] = "in"
      BY DEF At
    <3> QED
      BY <1>0, <3>1, <3>2, <3>3, Seen
  <2>7. ASSUME NEW q \in Procs, q # p
        PROVE  Client'[q] = [Client[q] EXCEPT !.lapped = @ \/ q \in others]
    <3>0. run[q].lapped => Active(q)
      BY DEF IInv, Fresh
    <3>1. run'[q].pc = run[q].pc /\ run'[q].node = run[q].node
          /\ run'[q].address = run[q].address /\ run'[q].lapped = Active(q)
      BY <1>0, <1>1, <2>7, <3>0, BeginOthers DEF Active
    <3>2. PICK active \in BOOLEAN : active = Active(q)
      BY DEF Active
    <3>3. q \in others <=> active
      BY <2>1, <2>7, <3>2
    <3>4. run[q].lapped => active
      BY <3>0, <3>2
    <3>5. Client[q] = [at |-> At[run[q].pc], node |-> run[q].node,
                       address |-> run[q].address, lapped |-> run[q].lapped]
      BY DEF Client
    <3>6. Client'[q] = [at |-> At[run[q].pc], node |-> run[q].node,
                        address |-> run[q].address, lapped |-> active]
      BY <1>0, <3>1, <3>2, Seen
    <3>7. PICK l \in BOOLEAN : l = (run[q].lapped \/ q \in others)
      OBVIOUS
    <3>8. l = active
      BY <3>3, <3>4, <3>7
    <3>9. [Client[q] EXCEPT !.lapped = @ \/ q \in others]
          = [at |-> At[run[q].pc], node |-> run[q].node,
             address |-> run[q].address, lapped |-> l]
      BY <3>5, <3>7
    <3> QED
      BY <3>6, <3>8, <3>9
  <2>8. Client' = [q \in Procs |->
                    IF q = p
                      THEN [at |-> "in", node |-> n, address |-> a,
                            lapped |-> others # {}]
                      ELSE [Client[q] EXCEPT !.lapped = @ \/ q \in others]]
    <3>1. Client' = [q \in Procs |-> Client'[q]]
      BY DEF Client
    <3> QED
      BY <2>6, <2>7, <3>1
  <2>9. Client[p].at = "out"
    BY <1>0, <1>1, BeginRuns, Seen
  <2>10. \/ UNCHANGED List
         \/ List' = {} /\ \E q \in others : Client[q].at = "done"
    BY <2>2, <2>3, <2>4
  <2> QED
    BY <2>5, <2>8, <2>9, <2>10 DEF Promise!Enter, Promise!Out
<1>2. ASSUME NEW p \in Procs, SaveOpen(p)
      PROVE  Promise!Apply(p) \/ Promise!Disturb(p)
  <2>1. run[p].pc = "save" /\ file' = {} /\ run'[p].pc = "write"
    BY <1>0, <1>2, OpenRuns
  <2>2. ASSUME NEW q \in Procs
        PROVE  /\ q = p => Client'[q] = [Client[q] EXCEPT !.at = "done"]
               /\ q # p => Client'[q] = Client[q]
    <3>1. /\ q # p => run'[q].pc = run[q].pc
          /\ run'[q].node = run[q].node
          /\ run'[q].address = run[q].address
          /\ run'[q].lapped = run[q].lapped
      BY <1>0, <1>2, OpenRuns
    <3>2. Client[q] = [at |-> At[run[q].pc], node |-> run[q].node,
                       address |-> run[q].address, lapped |-> run[q].lapped]
      BY DEF Client
    <3>3. Client'[q] = [at |-> At[run'[q].pc], node |-> run[q].node,
                        address |-> run[q].address, lapped |-> run[q].lapped]
      BY <1>0, <3>1, Seen
    <3>4. At["write"] = "done"
      BY DEF At
    <3>5. CASE q = p
      BY <2>1, <3>2, <3>3, <3>4, <3>5
    <3>6. CASE q # p
      BY <3>1, <3>2, <3>3, <3>6
    <3> QED
      BY <3>5, <3>6
  <2>3. Client' = [Client EXCEPT ![p].at = "done"]
    BY <2>2 DEF Client
  <2>4. List = file
    BY <2>1, NoWriter DEF Active
  <2>5. CASE run[p].lapped
    <3>1. Active(p)' /\ run'[p].lapped
      BY <1>0, <1>2, <2>1, <2>5, OpenRuns DEF Active
    <3>2. List' = {}
      <4>1. ASSUME NEW q \in Writer'
            PROVE  FALSE
        <5>1. q \in Procs /\ Active(q)' /\ ~run'[q].lapped
          BY DEF Writer, Active
        <5> QED
          BY <3>1, <5>1 DEF IInv, Alone
      <4> QED
        BY <2>1, <4>1 DEF List
    <3>3. Client[p].lapped
      BY <1>0, <2>5, Seen
    <3> QED
      BY <2>3, <3>2, <3>3 DEF Promise!Disturb, Promise!Moves
  <2>6. CASE ~run[p].lapped
    <3>1. PICK book \in file :
            run[p].book = [book EXCEPT ![run[p].node] = run[p].address]
      BY <2>1, <2>6 DEF IInv, Fresh
    <3>2. run'[p].pc = "write" /\ ~run'[p].lapped /\ run'[p].book = run[p].book
      BY <1>0, <1>2, <2>6, OpenRuns
    <3>3. Writer' = {p}
      <4>1. p \in Writer'
        BY <3>2 DEF Writer
      <4>2. ASSUME NEW q \in Writer', q # p
            PROVE  FALSE
        BY <3>2, <4>2 DEF Writer, IInv, Alone, Active
      <4> QED
        BY <4>1, <4>2
    <3>4. List' = {run[p].book}
      BY <3>2, <3>3 DEF List
    <3>5. /\ Client[p].at = "in" /\ ~Client[p].lapped
          /\ Client[p].node = run[p].node /\ Client[p].address = run[p].address
      BY <1>0, <2>1, <2>6, Seen
    <3> QED
      BY <2>3, <2>4, <3>1, <3>4, <3>5 DEF Promise!Apply
  <2> QED
    BY <2>5, <2>6
<1>3. ASSUME NEW p \in Procs, SavePart(p)
      PROVE  Promise!Disturb(p)
  <2>1. run' = run /\ run[p].pc = "write" /\ run[p].lapped
    BY <1>3 DEF SavePart, IInv, Fresh
  <2>2. Client' = Client /\ Writer' = Writer
    BY <2>1 DEF Client, Writer
  <2>3. Writer = {}
    BY <2>1, NoWriter DEF Active
  <2>4. List' = file'
    BY <2>2, <2>3 DEF List
  <2>5. Client[p].lapped /\ Client[p].at = "done"
    BY <1>0, <2>1, Seen
  <2>6. Client' = [Client EXCEPT ![p].at = "done"]
    BY ZenonT(40), <2>2, <2>5 DEF Client
  <2>7. List' = {} \/ \E book \in Book : List' = {book}
    BY <1>0, <2>4 DEF TypeOK
  <2> QED
    BY <2>5, <2>6, <2>7
       DEF Promise!Disturb, Promise!Moves, Promise!Book, Book, Entry
<1>4. ASSUME NEW p \in Procs, Active(p), Become(p, Idle)
      PROVE  /\ ~Promise!Out(p) /\ Promise!Exits(p)
             /\ Writer \subseteq {p} => List' = file'
  <2>1. run'[p] = Idle /\ \A q \in Procs : q # p => run'[q] = run[q]
    BY <1>0, <1>4, EndRuns
  <2>2. Idle.pc = "idle" /\ Idle.lapped = FALSE
    BY DEF Idle
  <2>3. Client' = [Client EXCEPT ![p] = Client'[p]]
    BY <2>1 DEF Client
  <2>4. Client'[p].at = "out"
    BY <2>1, <2>2 DEF Client, At
  <2>5. Client[p].at # "out"
    BY <1>0, <1>4, Seen DEF Active
  <2>6. Writer \subseteq {p} => Writer' = {}
    BY <2>1, <2>2 DEF Writer
  <2> QED
    BY <2>3, <2>4, <2>5, <2>6 DEF Promise!Out, Promise!Exits, List
<1>5. ASSUME NEW p \in Procs, SaveWrite(p)
      PROVE  Promise!Exit(p) \/ Promise!Disturb(p)
  <2>1. /\ run[p].pc = "write" /\ file' \in Left(p)
        /\ Become(p, Idle)
    BY <1>5 DEF SaveWrite
  <2>2. CASE run[p].lapped
    <3>1. Writer = {}
      BY <2>1, <2>2, NoWriter DEF Active
    <3>2. List' = file' /\ Promise!Exits(p)
      BY <1>4, <2>1, <3>1 DEF Active
    <3>3. Client[p].lapped
      BY <1>0, <2>2, Seen
    <3> QED
      BY <1>0, <3>2, <3>3 DEF TypeOK, Promise!Disturb, Promise!Book, Book, Entry
  <2>3. CASE ~run[p].lapped
    <3>1. Writer = {p} /\ List = {run[p].book}
      BY <2>1, <2>3, OneWriter
    <3>2. List' = file' /\ ~Promise!Out(p) /\ Promise!Exits(p)
      BY <1>4, <2>1, <3>1 DEF Active
    <3>3. file' = {run[p].book}
      BY <2>1, <2>3 DEF IInv, Fresh, Left
    <3> QED
      BY <3>1, <3>2, <3>3 DEF Promise!Exit
  <2> QED
    BY <2>2, <2>3
<1>6. ASSUME NEW p \in Procs, Die(p) \/ Refuse(p)
      PROVE  Promise!Exit(p) \/ Promise!Cut(p)
  <2>1. Active(p) /\ file' = file /\ Become(p, Idle)
    BY <1>6 DEF Die, Refuse, Active
  <2>2. CASE run[p].pc = "write" /\ ~run[p].lapped
    <3>1. Writer = {p}
      BY <2>2, OneWriter
    <3>2. List' = file' /\ Promise!Exits(p)
      BY <1>4, <2>1, <3>1
    <3>3. file' = {}
      BY <2>1, <2>2 DEF IInv, Fresh
    <3>4. Client[p].at = "done"
      BY <1>0, <2>2, Seen
    <3> QED
      BY <3>2, <3>3, <3>4 DEF Promise!Cut
  <2>3. CASE run[p].pc # "write" \/ run[p].lapped
    <3>1. Writer = {} /\ List = file
      BY <2>1, <2>3, NoWriter
    <3>2. List' = file' /\ ~Promise!Out(p) /\ Promise!Exits(p)
      BY <1>4, <2>1, <3>1
    <3> QED
      BY <2>1, <3>1, <3>2 DEF Promise!Exit
  <2> QED
    BY <2>2, <2>3
<1>7. ASSUME NEW p \in Procs, Load(p)
      PROVE  UNCHANGED <<List, Client>>
  <2>1. /\ run[p].pc = "load" /\ run'[p].pc = "save" /\ file' = file
        /\ run'[p].node = run[p].node /\ run'[p].address = run[p].address
        /\ run'[p].lapped = run[p].lapped
        /\ \A q \in Procs : q # p => run'[q] = run[q]
    BY <1>0, <1>7, LoadRuns
  <2>2. Writer' = Writer
    BY <2>1 DEF Writer
  <2>3. \A q \in Writer : run'[q].book = run[q].book
    BY <2>1 DEF Writer
  <2>4. List' = List
    BY <2>1, <2>2, <2>3 DEF List
  <2>5. At["load"] = "in" /\ At["save"] = "in"
    BY DEF At
  <2>6. Client' = Client
    BY <2>1, <2>5 DEF Client
  <2> QED
    BY <2>4, <2>6
<1>8. CASE UNCHANGED vars
  BY <1>8 DEF vars, List, Writer, Client
<1> QED
  BY <1>1, <1>2, <1>3, <1>5, <1>6, <1>7, <1>8 DEF Next, Promise!Next

(* A command that overlaps no other loads, changes and saves as if in one  *)
(* step: Cluster implements Registry.                                      *)
THEOREM ImplementsRegistry == Spec => AtomicUnlessLapped
<1>1. Init => Promise!Init
  <2>1. ASSUME Init
        PROVE  Writer = {}
    BY <2>1 DEF Init, Writer, Idle
  <2>2. ASSUME Init
        PROVE  List = {[n \in Nodes |-> NoAddress]}
    BY <2>1, <2>2 DEF Init, List, Empty
  <2>3. ASSUME Init
        PROVE  Client = [p \in Procs |-> [at |-> "out", node |-> NoAddress,
                                          address |-> NoAddress,
                                          lapped |-> FALSE]]
    BY <2>3 DEF Init, Client, Idle, At
  <2> QED
    BY <2>2, <2>3 DEF Promise!Init
<1> QED
  BY <1>1, StepAtomic, OverlapInv, PTL
     DEF Spec, AtomicUnlessLapped, Promise!Spec, Promise!avars
=============================================================================
