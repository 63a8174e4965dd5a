-------------------------- MODULE ArrayAskedProofs --------------------------
(***************************************************************************)
(* Proofs about ArrayAdmin: a command that succeeds has done what it was   *)
(* asked for.                                                              *)
(*                                                                         *)
(* No history is needed for that.  As long as a command is at its calls,   *)
(* every single thing it was asked for is done already or still waits in   *)
(* `todo` (Due); when no call is left, all of it is done.  For this to     *)
(* last, nobody else may undo it: two commands that are active together    *)
(* know of each other (Met), so one that is Alone has no other of its kind *)
(* beside it, and every call left belongs to its command (Planned).        *)
(***************************************************************************)
EXTENDS ArrayAdminProofs

USE AdminAssumption

Waits(c, todo) == \E i \in DOMAIN todo : todo[i] = c

(* The commands that would be in the way of a command.                     *)
Kin(op) == IF op = "add_bitmap" THEN BitmapOps ELSE {op}

(* A call is one of those that its request stands for.                     *)
Planned(r, c) ==
  /\ c.verb \in DOMAIN HotTo => r.op = "manage"
  /\ c.verb = "add" => c.arg \in Named(r.add)
  /\ c.verb = "remove" => c.arg \in Named(r.remove)
  /\ c.verb \in Attrs => r.op = "reshape" /\ c.arg = r.target[c.verb]
  /\ c.verb = "raid_disks" => r.op = "reshape" /\ c.arg = r.delta
  /\ c.verb = "bitmap/chunksize" => r.op = "add_bitmap" /\ c.arg = r.chunk
  /\ c.verb = "bitmap/location" =>
       r.op = "remove_bitmap" \/ (r.op = "add_bitmap" /\ c.arg = r.loc)

AllPlanned(r, todo) == \A i \in DOMAIN todo : Planned(r, todo[i])

(* Disks are added after all is failed and removed, and the location of a  *)
(* bitmap is written last.                                                 *)
Ordered(todo) ==
  \A i, j \in DOMAIN todo : i < j =>
    /\ todo[i].verb = "add" => todo[j].verb = "add"
    /\ todo[i].verb # "bitmap/location"

(* What an invocation in state s was asked for is done in array a, or its  *)
(* call still waits; and a device count it has read is that of a.          *)
ReshapeDue(s, a) ==
  /\ \A x \in Attrs : \/ s.req.target[x] \in {None, a.attr[x]}
                      \/ Waits(Call(x, s.req.target[x]), s.todo)
  /\ s.num \in {0, a.disks}

AddDue(s, a, d) ==
  \/ Waits(Call("add", d), s.todo)
  \/ a.role[d] # "out" /\ \A i \in DOMAIN s.todo : s.todo[i].verb # "remove"
RemoveDue(s, a, d) == Waits(Call("remove", d), s.todo) \/ a.role[d] = "out"
FailDue(s, a, d) == Waits(Call("fail", d), s.todo) \/ a.role[d] = "faulty"

ManageDue(s, a) ==
  /\ \A d \in Named(s.req.add) : AddDue(s, a, d)
  /\ \A d \in Named(s.req.remove) \ Named(s.req.add) : RemoveDue(s, a, d)
  /\ \A d \in Named(s.req.fail) \ Named(s.req.remove \o s.req.add) :
       FailDue(s, a, d)

BitmapDue(s, a) ==
  /\ \/ s.req.chunk \in {None, a.bitmap.chunk}
     \/ Waits(Call("bitmap/chunksize", s.req.chunk), s.todo)
  /\ \/ s.req.loc = a.bitmap.loc
     \/ Waits(Call("bitmap/location", s.req.loc), s.todo)

Due(s, a) ==
  /\ s.req.op = "reshape" => ReshapeDue(s, a)
  /\ s.req.op = "manage" => ManageDue(s, a)
  /\ s.req.op = "add_bitmap" => BitmapDue(s, a)

Met ==
  \A p, q \in Procs : p # q /\ Active(p) /\ Active(q) => q \in run[p].met
MetBegun == \A p \in Procs : \A q \in run[p].met : run[q].pc # "fresh"

Asked(p) ==
  run[p].pc = "calls" =>
    /\ AllPlanned(run[p].req, run[p].todo)
    /\ Ordered(run[p].todo)
    /\ Alone(p, Kin(run[p].req.op)) => Due(run[p], array)

AskedInv == Met /\ MetBegun /\ \A p \in Procs : Asked(p)

-----------------------------------------------------------------------------
(* Sequences of calls. *)

LEMMA TailIs ==
  ASSUME NEW S, NEW s \in Seq(S), s # <<>>
  PROVE  /\ 1 \in DOMAIN s /\ Head(s) = s[1]
         /\ \A i \in DOMAIN Tail(s) :
              i \in Nat /\ i >= 1 /\ i + 1 \in DOMAIN s /\ Tail(s)[i] = s[i + 1]
         /\ \A c : Waits(c, s) => c = Head(s) \/ Waits(c, Tail(s))
         /\ Tail(s) # <<>> => 2 \in DOMAIN s
<1>1. /\ Len(s) \in Nat \ {0} /\ DOMAIN s = 1 .. Len(s) /\ Head(s) = s[1]
      /\ Tail(s) \in Seq(S) /\ Len(Tail(s)) = Len(s) - 1
      /\ DOMAIN Tail(s) = 1 .. Len(s) - 1
      /\ \A i \in 1 .. Len(s) - 1 : Tail(s)[i] = s[i + 1]
  BY HeadTailProperties, LenProperties, EmptySeq
<1>2. ASSUME NEW c, Waits(c, s)
      PROVE  c = Head(s) \/ Waits(c, Tail(s))
  <2>1. PICK i \in 1 .. Len(s) : s[i] = c
    BY <1>1, <1>2 DEF Waits
  <2>2. CASE i = 1
    BY <1>1, <2>1, <2>2
  <2>3. CASE i # 1
    <3>1. i - 1 \in 1 .. Len(s) - 1 /\ (i - 1) + 1 = i
      BY <1>1, <2>3
    <3>2. Tail(s)[i - 1] = c
      BY <1>1, <2>1, <3>1
    <3> QED
      BY <1>1, <3>1, <3>2 DEF Waits
  <2> QED
    BY <2>2, <2>3
<1>3. Tail(s) # <<>> => 2 \in DOMAIN s
  <2> SUFFICES ASSUME Tail(s) # <<>>
               PROVE  2 \in DOMAIN s
    OBVIOUS
  <2>1. Len(Tail(s)) # 0
    BY <1>1, EmptySeq
  <2> QED
    BY <1>1, <2>1
<1> QED
  BY <1>1, <1>2, <1>3

LEMMA JoinIs ==
  ASSUME NEW S, NEW s \in Seq(S), NEW t \in Seq(S)
  PROVE  /\ \A c : Waits(c, s \o t) <=> Waits(c, s) \/ Waits(c, t)
         /\ \A i \in DOMAIN (s \o t) :
              \/ i \in DOMAIN s /\ (s \o t)[i] = s[i]
              \/ /\ i - Len(s) \in DOMAIN t /\ (s \o t)[i] = t[i - Len(s)]
                 /\ i > Len(s)
<1>1. /\ Len(s) \in Nat /\ DOMAIN s = 1 .. Len(s)
      /\ Len(t) \in Nat /\ DOMAIN t = 1 .. Len(t)
      /\ s \o t \in Seq(S) /\ Len(s \o t) = Len(s) + Len(t)
      /\ DOMAIN (s \o t) = 1 .. Len(s) + Len(t)
      /\ \A i \in 1 .. Len(s) + Len(t) :
           (s \o t)[i] = IF i <= Len(s) THEN s[i] ELSE t[i - Len(s)]
  BY ConcatProperties, LenProperties
<1>2. ASSUME NEW i \in DOMAIN (s \o t)
      PROVE  \/ i \in DOMAIN s /\ (s \o t)[i] = s[i]
             \/ /\ i - Len(s) \in DOMAIN t /\ (s \o t)[i] = t[i - Len(s)]
                /\ i > Len(s)
  BY <1>1
<1>3. ASSUME NEW i \in DOMAIN s
      PROVE  i \in DOMAIN (s \o t) /\ (s \o t)[i] = s[i]
  BY <1>1
<1>4. ASSUME NEW i \in DOMAIN t
      PROVE  i + Len(s) \in DOMAIN (s \o t) /\ (s \o t)[i + Len(s)] = t[i]
  <2>1. i + Len(s) \in 1 .. Len(s) + Len(t) /\ ~(i + Len(s) <= Len(s))
        /\ (i + Len(s)) - Len(s) = i
    BY <1>1
  <2> QED
    BY <1>1, <2>1
<1>5. ASSUME NEW c
      PROVE  Waits(c, s \o t) <=> Waits(c, s) \/ Waits(c, t)
  BY <1>2, <1>3, <1>4 DEF Waits
<1> QED
  BY <1>2, <1>5

(* Calls before which and after which anything may stand.                  *)
Plain(todo) ==
  \A i \in DOMAIN todo : todo[i].verb \notin {"add", "bitmap/location"}

LEMMA JoinPlanned ==
  ASSUME NEW S, NEW s \in Seq(S), NEW t \in Seq(S), NEW r,
         AllPlanned(r, s), AllPlanned(r, t)
  PROVE  AllPlanned(r, s \o t)
BY JoinIs DEF AllPlanned

LEMMA JoinPlain ==
  ASSUME NEW S, NEW s \in Seq(S), NEW t \in Seq(S), Plain(s)
  PROVE  /\ Plain(t) => Plain(s \o t)
         /\ Ordered(t) => Ordered(s \o t)
<1>1. Plain(t) => Plain(s \o t)
  BY JoinIs DEF Plain
<1>2. ASSUME Ordered(t), NEW i \in DOMAIN (s \o t), NEW j \in DOMAIN (s \o t),
             i < j
      PROVE  /\ (s \o t)[i].verb = "add" => (s \o t)[j].verb = "add"
             /\ (s \o t)[i].verb # "bitmap/location"
  <2>1. CASE i \in DOMAIN s /\ (s \o t)[i] = s[i]
    BY <2>1 DEF Plain
  <2>2. CASE ~(i \in DOMAIN s /\ (s \o t)[i] = s[i])
    <3>1. /\ i - Len(s) \in DOMAIN t /\ (s \o t)[i] = t[i - Len(s)]
          /\ i > Len(s)
      BY <2>2, JoinIs
    <3>2. Len(s) \in Nat /\ DOMAIN s = 1 .. Len(s) /\ i \in Int /\ j \in Int
      BY LenProperties, ConcatProperties
    <3>3. j \notin DOMAIN s
      BY <1>2, <3>1, <3>2
    <3>4. j - Len(s) \in DOMAIN t /\ (s \o t)[j] = t[j - Len(s)]
      BY <3>3, JoinIs
    <3>5. i - Len(s) < j - Len(s)
      BY <1>2, <3>2
    <3> QED
      BY <1>2, <3>1, <3>4, <3>5 DEF Ordered
  <2> QED
    BY <2>1, <2>2
<1> QED
  BY <1>1, <1>2 DEF Ordered

LEMMA OneCall ==
  ASSUME NEW c
  PROVE  /\ Waits(c, <<c>>)
         /\ \A r : Planned(r, c) => AllPlanned(r, <<c>>)
         /\ Ordered(<<c>>)
         /\ c.verb \notin {"add", "bitmap/location"} => Plain(<<c>>)
<1>1. DOMAIN <<c>> = {1} /\ <<c>>[1] = c
  OBVIOUS
<1> QED
  BY <1>1 DEF Waits, AllPlanned, Ordered, Plain

LEMMA NoCall ==
  \A r : AllPlanned(r, <<>>) /\ Ordered(<<>>) /\ Plain(<<>>)
<1>1. DOMAIN <<>> = {}
  OBVIOUS
<1> QED
  BY <1>1 DEF AllPlanned, Ordered, Plain

LEMMA CallFields == \A v, a : Call(v, a).verb = v /\ Call(v, a).arg = a
BY DEF Call

-----------------------------------------------------------------------------
(* What a command sets out to do is all it was asked for. *)

(* The calls with which a request sets out, on array a.                    *)
PlanOf(r, calls, a) ==
  /\ AllPlanned(r, calls)
  /\ Ordered(calls)
  /\ \A s : s.req = r /\ s.todo = calls /\ s.num = 0 => Due(s, a)

LEMMA EachPlan ==
  ASSUME NEW v \in {"fail", "remove", "add"}, NEW disks \in Seq(Disks),
         NEW r, r.op = "manage",
         v = "add" => disks = r.add, v = "remove" => disks = r.remove
  PROVE  /\ Each(v, disks) \in Seq(CallState)
         /\ AllPlanned(r, Each(v, disks))
         /\ \A i \in DOMAIN Each(v, disks) : Each(v, disks)[i].verb = v
         /\ \A d \in Named(disks) : Waits(Call(v, d), Each(v, disks))
<1>1. /\ DOMAIN Each(v, disks) = DOMAIN disks
      /\ \A i \in DOMAIN disks : Each(v, disks)[i] = Call(v, disks[i])
  BY DEF Each
<1>2. ASSUME NEW i \in DOMAIN disks
      PROVE  Planned(r, Call(v, disks[i])) /\ disks[i] \in Named(disks)
  BY CallFields DEF Planned, Named, Attrs
<1>3. \A d \in Named(disks) : Waits(Call(v, d), Each(v, disks))
  BY <1>1 DEF Named, Waits
<1> QED
  BY <1>1, <1>2, <1>3, EachIs, CallFields DEF AllPlanned

LEMMA ManagePlan ==
  ASSUME NEW r \in Request, r.op = "manage", NEW a
  PROVE  PlanOf(r, ManageCalls(r), a)
<1>0. r.fail \in Seq(Disks) /\ r.remove \in Seq(Disks) /\ r.add \in Seq(Disks)
  BY RequestIs
<1> DEFINE F == Each("fail", r.fail)
           R == Each("remove", r.remove)
           A == Each("add", r.add)
           C == Seq(CallState)
<1>1. /\ F \in C /\ AllPlanned(r, F)
      /\ \A i \in DOMAIN F : F[i].verb = "fail"
      /\ \A d \in Named(r.fail) : Waits(Call("fail", d), F)
  BY <1>0, EachPlan
<1>2. /\ R \in C /\ AllPlanned(r, R)
      /\ \A i \in DOMAIN R : R[i].verb = "remove"
      /\ \A d \in Named(r.remove) : Waits(Call("remove", d), R)
  BY <1>0, EachPlan
<1>3. /\ A \in C /\ AllPlanned(r, A)
      /\ \A i \in DOMAIN A : A[i].verb = "add"
      /\ \A d \in Named(r.add) : Waits(Call("add", d), A)
  BY <1>0, EachPlan
<1>4. ManageCalls(r) = (F \o R) \o A
  BY DEF ManageCalls
<1> HIDE DEF F, R, A
<1>5. F \o R \in C
  BY <1>1, <1>2, ConcatProperties
<1>6. Plain(F \o R)
  <2>1. Plain(F) /\ Plain(R)
    BY <1>1, <1>2 DEF Plain
  <2> QED
    BY <1>1, <1>2, <2>1, JoinPlain
<1>7. Ordered(A)
  BY <1>3 DEF Ordered
<1>8. AllPlanned(r, (F \o R) \o A)
  BY <1>1, <1>2, <1>3, <1>5, JoinPlanned
<1>9. Ordered((F \o R) \o A)
  BY <1>3, <1>5, <1>6, <1>7, JoinPlain
<1>10. \A c : Waits(c, F) \/ Waits(c, R) \/ Waits(c, A)
                => Waits(c, (F \o R) \o A)
  BY <1>1, <1>2, <1>3, <1>5, JoinIs
<1>11. ASSUME NEW s, s.req = r, s.todo = (F \o R) \o A
       PROVE  Due(s, a)
  BY <1>1, <1>2, <1>3, <1>10, <1>11
     DEF Due, ManageDue, AddDue, RemoveDue, FailDue
<1> QED
  BY <1>4, <1>8, <1>9, <1>11 DEF PlanOf

LEMMA PartPlan ==
  ASSUME NEW r \in Request, r.op = "reshape", NEW x \in Attrs
  PROVE  /\ Part(r, x) \in Seq(CallState)
         /\ AllPlanned(r, Part(r, x))
         /\ Plain(Part(r, x))
         /\ r.target[x] = None \/ Waits(Call(x, r.target[x]), Part(r, x))
<1> DEFINE c == Call(x, r.target[x])
           t == Call("sync_action", "reshape")
<1>0. Part(r, x) \in Seq(CallState)
  BY PartIs
<1>1. CASE r.target[x] = None
  BY <1>0, <1>1, NoCall DEF Part
<1>2. CASE r.target[x] # None
  <2>1. Part(r, x) = <<c, t>>
    BY <1>2 DEF Part
  <2>2. Planned(r, c) /\ c.verb \notin {"add", "bitmap/location"}
    BY CallFields, HotVerbs DEF Planned, Attrs
  <2>3. Planned(r, t) /\ t.verb \notin {"add", "bitmap/location"}
    BY CallFields, HotVerbs DEF Planned, Attrs
  <2> HIDE DEF c, t
  <2>4. DOMAIN <<c, t>> = {1, 2} /\ <<c, t>>[1] = c /\ <<c, t>>[2] = t
    OBVIOUS
  <2>5. AllPlanned(r, <<c, t>>) /\ Plain(<<c, t>>) /\ Waits(c, <<c, t>>)
    BY <2>2, <2>3, <2>4 DEF AllPlanned, Plain, Waits
  <2> QED
    BY <1>0, <2>1, <2>5 DEF c
<1> QED
  BY <1>1, <1>2

LEMMA ResizingPlan ==
  ASSUME NEW r \in Request, r.op = "reshape"
  PROVE  /\ Resizing(r) \in Seq(CallState)
         /\ AllPlanned(r, Resizing(r))
         /\ Plain(Resizing(r))
<1> DEFINE c == Call("raid_disks", r.delta)
           t == Call("sync_action", "reshape")
<1>0. Resizing(r) \in Seq(CallState)
  BY ResizingIs
<1>1. CASE r.delta \in {None, 0}
  BY <1>0, <1>1, NoCall DEF Resizing
<1>2. CASE r.delta \notin {None, 0}
  <2>1. Resizing(r) = <<c, t>>
    BY <1>2 DEF Resizing
  <2>2. Planned(r, c) /\ c.verb \notin {"add", "bitmap/location"}
    BY CallFields, HotVerbs DEF Planned, Attrs
  <2>3. Planned(r, t) /\ t.verb \notin {"add", "bitmap/location"}
    BY CallFields, HotVerbs DEF Planned, Attrs
  <2> HIDE DEF c, t
  <2>4. DOMAIN <<c, t>> = {1, 2} /\ <<c, t>>[1] = c /\ <<c, t>>[2] = t
    OBVIOUS
  <2>5. AllPlanned(r, <<c, t>>) /\ Plain(<<c, t>>)
    BY <2>2, <2>3, <2>4 DEF AllPlanned, Plain
  <2> QED
    BY <1>0, <2>1, <2>5
<1> QED
  BY <1>1, <1>2

LEMMA ReshapePlan ==
  ASSUME NEW r \in Request, r.op = "reshape", NEW a
  PROVE  PlanOf(r, ReshapeCalls(r), a)
<1> DEFINE L == Part(r, "level")
           K == Part(r, "chunk_size")
           Y == Part(r, "layout")
           Z == Resizing(r)
           C == Seq(CallState)
<1>1. /\ L \in C /\ AllPlanned(r, L) /\ Plain(L)
      /\ r.target["level"] = None \/ Waits(Call("level", r.target["level"]), L)
  BY PartPlan DEF Attrs
<1>2. /\ K \in C /\ AllPlanned(r, K) /\ Plain(K)
      /\ \/ r.target["chunk_size"] = None
         \/ Waits(Call("chunk_size", r.target["chunk_size"]), K)
  BY PartPlan DEF Attrs
<1>3. /\ Y \in C /\ AllPlanned(r, Y) /\ Plain(Y)
      /\ r.target["layout"] = None \/ Waits(Call("layout", r.target["layout"]), Y)
  BY PartPlan DEF Attrs
<1>4. Z \in C /\ AllPlanned(r, Z) /\ Plain(Z)
  BY ResizingPlan
<1>5. ReshapeCalls(r) = ((L \o K) \o Y) \o Z
  BY DEF ReshapeCalls
<1> HIDE DEF L, K, Y, Z
<1>6. /\ L \o K \in C /\ AllPlanned(r, L \o K) /\ Plain(L \o K)
  BY <1>1, <1>2, ConcatProperties, JoinPlanned, JoinPlain
<1>7. /\ (L \o K) \o Y \in C /\ AllPlanned(r, (L \o K) \o Y)
      /\ Plain((L \o K) \o Y)
  BY <1>3, <1>6, ConcatProperties, JoinPlanned, JoinPlain
<1>8. AllPlanned(r, ((L \o K) \o Y) \o Z)
  BY <1>4, <1>7, JoinPlanned
<1>9. Ordered(((L \o K) \o Y) \o Z)
  <2>1. Ordered(Z)
    BY <1>4 DEF Plain, Ordered
  <2> QED
    BY <1>4, <1>7, <2>1, JoinPlain
<1>10. \A c : Waits(c, L) \/ Waits(c, K) \/ Waits(c, Y)
                => Waits(c, ((L \o K) \o Y) \o Z)
  <2>1. \A c : Waits(c, L) \/ Waits(c, K) => Waits(c, L \o K)
    BY <1>1, <1>2, JoinIs
  <2>2. \A c : Waits(c, L \o K) \/ Waits(c, Y) => Waits(c, (L \o K) \o Y)
    BY <1>3, <1>6, JoinIs
  <2>3. \A c : Waits(c, (L \o K) \o Y) => Waits(c, ((L \o K) \o Y) \o Z)
    BY <1>4, <1>7, JoinIs
  <2> QED
    BY <2>1, <2>2, <2>3
<1>11. ASSUME NEW s, s.req = r, s.todo = ((L \o K) \o Y) \o Z, s.num = 0
       PROVE  Due(s, a)
  <2>1. ASSUME NEW x \in Attrs
        PROVE  r.target[x] = None \/ Waits(Call(x, r.target[x]), s.todo)
    BY <1>1, <1>2, <1>3, <1>10, <1>11 DEF Attrs
  <2> QED
    BY <1>11, <2>1 DEF Due, ReshapeDue
<1> QED
  BY <1>5, <1>8, <1>9, <1>11 DEF PlanOf

LEMMA AddBitmapPlan ==
  ASSUME NEW r \in Request, r.op = "add_bitmap", ValidBitmap(r), NEW a
  PROVE  PlanOf(r, AddBitmapCalls(r), a)
<1> DEFINE k == Call("bitmap/chunksize", r.chunk)
           l == Call("bitmap/location", r.loc)
<1>1. Planned(r, k) /\ Planned(r, l) /\ k.verb = "bitmap/chunksize"
  BY CallFields, HotVerbs DEF Planned, Attrs
<1>2. CASE r.chunk = None
  <2>1. AddBitmapCalls(r) = <<l>>
    BY <1>2, EmptySeq, ConcatProperties DEF AddBitmapCalls
  <2>2. AllPlanned(r, <<l>>) /\ Ordered(<<l>>) /\ Waits(l, <<l>>)
    BY <1>1, OneCall
  <2>3. ASSUME NEW s, s.req = r, s.todo = <<l>>
        PROVE  Due(s, a)
    BY <1>2, <2>2, <2>3 DEF Due, BitmapDue
  <2> QED
    BY <2>1, <2>2, <2>3 DEF PlanOf
<1>3. CASE r.chunk # None
  <2>1. AddBitmapCalls(r) = <<k>> \o <<l>>
    BY <1>3 DEF AddBitmapCalls
  <2> HIDE DEF k, l
  <2>2. <<k>> \in Seq({k, l}) /\ <<l>> \in Seq({k, l})
    OBVIOUS
  <2>3. /\ AllPlanned(r, <<k>>) /\ Plain(<<k>>) /\ Waits(k, <<k>>)
        /\ AllPlanned(r, <<l>>) /\ Ordered(<<l>>) /\ Waits(l, <<l>>)
    BY <1>1, OneCall
  <2>4. /\ AllPlanned(r, <<k>> \o <<l>>) /\ Ordered(<<k>> \o <<l>>)
        /\ Waits(k, <<k>> \o <<l>>) /\ Waits(l, <<k>> \o <<l>>)
    BY <2>2, <2>3, JoinPlanned, JoinPlain, JoinIs
  <2>5. ASSUME NEW s, s.req = r, s.todo = <<k>> \o <<l>>
        PROVE  Due(s, a)
    BY <2>4, <2>5 DEF Due, BitmapDue, k, l
  <2> QED
    BY <2>1, <2>4, <2>5 DEF PlanOf
<1> QED
  BY <1>2, <1>3

(* The commands of one call, of which nothing is claimed.                  *)
LEMMA OtherPlan ==
  ASSUME NEW r, r.op \notin {"manage", "reshape", "add_bitmap"}, NEW a,
         NEW v, NEW x,
         v \notin DOMAIN HotTo \cup Attrs \cup {"raid_disks", "bitmap/chunksize"},
         v = "bitmap/location" => r.op = "remove_bitmap"
  PROVE  PlanOf(r, <<Call(v, x)>>, a)
<1>1. Planned(r, Call(v, x))
  BY CallFields, HotVerbs DEF Planned
<1>2. AllPlanned(r, <<Call(v, x)>>) /\ Ordered(<<Call(v, x)>>)
  BY <1>1, OneCall
<1> QED
  BY <1>2 DEF PlanOf, Due

-----------------------------------------------------------------------------
(* Opening: an invocation that has read what it wants to know ends, waits  *)
(* for its user, or sets out.                                              *)

SetsOut(p) ==
  /\ UNCHANGED array
  /\ run[p].pc \in {"open", "prompt"}
  /\ \/ \E how \in Ends \cup {"prompt"} : how # "ok" /\ End(p, how)
     \/ \E calls \in Seq(CallState) :
          Go(p, calls) /\ (calls # <<>> => PlanOf(run[p].req, calls, array))

LEMMA UnlessSetsOut ==
  ASSUME NEW p \in Procs, run[p].pc \in {"open", "prompt"},
         NEW refused \in BOOLEAN, NEW calls, Unless(p, refused, calls),
         ~refused => calls \in Seq(CallState),
         ~refused /\ calls # <<>> => PlanOf(run[p].req, calls, array)
  PROVE  SetsOut(p)
<1>1. CASE refused
  BY <1>1 DEF Unless, SetsOut, End, Ends
<1>2. CASE ~refused
  BY <1>2 DEF Unless, SetsOut
<1> QED
  BY <1>1, <1>2

(* A command of one call at most, of which nothing is claimed.             *)
LEMMA OneSetsOut ==
  ASSUME NEW p \in Procs, run[p].pc = "open",
         run[p].req.op \notin {"manage", "reshape", "add_bitmap"},
         NEW refused \in BOOLEAN, NEW calls, Unless(p, refused, calls),
         NEW v, NEW x,
         v \notin DOMAIN HotTo \cup Attrs \cup {"raid_disks", "bitmap/chunksize"},
         v = "bitmap/location" => run[p].req.op = "remove_bitmap",
         ~refused => calls = <<>> \/ calls = <<Call(v, x)>>,
         <<Call(v, x)>> \in Seq(CallState)
  PROVE  SetsOut(p)
<1>1. PlanOf(run[p].req, <<Call(v, x)>>, array)
  BY OtherPlan
<1>2. ~refused => calls \in Seq(CallState)
  BY EmptySeq
<1>3. ~refused /\ calls # <<>> => PlanOf(run[p].req, calls, array)
  BY <1>1
<1> HIDE DEF Call
<1> QED
  BY <1>2, <1>3, UnlessSetsOut

LEMMA OpenSetsOut ==
  ASSUME RunsOK, NEW p \in Procs, Open(p) \/ Answer(p)
  PROVE  SetsOut(p)
<1> DEFINE r == run[p].req
<1>0. run[p].pc # "fresh" => r \in Request
  BY BegunHasRequest
<1>1. CASE StopOpen(p)
  <2>1. r.op = "stop" /\ run[p].pc = "open"
    BY <1>1 DEF StopOpen, Opens
  <2>2. PICK refused \in BOOLEAN : refused = (~r.force /\ AtRisk(array.state))
    OBVIOUS
  <2>3. PICK calls : calls = IF r.dry THEN <<>> ELSE <<Call("stop", None)>>
    OBVIOUS
  <2>4. Unless(p, refused, calls)
    BY <1>1, <2>2, <2>3 DEF StopOpen
  <2>5. calls = <<>> \/ calls = <<Call("stop", None)>>
    BY <2>3
  <2> QED
    BY <2>1, <2>4, <2>5, SimpleCalls, OneSetsOut, HotVerbs DEF Attrs
<1>2. CASE ManageOpen(p)
  <2>1. r.op = "manage" /\ run[p].pc = "open" /\ r \in Request
    BY <1>0, <1>2 DEF ManageOpen, Opens
  <2>2. PICK refused \in BOOLEAN :
          refused = (~r.force /\ r.fail \o r.remove # <<>> /\ AtRisk(array.state))
    OBVIOUS
  <2>3. PICK calls : calls = IF r.dry THEN <<>> ELSE ManageCalls(r)
    OBVIOUS
  <2>4. Unless(p, refused, calls)
    BY <1>2, <2>2, <2>3 DEF ManageOpen
  <2>5. calls = <<>> \/ (calls = ManageCalls(r) /\ PlanOf(r, calls, array))
    BY <2>1, <2>3, ManagePlan
  <2>6. calls \in Seq(CallState)
    BY <2>1, <2>5, ManageCallsIs, EmptySeq
  <2> QED
    BY <2>1, <2>4, <2>5, <2>6, UnlessSetsOut
<1>3. CASE ScrubOpen(p)
  <2>1. r.op = "scrub" /\ run[p].pc = "open"
    BY <1>3 DEF ScrubOpen, Opens
  <2>2. PICK calls : calls = <<Call("sync_action", "check")>>
    OBVIOUS
  <2>3. PICK refused \in BOOLEAN : ~refused
    OBVIOUS
  <2>4. Unless(p, refused, calls)
    BY <1>3, <2>2, <2>3 DEF ScrubOpen, Unless
  <2> QED
    BY <2>1, <2>2, <2>4, SimpleCalls, OneSetsOut, HotVerbs DEF Attrs
<1>4. CASE AddSpareOpen(p)
  <2>1. r.op = "add_spare" /\ run[p].pc = "open"
    BY <1>4 DEF AddSpareOpen, Opens
  <2>2. PICK calls :
          calls = IF r.dry THEN <<>> ELSE <<Call("md/new_dev", r.disk)>>
    OBVIOUS
  <2>3. Unless(p, FALSE, calls)
    BY <1>4, <2>2 DEF AddSpareOpen
  <2>4. calls = <<>> \/ calls = <<Call("md/new_dev", r.disk)>>
    BY <2>2
  <2>5. r.disk \in Disks \cup {None}
    BY <1>0, <2>1, RequestIs
  <2> QED
    BY ZenonT(40), <2>1, <2>3, <2>4, <2>5, SimpleCalls, OneSetsOut, HotVerbs
       DEF Attrs
<1>5. CASE RemoveSpareOpen(p)
  <2>1. r.op = "remove_spare" /\ run[p].pc = "open"
    BY <1>5 DEF RemoveSpareOpen, Opens
  <2>2. PICK refused \in BOOLEAN : refused = ~IsSpare(r.disk)
    OBVIOUS
  <2>3. PICK calls :
          calls = IF r.dry THEN <<>> ELSE <<Call("md/dev/state", "remove")>>
    OBVIOUS
  <2>4. Unless(p, refused, calls)
    BY <1>5, <2>2, <2>3 DEF RemoveSpareOpen
  <2>5. calls = <<>> \/ calls = <<Call("md/dev/state", "remove")>>
    BY <2>3
  <2> QED
    BY <2>1, <2>4, <2>5, SimpleCalls, OneSetsOut, HotVerbs DEF Attrs
<1>6. CASE ActivateSpareOpen(p)
  <2>1. r.op = "activate_spare" /\ run[p].pc = "open"
    BY <1>6 DEF ActivateSpareOpen, Opens
  <2>2. PICK refused \in BOOLEAN : refused = ~IsSpare(r.disk)
    OBVIOUS
  <2>3. CASE r.slot # None
    <3>1. Unless(p, refused, <<Call("md/dev/slot", r.slot)>>)
      BY <1>6, <2>2, <2>3 DEF ActivateSpareOpen
    <3>2. r.slot \in Nat
      BY <1>0, <2>1, <2>3, RequestIs
    <3> QED
      BY <2>1, <3>1, <3>2, SimpleCalls, OneSetsOut, HotVerbs DEF Attrs
  <2>4. CASE r.slot = None
    <3>1. Unless(p, refused, <<Call("sync_action", "recover")>>)
      BY <1>6, <2>2, <2>4 DEF ActivateSpareOpen
    <3> QED
      BY <2>1, <3>1, SimpleCalls, OneSetsOut, HotVerbs DEF Attrs
  <2> QED
    BY <2>3, <2>4
<1>7. CASE AddBitmapOpen(p)
  <2>1. r.op = "add_bitmap" /\ run[p].pc = "open" /\ r \in Request
    BY <1>0, <1>7 DEF AddBitmapOpen, Opens
  <2>2. PICK refused \in BOOLEAN : refused = (~HasBitmap /\ ~ValidBitmap(r))
    OBVIOUS
  <2>3. PICK calls :
          calls = IF HasBitmap \/ r.dry THEN <<>> ELSE AddBitmapCalls(r)
    OBVIOUS
  <2>4. Unless(p, refused, calls)
    BY <1>7, <2>2, <2>3 DEF AddBitmapOpen
  <2>5. CASE HasBitmap \/ r.dry
    BY <2>1, <2>3, <2>4, <2>5, EmptySeq, UnlessSetsOut
  <2>6. CASE ~(HasBitmap \/ r.dry)
    <3>1. ~refused => /\ calls \in Seq(CallState)
                      /\ PlanOf(r, calls, array)
      BY <2>1, <2>2, <2>3, <2>6, AddBitmapCallsIs, AddBitmapPlan
    <3> QED
      BY <2>1, <2>4, <3>1, UnlessSetsOut
  <2> QED
    BY <2>5, <2>6
<1>8. CASE RemoveBitmapOpen(p)
  <2>1. r.op = "remove_bitmap" /\ run[p].pc = "open"
    BY <1>8 DEF RemoveBitmapOpen, Opens
  <2>2. PICK calls : calls = IF ~HasBitmap \/ r.dry
                               THEN <<>> ELSE <<Call("bitmap/location", "none")>>
    OBVIOUS
  <2>3. Unless(p, FALSE, calls)
    BY <1>8, <2>2 DEF RemoveBitmapOpen
  <2>4. calls = <<>> \/ calls = <<Call("bitmap/location", "none")>>
    BY <2>2
  <2> QED
    BY <2>1, <2>3, <2>4, SimpleCalls, OneSetsOut, HotVerbs DEF Attrs
<1>9. CASE ClearBitmapOpen(p)
  <2>1. r.op = "clear_bitmap" /\ run[p].pc = "open"
    BY <1>9 DEF ClearBitmapOpen, Opens
  <2>2. PICK refused \in BOOLEAN : refused = ~HasBitmap
    OBVIOUS
  <2>3. Unless(p, refused, <<Call("bitmap/can_clear", 1)>>)
    BY <1>9, <2>2 DEF ClearBitmapOpen
  <2> QED
    BY <2>1, <2>3, SimpleCalls, OneSetsOut, HotVerbs DEF Attrs
<1>10. CASE ReshapeOpen(p)
  <2>1. r.op = "reshape" /\ run[p].pc = "open" /\ r \in Request
    BY <1>0, <1>10 DEF ReshapeOpen, Opens
  <2>2. PICK refused \in BOOLEAN :
          refused = (array.state \notin {"active", "clean"} \/ ~ValidReshape(r))
    OBVIOUS
  <2>3. CASE refused \/ r.dry \/ r.force
    <3>1. PICK calls : calls = IF r.dry THEN <<>> ELSE ReshapeCalls(r)
      OBVIOUS
    <3>2. Unless(p, refused, calls)
      BY <1>10, <2>2, <2>3, <3>1 DEF ReshapeOpen
    <3>3. calls = <<>> \/ (calls = ReshapeCalls(r) /\ PlanOf(r, calls, array))
      BY <2>1, <3>1, ReshapePlan
    <3>4. calls \in Seq(CallState)
      BY <2>1, <3>3, ReshapeCallsIs, EmptySeq
    <3> QED
      BY <2>1, <3>2, <3>3, <3>4, UnlessSetsOut
  <2>4. CASE ~(refused \/ r.dry \/ r.force)
    <3>1. End(p, "prompt")
      BY <1>10, <2>2, <2>4 DEF ReshapeOpen
    <3> QED
      BY <2>1, <3>1 DEF SetsOut, End
  <2> QED
    BY <2>3, <2>4
<1>11. CASE Answer(p)
  <2>1. run[p].pc = "prompt" /\ r \in Request /\ r.op = "reshape"
    BY <1>0, <1>11 DEF Answer, RunsOK, RunOK
  <2>2. CASE Unless(p, FALSE, ReshapeCalls(r))
    <3>1. ReshapeCalls(r) \in Seq(CallState) /\ PlanOf(r, ReshapeCalls(r), array)
      BY <2>1, ReshapePlan, ReshapeCallsIs
    <3> QED
      BY <2>1, <2>2, <3>1, UnlessSetsOut
  <2>3. ASSUME NEW how \in {"cancelled", "err"}, End(p, how)
        PROVE  SetsOut(p)
    BY <2>1, <2>3 DEF SetsOut, End, Ends
  <2> QED
    BY <1>11, <2>2, <2>3 DEF Answer
<1> QED
  BY <1>1, <1>2, <1>3, <1>4, <1>5, <1>6, <1>7, <1>8, <1>9, <1>10, <1>11 DEF Open

-----------------------------------------------------------------------------
(* What a call does to the array, and to what waits. *)

CallStep(p) ==
  \/ HotDisk(p) \/ StopArray(p) \/ WriteAttr(p) \/ Resize(p)
  \/ WriteBitmap(p) \/ Trigger(p)

LEMMA Effects ==
  ASSUME IInv, NEW p \in Procs, CallStep(p)
  PROVE  /\ run[p].pc = "calls" /\ Advance(p)
         /\ run[p].todo \in Seq(CallState) /\ run[p].todo # <<>>
         /\ IF Verb(p) \in DOMAIN HotTo
              THEN /\ Arg(p) \in Disks
                   /\ array.role[Arg(p)] \in HotFrom[Verb(p)]
                   /\ array'.role = [array.role EXCEPT ![Arg(p)] = HotTo[Verb(p)]]
              ELSE array'.role = array.role
         /\ array'.attr = IF Verb(p) \in Attrs
                            THEN [array.attr EXCEPT ![Verb(p)] = Arg(p)]
                            ELSE array.attr
         /\ IF Verb(p) = "raid_disks"
              THEN run[p].num # 0 /\ array'.disks = run[p].num + Arg(p)
              ELSE array'.disks = array.disks
         /\ array'.bitmap =
              IF Verb(p) = "bitmap/chunksize"
                THEN [array.bitmap EXCEPT !.chunk = Arg(p)]
              ELSE IF Verb(p) = "bitmap/location"
                THEN [array.bitmap EXCEPT !.loc = Arg(p)]
              ELSE array.bitmap
<1>1. \E verbs : Calls(p, verbs)
  BY DEF CallStep, HotDisk, StopArray, WriteAttr, Resize, WriteBitmap, Trigger
<1>2. run[p].pc = "calls" /\ Advance(p)
  BY DEF CallStep, HotDisk, StopArray, WriteAttr, Resize, WriteBitmap, Trigger,
         Calls
<1>3. /\ run[p].todo \in Seq(CallState) /\ run[p].todo # <<>>
      /\ Head(run[p].todo) \in CallState /\ array \in ArrayType
  BY <1>1, <1>2, CallReady DEF IInv, RunsOK, RunState, RunOK, ArrayOK
<1>4. Verb(p) \in DOMAIN HotTo => Arg(p) \in Disks
  BY <1>3 DEF CallState, Verb, Arg
<1>5. CASE HotDisk(p)
  <2>1. Verb(p) \in DOMAIN HotTo
    BY <1>5 DEF HotDisk, Calls
  <2>2. Verb(p) \notin Attrs \cup {"raid_disks", "bitmap/chunksize", "bitmap/location"}
    BY <2>1, HotVerbs DEF Attrs
  <2> QED
    BY <1>2, <1>3, <1>4, <1>5, <2>1, <2>2 DEF HotDisk, ArrayType
<1>6. CASE StopArray(p)
  <2>1. Verb(p) = "stop"
    BY <1>6 DEF StopArray, Calls
  <2> QED
    BY <1>2, <1>3, <1>6, <2>1, HotVerbs DEF StopArray, ArrayType, Attrs
<1>7. CASE WriteAttr(p)
  <2>1. Verb(p) \in Attrs
    BY <1>7 DEF WriteAttr, Calls
  <2>2. Verb(p) \notin DOMAIN HotTo \cup {"raid_disks", "bitmap/chunksize", "bitmap/location"}
    BY <2>1, HotVerbs DEF Attrs
  <2> QED
    BY <1>2, <1>3, <1>7, <2>1, <2>2 DEF WriteAttr, ArrayType
<1>8. CASE Resize(p)
  <2>1. Verb(p) = "raid_disks"
    BY <1>8 DEF Resize, Calls
  <2> QED
    BY <1>2, <1>3, <1>8, <2>1, HotVerbs DEF Resize, ArrayType, Attrs
<1>9. CASE WriteBitmap(p)
  <2>1. Verb(p) \in {"bitmap/chunksize", "bitmap/location"}
    BY <1>9 DEF WriteBitmap, Calls
  <2>2. Verb(p) \notin DOMAIN HotTo \cup Attrs \cup {"raid_disks"}
    BY <2>1, HotVerbs DEF Attrs
  <2> QED
    BY <1>2, <1>3, <1>9, <2>1, <2>2 DEF WriteBitmap, ArrayType
<1>10. CASE Trigger(p)
  <2>1. Verb(p) \in Triggers
    BY <1>10 DEF Trigger, Calls
  <2>2. Verb(p) \notin DOMAIN HotTo \cup Attrs \cup
                       {"raid_disks", "bitmap/chunksize", "bitmap/location"}
    BY <2>1, HotVerbs DEF Attrs, Triggers
  <2> QED
    BY <1>2, <1>3, <1>10, <2>1, <2>2 DEF Trigger
<1> QED
  BY <1>5, <1>6, <1>7, <1>8, <1>9, <1>10 DEF CallStep

(* The first call is made, the others still wait.                          *)
LEMMA HeadGoes ==
  ASSUME IInv, NEW p \in Procs, CallStep(p), NEW r,
         AllPlanned(r, run[p].todo), Ordered(run[p].todo)
  PROVE  /\ Head(run[p].todo) = Call(Verb(p), Arg(p))
         /\ Planned(r, Call(Verb(p), Arg(p)))
         /\ AllPlanned(r, Tail(run[p].todo)) /\ Ordered(Tail(run[p].todo))
         /\ \A c : Waits(c, run[p].todo)
                     => c = Call(Verb(p), Arg(p)) \/ Waits(c, Tail(run[p].todo))
         /\ Verb(p) = "add" => \A i \in DOMAIN Tail(run[p].todo) :
                                 Tail(run[p].todo)[i].verb = "add"
         /\ Verb(p) = "bitmap/location" => Tail(run[p].todo) = <<>>
<1> DEFINE s == run[p].todo
<1>0. s \in Seq(CallState) /\ s # <<>>
  BY Effects
<1>1. /\ 1 \in DOMAIN s /\ Head(s) = s[1] /\ Head(s) \in CallState
      /\ \A i \in DOMAIN Tail(s) :
           i \in Nat /\ i >= 1 /\ i + 1 \in DOMAIN s /\ Tail(s)[i] = s[i + 1]
      /\ \A c : Waits(c, s) => c = Head(s) \/ Waits(c, Tail(s))
      /\ Tail(s) # <<>> => 2 \in DOMAIN s
  BY <1>0, TailIs, HeadTailProperties
<1>2. Head(s) = Call(Verb(p), Arg(p))
  BY <1>1 DEF CallState, Call, Verb, Arg
<1>3. Verb(p) = s[1].verb
  BY <1>1 DEF Verb
<1>4. ASSUME NEW i \in DOMAIN Tail(s)
      PROVE  i + 1 \in DOMAIN s /\ 1 < i + 1 /\ Tail(s)[i] = s[i + 1]
  BY <1>1
<1>5. AllPlanned(r, Tail(s))
  BY <1>4 DEF AllPlanned
<1>6. Ordered(Tail(s))
  <2> SUFFICES ASSUME NEW i \in DOMAIN Tail(s), NEW j \in DOMAIN Tail(s), i < j
               PROVE  /\ Tail(s)[i].verb = "add" => Tail(s)[j].verb = "add"
                      /\ Tail(s)[i].verb # "bitmap/location"
    BY DEF Ordered
  <2>1. i + 1 < j + 1
    BY <1>1
  <2> QED
    BY <1>4, <2>1 DEF Ordered
<1>7. ASSUME Verb(p) = "add", NEW i \in DOMAIN Tail(s)
      PROVE  Tail(s)[i].verb = "add"
  <2>1. /\ 1 \in DOMAIN s /\ i + 1 \in DOMAIN s /\ 1 < i + 1
        /\ s[1].verb = "add" /\ Tail(s)[i] = s[i + 1]
    BY <1>1, <1>3, <1>4, <1>7
  <2>2. s[i + 1].verb = "add"
    BY <2>1 DEF Ordered
  <2> QED
    BY <2>1, <2>2
<1>8. Verb(p) = "bitmap/location" => Tail(s) = <<>>
  <2>1. 2 \in DOMAIN s => s[1].verb # "bitmap/location"
    BY <1>1 DEF Ordered
  <2> QED
    BY <1>1, <1>3, <2>1
<1>9. Planned(r, Call(Verb(p), Arg(p)))
  BY <1>1, <1>2 DEF AllPlanned
<1> QED
  BY <1>1, <1>2, <1>5, <1>6, <1>7, <1>8, <1>9

LEMMA CallsDiffer ==
  \A v, w, x, y : Call(v, x) = Call(w, y) => v = w /\ x = y
<1> SUFFICES ASSUME NEW v, NEW w, NEW x, NEW y, Call(v, x) = Call(w, y)
             PROVE  v = w /\ x = y
  OBVIOUS
<1>1. Call(v, x).verb = Call(w, y).verb /\ Call(v, x).arg = Call(w, y).arg
  OBVIOUS
<1> QED
  BY <1>1, CallFields

LEMMA ReshapeOwnDue ==
  ASSUME IInv, NEW p \in Procs, CallStep(p), run[p].req.op = "reshape",
         AllPlanned(run[p].req, run[p].todo), Ordered(run[p].todo),
         ReshapeDue(run[p], array),
         NEW s, s.req = run[p].req, s.todo = Tail(run[p].todo), s.num = 0
  PROVE  /\ ReshapeDue(s, array')
         /\ array'.disks # array.disks =>
              array'.disks = array.disks + run[p].req.delta
<1> DEFINE r == run[p].req
           v == Verb(p)
<1>0. array.attr \in [Attrs -> Nat]
  BY DEF IInv, ArrayOK, ArrayType
<1>1. /\ v \in Attrs => Arg(p) = r.target[v]
      /\ v = "raid_disks" => Arg(p) = r.delta
  BY HeadGoes, CallFields DEF Planned
<1>2. ASSUME NEW x \in Attrs
      PROVE  r.target[x] \in {None, array'.attr[x]}
               \/ Waits(Call(x, r.target[x]), s.todo)
  <2>1. CASE v = x
    BY <1>0, <1>1, <2>1, Effects
  <2>2. CASE v # x
    <3>1. array'.attr[x] = array.attr[x]
      BY <1>0, <2>2, Effects
    <3>2. Call(x, r.target[x]) # Call(v, Arg(p))
      BY <2>2, CallsDiffer
    <3> QED
      BY <3>1, <3>2, HeadGoes DEF ReshapeDue
  <2> QED
    BY <2>1, <2>2
<1>3. array'.disks # array.disks => array'.disks = array.disks + r.delta
  <2> SUFFICES ASSUME array'.disks # array.disks
               PROVE  array'.disks = array.disks + r.delta
    OBVIOUS
  <2>1. v = "raid_disks" /\ run[p].num # 0 /\ array'.disks = run[p].num + Arg(p)
    BY Effects
  <2>2. run[p].num = array.disks
    BY <2>1 DEF ReshapeDue
  <2> QED
    BY <1>1, <2>1, <2>2
<1> QED
  BY <1>2, <1>3 DEF ReshapeDue

LEMMA ManageOwnDue ==
  ASSUME IInv, NEW p \in Procs, CallStep(p), run[p].req.op = "manage",
         AllPlanned(run[p].req, run[p].todo), Ordered(run[p].todo),
         ManageDue(run[p], array),
         NEW s, s.req = run[p].req, s.todo = Tail(run[p].todo)
  PROVE  ManageDue(s, array')
<1> DEFINE r == run[p].req
           v == Verb(p)
           e == Arg(p)
<1>0. /\ array.role \in [Disks -> Roles]
      /\ r.add \in Seq(Disks) /\ r.remove \in Seq(Disks) /\ r.fail \in Seq(Disks)
  <2>1. run[p].pc # "fresh"
    BY Effects
  <2>2. r \in Request
    BY <2>1, BegunHasRequest DEF IInv
  <2> QED
    BY <2>2, RequestIs DEF IInv, ArrayOK, ArrayType
<1>1. /\ v = "add" => e \in Named(r.add)
      /\ v = "remove" => e \in Named(r.remove)
  BY HeadGoes, CallFields DEF Planned
<1>2. /\ Named(r.add) \subseteq Disks /\ Named(r.remove) \subseteq Disks
      /\ Named(r.fail) \subseteq Disks
  BY <1>0, ElementOfSeq, LenProperties DEF Named
<1>3. ASSUME NEW d \in Disks
      PROVE  array'.role[d] =
               IF v = "add" /\ d = e THEN "spare"
               ELSE IF v = "remove" /\ d = e THEN "out"
               ELSE IF v = "fail" /\ d = e THEN "faulty"
               ELSE array.role[d]
  <2>1. CASE v \in DOMAIN HotTo
    <3>1. array'.role[d] = IF d = e THEN HotTo[v] ELSE array.role[d]
      BY <1>0, <2>1, Effects
    <3> QED
      BY <2>1, <3>1, HotVerbs DEF HotTo
  <2>2. CASE v \notin DOMAIN HotTo
    BY <2>2, HotVerbs, Effects
  <2> QED
    BY <2>1, <2>2
<1>4. \A c : Waits(c, run[p].todo) => c = Call(v, e) \/ Waits(c, s.todo)
  BY HeadGoes
<1>5. ASSUME NEW d \in Named(r.add)
      PROVE  AddDue(s, array', d)
  <2>1. CASE v = "add" /\ d = e
    <3>1. array'.role[d] # "out"
      BY <1>2, <1>3, <2>1
    <3>2. \A i \in DOMAIN s.todo : s.todo[i].verb # "remove"
      BY <2>1, HeadGoes
    <3> QED
      BY <3>1, <3>2 DEF AddDue
  <2>2. CASE ~(v = "add" /\ d = e) /\ Waits(Call("add", d), run[p].todo)
    BY <1>4, <2>2, CallsDiffer DEF AddDue
  <2>3. CASE /\ ~(v = "add" /\ d = e) /\ array.role[d] # "out"
             /\ \A i \in DOMAIN run[p].todo : run[p].todo[i].verb # "remove"
    <3>1. /\ v # "remove"
          /\ \A i \in DOMAIN s.todo : s.todo[i].verb # "remove"
      <4>1. run[p].todo \in Seq(CallState) /\ run[p].todo # <<>>
        BY Effects
      <4>2. /\ 1 \in DOMAIN run[p].todo /\ v = run[p].todo[1].verb
            /\ \A i \in DOMAIN s.todo : /\ i + 1 \in DOMAIN run[p].todo
                                        /\ s.todo[i] = run[p].todo[i + 1]
        BY <4>1, TailIs DEF Verb
      <4> QED
        BY <2>3, <4>2
    <3>2. array'.role[d] # "out"
      BY <1>2, <1>3, <2>3, <3>1
    <3> QED
      BY <3>1, <3>2 DEF AddDue
  <2> QED
    BY <2>1, <2>2, <2>3 DEF ManageDue, AddDue
<1>6. ASSUME NEW d \in Named(r.remove) \ Named(r.add)
      PROVE  RemoveDue(s, array', d)
  <2>1. CASE v = "remove" /\ d = e
    BY <1>2, <1>3, <2>1 DEF RemoveDue
  <2>2. CASE ~(v = "remove" /\ d = e) /\ Waits(Call("remove", d), run[p].todo)
    BY <1>4, <2>2, CallsDiffer DEF RemoveDue
  <2>3. CASE ~(v = "remove" /\ d = e) /\ array.role[d] = "out"
    <3>1. ~(v = "add" /\ d = e)
      BY <1>1
    <3>2. ~(v = "fail" /\ d = e)
      <4>1. HotFrom["fail"] = {"sync", "spare"}
        BY DEF HotFrom
      <4>2. v = "fail" => array.role[e] \in HotFrom["fail"]
        BY HotVerbs, Effects
      <4> QED
        BY <2>3, <4>1, <4>2
    <3> QED
      BY <1>2, <1>3, <2>3, <3>1, <3>2 DEF RemoveDue
  <2> QED
    BY <2>1, <2>2, <2>3 DEF ManageDue, RemoveDue
<1>7. ASSUME NEW d \in Named(r.fail) \ Named(r.remove \o r.add)
      PROVE  FailDue(s, array', d)
  <2>0. d \notin Named(r.remove) /\ d \notin Named(r.add)
    <3>1. \A c : Waits(c, r.remove) \/ Waits(c, r.add)
                   => Waits(c, r.remove \o r.add)
      BY <1>0, JoinIs
    <3> QED
      BY <3>1 DEF Named, Waits
  <2>1. CASE v = "fail" /\ d = e
    BY <1>2, <1>3, <2>1 DEF FailDue
  <2>2. CASE ~(v = "fail" /\ d = e) /\ Waits(Call("fail", d), run[p].todo)
    BY <1>4, <2>2, CallsDiffer DEF FailDue
  <2>3. CASE ~(v = "fail" /\ d = e) /\ array.role[d] = "faulty"
    BY <1>1, <1>2, <1>3, <2>0, <2>3 DEF FailDue
  <2> QED
    BY <2>1, <2>2, <2>3 DEF ManageDue, FailDue
<1> QED
  BY <1>5, <1>6, <1>7 DEF ManageDue

LEMMA BitmapOwnDue ==
  ASSUME IInv, NEW p \in Procs, CallStep(p), run[p].req.op = "add_bitmap",
         AllPlanned(run[p].req, run[p].todo), Ordered(run[p].todo),
         BitmapDue(run[p], array),
         NEW s, s.req = run[p].req, s.todo = Tail(run[p].todo)
  PROVE  BitmapDue(s, array')
<1> DEFINE r == run[p].req
           v == Verb(p)
<1>0. array.bitmap = [loc |-> array.bitmap.loc, chunk |-> array.bitmap.chunk]
  BY DEF IInv, ArrayOK, ArrayType
<1>1. /\ v = "bitmap/chunksize" => Arg(p) = r.chunk
      /\ v = "bitmap/location" => Arg(p) = r.loc
  BY HeadGoes, CallFields DEF Planned
<1>2. \A c : Waits(c, run[p].todo) => c = Call(v, Arg(p)) \/ Waits(c, s.todo)
  BY HeadGoes
<1>3. /\ array'.bitmap.chunk = IF v = "bitmap/chunksize" THEN r.chunk
                                                         ELSE array.bitmap.chunk
      /\ array'.bitmap.loc = IF v = "bitmap/location" THEN r.loc
                                                      ELSE array.bitmap.loc
  BY <1>0, <1>1, Effects
<1> QED
  BY <1>2, <1>3, CallsDiffer DEF BitmapDue

-----------------------------------------------------------------------------
(* The invariant. *)

(* What others, and the kernel by itself, may do to the array meanwhile.   *)
LEMMA DueSame ==
  ASSUME NEW s, NEW a, NEW b, Due(s, a),
         s.req.op = "reshape" => b.attr = a.attr /\ b.disks = a.disks,
         s.req.op = "manage" => b.role = a.role,
         s.req.op = "add_bitmap" => b.bitmap = a.bitmap
  PROVE  Due(s, b)
<1>1. ASSUME s.req.op = "reshape"
      PROVE  ReshapeDue(s, b)
  BY <1>1 DEF Due, ReshapeDue
<1>2. ASSUME s.req.op = "manage"
      PROVE  ManageDue(s, b)
  BY <1>2 DEF Due, ManageDue, AddDue, RemoveDue, FailDue
<1>3. ASSUME s.req.op = "add_bitmap"
      PROVE  BitmapDue(s, b)
  BY <1>3 DEF Due, BitmapDue
<1> QED
  BY <1>1, <1>2, <1>3 DEF Due

LEMMA OtherDue ==
  ASSUME IInv, Met, NEW p \in Procs, NEW q \in Procs, p # q, CallStep(p),
         AllPlanned(run[p].req, run[p].todo), Ordered(run[p].todo),
         run[q].pc = "calls", Alone(q, Kin(run[q].req.op)), Due(run[q], array)
  PROVE  /\ Due(run[q], array')
         /\ run[q].req.op = "reshape" => array'.disks = array.disks
         /\ run[q].req.op = "add_bitmap" => array'.bitmap = array.bitmap
<1>1. p \in run[q].met
  BY Effects DEF Met, Active
<1>2. run[p].req.op \notin Kin(run[q].req.op)
  BY <1>1 DEF Alone
<1>3. /\ Verb(p) \in DOMAIN HotTo => run[p].req.op = "manage"
      /\ Verb(p) \in Attrs \cup {"raid_disks"} => run[p].req.op = "reshape"
      /\ Verb(p) \in {"bitmap/chunksize", "bitmap/location"}
           => run[p].req.op \in BitmapOps
  BY HeadGoes, CallFields DEF Planned, BitmapOps
<1>4. run[q].req.op = "reshape" =>
        array'.attr = array.attr /\ array'.disks = array.disks
  BY <1>2, <1>3, Effects DEF Kin
<1>5. run[q].req.op = "manage" => array'.role = array.role
  BY <1>2, <1>3, Effects DEF Kin
<1>6. run[q].req.op = "add_bitmap" => array'.bitmap = array.bitmap
  BY <1>2, <1>3, Effects DEF Kin
<1> QED
  BY <1>4, <1>5, <1>6, DueSame

LEMMA KernelDue ==
  ASSUME IInv, Settle \/ \E d \in Disks : DiskFails(d) \/ Recover(d),
         NEW p \in Procs, run[p].pc = "calls", Due(run[p], array)
  PROVE  /\ Due(run[p], array')
         /\ array'.disks = array.disks /\ array'.bitmap = array.bitmap
<1> DEFINE s == run[p]
<1>0. array \in ArrayType
  BY DEF IInv, ArrayOK
<1>1. /\ array'.attr = array.attr /\ array'.disks = array.disks
      /\ array'.bitmap = array.bitmap
  BY <1>0 DEF Settle, DiskFails, Recover, ArrayType
<1>2. ASSUME NEW d \in Disks
      PROVE  /\ array.role[d] = "out" <=> array'.role[d] = "out"
             /\ array.role[d] = "faulty" => array'.role[d] = "faulty"
  <2>1. CASE Settle
    BY <1>0, <2>1 DEF Settle, ArrayType
  <2>2. ASSUME NEW e \in Disks, DiskFails(e)
        PROVE  /\ array.role[d] = "out" <=> array'.role[d] = "out"
               /\ array.role[d] = "faulty" => array'.role[d] = "faulty"
    BY <1>0, <2>2 DEF DiskFails, ArrayType
  <2>3. ASSUME NEW e \in Disks, Recover(e)
        PROVE  /\ array.role[d] = "out" <=> array'.role[d] = "out"
               /\ array.role[d] = "faulty" => array'.role[d] = "faulty"
    BY <1>0, <2>3 DEF Recover, ArrayType
  <2> QED
    BY <2>1, <2>2, <2>3
<1>3. /\ Named(s.req.add) \subseteq Disks /\ Named(s.req.remove) \subseteq Disks
      /\ Named(s.req.fail) \subseteq Disks
  <2>1. s.req \in Request
    BY BegunHasRequest DEF IInv
  <2> QED
    BY <2>1, RequestIs, ElementOfSeq, LenProperties DEF Named
<1>4. s.req.op = "manage" => ManageDue(s, array')
  <2> SUFFICES ASSUME ManageDue(s, array)
               PROVE  ManageDue(s, array')
    BY DEF Due
  <2> HIDE DEF s
  <2> QED
    BY <1>2, <1>3 DEF ManageDue, AddDue, RemoveDue, FailDue
<1>5. s.req.op = "reshape" => ReshapeDue(s, array')
  BY <1>1 DEF Due, ReshapeDue
<1>6. s.req.op = "add_bitmap" => BitmapDue(s, array')
  BY <1>1 DEF Due, BitmapDue
<1> QED
  BY <1>1, <1>4, <1>5, <1>6 DEF Due

(* One invocation goes on: who has met whom stays what it was.             *)
LEMMA Turn ==
  ASSUME IInv, Met, MetBegun, NEW p \in Procs, Active(p),
         NEW r, run' = [run EXCEPT ![p] = r],
         r.met = run[p].met, r.req = run[p].req, r.pc # "fresh"
  PROVE  /\ Met' /\ MetBegun'
         /\ run'[p] = r
         /\ \A q \in Procs \ {p} : run'[q] = run[q]
         /\ \A q \in Procs : \A ops : Alone(q, ops)' <=> Alone(q, ops)
<1>1. run \in [Procs -> RunState] /\ \A q \in Procs : run[q].met \subseteq Procs
  BY DEF IInv, RunsOK, RunState
<1>2. run'[p] = r /\ \A q \in Procs \ {p} : run'[q] = run[q]
  BY <1>1
<1>3. \A q \in Procs : /\ run'[q].met = run[q].met /\ run'[q].req = run[q].req
                       /\ Active(q)' => Active(q)
                       /\ run[q].pc # "fresh" => run'[q].pc # "fresh"
  BY <1>2 DEF Active
<1>4. Met'
  BY <1>3 DEF Met
<1>5. MetBegun'
  BY <1>1, <1>3 DEF MetBegun
<1>6. \A q \in Procs : \A ops : Alone(q, ops)' <=> Alone(q, ops)
  BY <1>1, <1>3 DEF Alone
<1> QED
  BY <1>2, <1>4, <1>5, <1>6

(* ... and where the array is left alone, only that one has to be looked   *)
(* at.                                                                     *)
LEMMA QuietTurn ==
  ASSUME IInv, AskedInv, NEW p \in Procs, Active(p),
         NEW r, run' = [run EXCEPT ![p] = r],
         r.met = run[p].met, r.req = run[p].req, r.pc # "fresh",
         array' = array,
         r.pc = "calls" =>
           /\ AllPlanned(r.req, r.todo) /\ Ordered(r.todo)
           /\ Alone(p, Kin(r.req.op)) => Due(r, array)
  PROVE  AskedInv'
<1>1. /\ Met' /\ MetBegun' /\ run'[p] = r
      /\ \A q \in Procs \ {p} : run'[q] = run[q]
      /\ \A q \in Procs : \A ops : Alone(q, ops)' <=> Alone(q, ops)
  BY Turn DEF AskedInv
<1>2. ASSUME NEW q \in Procs
      PROVE  Asked(q)'
  <2>1. CASE q = p
    BY <1>1, <2>1 DEF Asked
  <2>2. CASE q # p
    BY <1>1, <2>2 DEF Asked, AskedInv
  <2> QED
    BY <2>1, <2>2
<1> QED
  BY <1>1, <1>2 DEF AskedInv

LEMMA EndAsked ==
  ASSUME IInv, AskedInv, NEW p \in Procs, Active(p),
         NEW how \in Ends \cup {"prompt"}, End(p, how)
  PROVE  AskedInv'
<1>1. run[p] \in RunState
  BY DEF IInv, RunsOK
<1>2. PICK r : r = [run[p] EXCEPT !.pc = how, !.todo = <<>>]
  OBVIOUS
<1>3. /\ r.pc = how /\ r.met = run[p].met /\ r.req = run[p].req
      /\ how \notin {"fresh", "calls"}
  BY <1>1, <1>2 DEF RunState, Ends
<1>4. run' = [run EXCEPT ![p] = r] /\ array' = array
  BY <1>1, <1>2 DEF End, IInv, RunsOK
<1> QED
  BY <1>3, <1>4, QuietTurn

LEMMA GoIs ==
  ASSUME IInv, NEW p \in Procs, NEW calls, Go(p, calls)
  PROVE  \E r : /\ run' = [run EXCEPT ![p] = r]
                /\ r.pc = IF calls = <<>> THEN "ok" ELSE "calls"
                /\ r.todo = calls /\ r.num = 0
                /\ r.met = run[p].met /\ r.req = run[p].req
<1>1. run[p] \in RunState /\ run \in [Procs -> RunState]
  BY DEF IInv, RunsOK
<1>2. PICK place : place = IF calls = <<>> THEN "ok" ELSE "calls"
  OBVIOUS
<1>3. PICK r : r = [run[p] EXCEPT !.pc = place, !.todo = calls, !.num = 0]
  OBVIOUS
<1>4. /\ r.pc = place /\ r.todo = calls /\ r.num = 0
      /\ r.met = run[p].met /\ r.req = run[p].req
  BY <1>1, <1>3 DEF RunState
<1>5. run' = [run EXCEPT ![p] = r]
  BY <1>1, <1>2, <1>3 DEF Go
<1> QED
  BY <1>2, <1>4, <1>5

LEMMA SetsOutAsked ==
  ASSUME IInv, AskedInv, NEW p \in Procs, SetsOut(p)
  PROVE  AskedInv'
<1>0. Active(p) /\ array' = array
  BY DEF SetsOut, Active
<1>1. ASSUME NEW how \in Ends \cup {"prompt"}, End(p, how)
      PROVE  AskedInv'
  BY <1>0, <1>1, EndAsked
<1>2. ASSUME NEW calls \in Seq(CallState), Go(p, calls),
             calls # <<>> => PlanOf(run[p].req, calls, array)
      PROVE  AskedInv'
  <2>1. PICK r : /\ run' = [run EXCEPT ![p] = r]
                 /\ r.pc = IF calls = <<>> THEN "ok" ELSE "calls"
                 /\ r.todo = calls /\ r.num = 0
                 /\ r.met = run[p].met /\ r.req = run[p].req
    BY <1>2, GoIs
  <2>2. r.pc = "calls" => /\ AllPlanned(r.req, r.todo) /\ Ordered(r.todo)
                          /\ Due(r, array)
    BY <1>2, <2>1 DEF PlanOf
  <2> QED
    BY <1>0, <2>1, <2>2, QuietTurn
<1> QED
  BY <1>1, <1>2 DEF SetsOut

LEMMA BeginAsked ==
  ASSUME IInv, AskedInv, NEW p \in Procs, NEW req \in Requests, Begin(p, req)
  PROVE  AskedInv'
<1>0. /\ run \in [Procs -> RunState] /\ array' = array /\ run[p].pc = "fresh"
      /\ \A q \in Procs : run[q].met \subseteq Procs
  BY DEF IInv, RunsOK, RunState, Begin
<1>1. run'[p].pc = "open" /\ run'[p].met = {o \in Procs : Active(o)}
  BY DEF Begin, Fresh
<1>2. ASSUME NEW q \in Procs, q # p
      PROVE  /\ run'[q].pc = run[q].pc /\ run'[q].req = run[q].req
             /\ run'[q].todo = run[q].todo /\ run'[q].num = run[q].num
             /\ run'[q].met = IF Active(q) THEN run[q].met \cup {p} ELSE run[q].met
  <2>1. run[q] \in RunState
    BY <1>0
  <2>2. CASE Active(q)
    <3>1. run'[q] = [run[q] EXCEPT !.met = @ \cup {p}]
      BY <1>2, <2>2 DEF Begin
    <3> QED
      BY <2>1, <2>2, <3>1 DEF RunState
  <2>3. CASE ~Active(q)
    BY <1>2, <2>3 DEF Begin
  <2> QED
    BY <2>2, <2>3
<1>3. ~Active(p) /\ \A q \in Procs \ {p} : Active(q)' <=> Active(q)
  BY <1>0, <1>2 DEF Active
<1>4. Met'
  <2> SUFFICES ASSUME NEW q \in Procs, NEW o \in Procs, q # o,
                      Active(q)', Active(o)'
               PROVE  o \in run'[q].met
    BY DEF Met
  <2>1. CASE q = p
    BY <1>1, <1>3, <2>1
  <2>2. CASE q # p
    BY <1>2, <1>3, <2>2 DEF AskedInv, Met
  <2> QED
    BY <2>1, <2>2
<1>5. \A o \in Procs : run[o].pc # "fresh" => o # p /\ run'[o].pc # "fresh"
  BY <1>0, <1>2
<1>6. MetBegun'
  <2> SUFFICES ASSUME NEW q \in Procs, NEW o \in run'[q].met
               PROVE  run'[o].pc # "fresh"
    BY DEF MetBegun
  <2>1. CASE o = p
    BY <1>1, <2>1
  <2>2. CASE o # p /\ q = p
    BY <1>1, <1>5, <2>2 DEF Active
  <2>3. CASE o # p /\ q # p
    <3>1. o \in run[q].met
      BY <1>2, <2>3
    <3> QED
      BY <1>0, <1>5, <3>1 DEF AskedInv, MetBegun
  <2> QED
    BY <2>1, <2>2, <2>3
<1>7. ASSUME NEW q \in Procs
      PROVE  Asked(q)'
  <2>1. CASE q = p
    BY <1>1, <2>1 DEF Asked
  <2>2. CASE q # p
    <3> SUFFICES ASSUME run[q].pc = "calls"
                 PROVE  Asked(q)'
      BY <1>2, <2>2 DEF Asked
    <3>1. \A ops : Alone(q, ops)' => Alone(q, ops)
      <4>1. \A o \in run[q].met : o \in run'[q].met /\ run'[o].req = run[o].req
        BY ZenonT(40), <1>0, <1>2, <2>2 DEF AskedInv, MetBegun
      <4> QED
        BY <4>1 DEF Alone
    <3>2. Due(run[q], array) => Due(run'[q], array')
      BY <1>0, <1>2, <2>2
         DEF Due, ReshapeDue, ManageDue, AddDue, RemoveDue, FailDue, BitmapDue
    <3> QED
      BY <1>2, <2>2, <3>1, <3>2 DEF AskedInv, Asked
  <2> QED
    BY <2>1, <2>2
<1> QED
  BY <1>4, <1>6, <1>7 DEF AskedInv

LEMMA AdvanceIs ==
  ASSUME IInv, NEW p \in Procs, CallStep(p)
  PROVE  \E r : /\ run' = [run EXCEPT ![p] = r]
                /\ r.pc = IF Tail(run[p].todo) = <<>> THEN "ok" ELSE "calls"
                /\ r.todo = Tail(run[p].todo) /\ r.num = 0
                /\ r.met = run[p].met /\ r.req = run[p].req
<1>1. PICK t : t = Tail(run[p].todo)
  OBVIOUS
<1>2. Go(p, t)
  BY <1>1, Effects DEF Advance, Go
<1>3. \E r : /\ run' = [run EXCEPT ![p] = r]
             /\ r.pc = IF t = <<>> THEN "ok" ELSE "calls"
             /\ r.todo = t /\ r.num = 0
             /\ r.met = run[p].met /\ r.req = run[p].req
  BY <1>2, GoIs
<1> QED
  BY <1>1, <1>3

LEMMA CallAsked ==
  ASSUME IInv, AskedInv, NEW p \in Procs, CallStep(p)
  PROVE  AskedInv'
<1>1. /\ run[p].pc = "calls" /\ Active(p)
      /\ AllPlanned(run[p].req, run[p].todo) /\ Ordered(run[p].todo)
      /\ Alone(p, Kin(run[p].req.op)) => Due(run[p], array)
  BY Effects DEF AskedInv, Asked, Active
<1>2. PICK r : /\ run' = [run EXCEPT ![p] = r]
               /\ r.pc = IF Tail(run[p].todo) = <<>> THEN "ok" ELSE "calls"
               /\ r.todo = Tail(run[p].todo) /\ r.num = 0
               /\ r.met = run[p].met /\ r.req = run[p].req
  BY AdvanceIs
<1>3. /\ Met' /\ MetBegun' /\ run'[p] = r
      /\ \A q \in Procs \ {p} : run'[q] = run[q]
      /\ \A q \in Procs : \A ops : Alone(q, ops)' <=> Alone(q, ops)
  BY <1>1, <1>2, Turn DEF AskedInv
<1>4. ASSUME NEW q \in Procs
      PROVE  Asked(q)'
  <2>1. CASE q = p
    <3>1. AllPlanned(r.req, r.todo) /\ Ordered(r.todo)
      BY <1>1, <1>2, HeadGoes
    <3>2. ASSUME Due(run[p], array)
          PROVE  Due(r, array')
      BY <1>1, <1>2, <3>2, ReshapeOwnDue, ManageOwnDue, BitmapOwnDue DEF Due
    <3> QED
      BY <1>1, <1>2, <1>3, <2>1, <3>1, <3>2 DEF Asked
  <2>2. CASE q # p
    <3>1. ASSUME run[q].pc = "calls", Alone(q, Kin(run[q].req.op))
          PROVE  Due(run[q], array')
      BY <1>1, <2>2, <3>1, OtherDue DEF AskedInv, Asked
    <3> QED
      BY <1>3, <2>2, <3>1 DEF AskedInv, Asked
  <2> QED
    BY <2>1, <2>2
<1> QED
  BY <1>3, <1>4 DEF AskedInv

LEMMA CountAsked ==
  ASSUME IInv, AskedInv, NEW p \in Procs, Count(p)
  PROVE  AskedInv'
<1>1. /\ run[p].pc = "calls" /\ Active(p) /\ array' = array
      /\ AllPlanned(run[p].req, run[p].todo) /\ Ordered(run[p].todo)
      /\ Alone(p, Kin(run[p].req.op)) => Due(run[p], array)
  BY DEF Count, Calls, AskedInv, Asked, Active
<1>2. CASE array.disks + Arg(p) < 1
  <2>1. End(p, "err")
    BY <1>1, <1>2 DEF Count, End
  <2> QED
    BY <1>1, <2>1, EndAsked DEF Ends
<1>3. CASE ~(array.disks + Arg(p) < 1)
  <2>1. run[p] \in RunState /\ run \in [Procs -> RunState]
    BY DEF IInv, RunsOK
  <2>2. PICK r : r = [run[p] EXCEPT !.num = array.disks]
    OBVIOUS
  <2>3. /\ r.pc = run[p].pc /\ r.todo = run[p].todo /\ r.num = array.disks
        /\ r.met = run[p].met /\ r.req = run[p].req
    BY <2>1, <2>2 DEF RunState
  <2>4. run' = [run EXCEPT ![p] = r]
    BY <1>3, <2>1, <2>2 DEF Count
  <2>5. Due(run[p], array) => Due(r, array)
    BY <2>3
       DEF Due, ReshapeDue, ManageDue, AddDue, RemoveDue, FailDue, BitmapDue
  <2> QED
    BY <1>1, <2>3, <2>4, <2>5, QuietTurn
<1> QED
  BY <1>2, <1>3

LEMMA KernelAsked ==
  ASSUME IInv, AskedInv, Settle \/ \E d \in Disks : DiskFails(d) \/ Recover(d)
  PROVE  AskedInv'
<1>1. run' = run
  BY DEF Settle, DiskFails, Recover
<1>2. Met' /\ MetBegun'
  BY <1>1 DEF AskedInv, Met, MetBegun, Active
<1>3. ASSUME NEW p \in Procs
      PROVE  Asked(p)'
  <2>1. \A ops : Alone(p, ops)' <=> Alone(p, ops)
    BY <1>1 DEF Alone
  <2> QED
    BY <1>1, <2>1, KernelDue DEF AskedInv, Asked
<1> QED
  BY <1>2, <1>3 DEF AskedInv

LEMMA NextIs ==
  ASSUME Next
  PROVE  \/ \E p \in Procs : \/ Open(p) \/ Answer(p) \/ Fails(p) \/ Count(p)
                             \/ CallStep(p)
                             \/ \E r \in Requests : Begin(p, r)
         \/ Settle \/ \E d \in Disks : DiskFails(d) \/ Recover(d)
BY DEF Next, Command, Step, CallStep

LEMMA AskedStep == IInv /\ AskedInv /\ [Next]_vars => AskedInv'
<1> SUFFICES ASSUME IInv, AskedInv, [Next]_vars
             PROVE  AskedInv'
  OBVIOUS
<1>1. CASE UNCHANGED vars
  BY <1>1 DEF vars, AskedInv, Met, MetBegun, Active, Asked, Alone
<1>2. ASSUME NEW p \in Procs, Open(p) \/ Answer(p)
      PROVE  AskedInv'
  BY <1>2, OpenSetsOut, SetsOutAsked DEF IInv
<1>3. ASSUME NEW p \in Procs, Fails(p)
      PROVE  AskedInv'
  BY <1>3, EndAsked DEF Fails, Active, Ends
<1>4. ASSUME NEW p \in Procs, Count(p) \/ CallStep(p)
      PROVE  AskedInv'
  BY <1>4, CountAsked, CallAsked
<1>5. ASSUME NEW p \in Procs, NEW r \in Requests, Begin(p, r)
      PROVE  AskedInv'
  BY <1>5, BeginAsked
<1>6. CASE Settle \/ \E d \in Disks : DiskFails(d) \/ Recover(d)
  BY <1>6, KernelAsked
<1> QED
  BY <1>1, <1>2, <1>3, <1>4, <1>5, <1>6, NextIs

LEMMA AskedAlways == Spec => [](IInv /\ AskedInv)
<1>1. Init => IInv /\ AskedInv
  <2>1. Init => AskedInv
    BY DEF Init, AskedInv, Met, MetBegun, Active, Asked, Fresh
  <2> QED
    BY <2>1, InitIInv
<1>2. IInv /\ AskedInv /\ [Next]_vars => (IInv /\ AskedInv)'
  BY NextIInv, AskedStep
<1> QED
  BY <1>1, <1>2, PTL DEF Spec

-----------------------------------------------------------------------------
(* What can have happened when a command at its calls succeeds: its last   *)
(* call, after which nothing is due.  A step that changes a bitmap or a    *)
(* device count under its eyes is its own.                                 *)
LEMMA Finishes ==
  ASSUME IInv, AskedInv, [Next]_vars, NEW p \in Procs, run[p].pc = "calls",
         Alone(p, Kin(run[p].req.op))
  PROVE  /\ run'[p].pc = "ok" =>
              \E s : /\ s.req = run[p].req /\ s.todo = <<>>
                     /\ Due(s, array')
         /\ run[p].req.op = "reshape" /\ array'.disks # array.disks =>
              array'.disks = array.disks + run[p].req.delta
         /\ run[p].req.op = "add_bitmap" /\ run'[p].pc # "ok" =>
              array'.bitmap.loc = array.bitmap.loc
<1> DEFINE Goal ==
         /\ run'[p].pc = "ok" =>
              \E s : /\ s.req = run[p].req /\ s.todo = <<>>
                     /\ Due(s, array')
         /\ run[p].req.op = "reshape" /\ array'.disks # array.disks =>
              array'.disks = array.disks + run[p].req.delta
         /\ run[p].req.op = "add_bitmap" /\ run'[p].pc # "ok" =>
              array'.bitmap.loc = array.bitmap.loc
<1>0. /\ run \in [Procs -> RunState]
      /\ AllPlanned(run[p].req, run[p].todo) /\ Ordered(run[p].todo)
      /\ Due(run[p], array)
  BY DEF IInv, RunsOK, AskedInv, Asked
<1>a. ASSUME run'[p].pc # "ok", array' = array
      PROVE  Goal
  BY <1>a
<1>b. ASSUME NEW q \in Procs, NEW how \in Ends \cup {"prompt"}, how # "ok",
             End(q, how)
      PROVE  Goal
  <2>1. /\ run' = [run EXCEPT ![q].pc = how, ![q].todo = <<>>]
        /\ array' = array
    BY <1>b DEF End
  <2>2. run'[p].pc # "ok"
    BY <1>0, <1>b, <2>1 DEF RunState
  <2> QED
    BY <1>a, <2>1, <2>2
<1>1. CASE UNCHANGED vars
  BY <1>1, <1>a DEF vars
<1>2. ASSUME NEW q \in Procs, Open(q) \/ Answer(q)
      PROVE  Goal
  <2>1. SetsOut(q)
    BY <1>2, OpenSetsOut DEF IInv
  <2>2. ASSUME NEW calls, Go(q, calls)
        PROVE  Goal
    <3>1. q # p
      BY <2>1 DEF SetsOut
    <3>2. run'[p] = run[p]
      BY <1>0, <2>2, <3>1 DEF Go
    <3> QED
      BY <1>a, <2>1, <3>2 DEF SetsOut
  <2> HIDE DEF Goal
  <2> QED
    BY <1>b, <2>1, <2>2 DEF SetsOut
<1>3. ASSUME NEW q \in Procs, Fails(q)
      PROVE  Goal
  BY <1>3, <1>b DEF Fails, Ends
<1>4. ASSUME NEW q \in Procs, Count(q)
      PROVE  Goal
  <2>1. array' = array
    BY <1>4 DEF Count
  <2>2. CASE array.disks + Arg(q) < 1
    <3>1. End(q, "err")
      BY <1>4, <2>2 DEF Count, End
    <3> QED
      BY <1>b, <3>1 DEF Ends
  <2>3. CASE ~(array.disks + Arg(q) < 1)
    <3>1. run' = [run EXCEPT ![q].num = array.disks]
      BY <1>4, <2>3 DEF Count
    <3>2. run'[p].pc = run[p].pc
      <4>1. CASE q = p
        <5>1. run'[p] = [run[p] EXCEPT !.num = array.disks]
          BY <1>0, <3>1, <4>1
        <5> QED
          BY <1>0, <5>1 DEF RunState
      <4>2. CASE q # p
        BY <1>0, <3>1, <4>2
      <4> QED
        BY <4>1, <4>2
    <3> QED
      BY <1>a, <2>1, <3>2
  <2> QED
    BY <2>2, <2>3
<1>5. ASSUME NEW q \in Procs, CallStep(q), q # p
      PROVE  Goal
  <2>1. run'[p] = run[p]
    <3>1. Go(q, Tail(run[q].todo))
      BY <1>5, Effects DEF Advance
    <3>2. PICK r : run' = [run EXCEPT ![q] = r]
      BY <3>1, GoIs
    <3> QED
      BY <1>0, <1>5, <3>2
  <2>2. AllPlanned(run[q].req, run[q].todo) /\ Ordered(run[q].todo)
    BY <1>5, Effects DEF AskedInv, Asked
  <2>3. /\ run[p].req.op = "reshape" => array'.disks = array.disks
        /\ run[p].req.op = "add_bitmap" => array'.bitmap = array.bitmap
    BY <1>0, <1>5, <2>2, OtherDue DEF AskedInv
  <2> QED
    BY <2>1, <2>3
<1>6. ASSUME NEW q \in Procs, CallStep(q), q = p
      PROVE  Goal
  <2>1. PICK r : /\ run' = [run EXCEPT ![q] = r]
                 /\ r.pc = IF Tail(run[q].todo) = <<>> THEN "ok" ELSE "calls"
                 /\ r.todo = Tail(run[q].todo) /\ r.num = 0
                 /\ r.met = run[q].met /\ r.req = run[q].req
    BY <1>6, AdvanceIs
  <2>2. run'[p] = r /\ run[q] = run[p]
    BY <1>0, <1>6, <2>1
  <2>3. Due(r, array')
    BY <1>0, <1>6, <2>1, <2>2, ReshapeOwnDue, ManageOwnDue, BitmapOwnDue DEF Due
  <2>4. run[p].req.op = "reshape" /\ array'.disks # array.disks =>
          array'.disks = array.disks + run[p].req.delta
    BY <1>0, <1>6, <2>1, <2>2, ReshapeOwnDue DEF Due
  <2>5. r.pc # "ok" => array'.bitmap.loc = array.bitmap.loc
    <3>1. r.pc # "ok" => Verb(q) # "bitmap/location"
      BY <1>0, <1>6, <2>1, <2>2, HeadGoes
    <3>2. array.bitmap = [loc |-> array.bitmap.loc, chunk |-> array.bitmap.chunk]
      BY DEF IInv, ArrayOK, ArrayType
    <3> QED
      BY <1>6, <3>1, <3>2, Effects
  <2>6. r.pc = "ok" => r.todo = <<>>
    BY <2>1
  <2> QED
    BY <2>1, <2>2, <2>3, <2>4, <2>5, <2>6
<1>7. ASSUME NEW q \in Procs, NEW r \in Requests, Begin(q, r)
      PROVE  Goal
  <2>1. array' = array /\ q # p
    BY <1>7 DEF Begin
  <2>2. run'[p] = [run[p] EXCEPT !.met = @ \cup {q}]
    BY <1>7, <2>1 DEF Begin, Active
  <2>3. run'[p].pc = run[p].pc
    BY <1>0, <2>2 DEF RunState
  <2> QED
    BY <1>a, <2>1, <2>3
<1>8. CASE Settle \/ \E d \in Disks : DiskFails(d) \/ Recover(d)
  <2>1. run' = run
    BY <1>8 DEF Settle, DiskFails, Recover
  <2>2. array'.disks = array.disks /\ array'.bitmap = array.bitmap
    BY <1>0, <1>8, KernelDue
  <2> QED
    BY <2>1, <2>2
<1> HIDE DEF Goal
<1>9. ASSUME NEW q \in Procs, CallStep(q)
      PROVE  Goal
  BY <1>5, <1>6, <1>9
<1>10. ASSUME Next
       PROVE  Goal
  <2>1. \/ \E q \in Procs : \/ Open(q) \/ Answer(q) \/ Fails(q) \/ Count(q)
                             \/ CallStep(q)
                             \/ \E r \in Requests : Begin(q, r)
        \/ Settle \/ \E d \in Disks : DiskFails(d) \/ Recover(d)
    BY <1>10, NextIs
  <2>2. ASSUME Settle \/ \E d \in Disks : DiskFails(d) \/ Recover(d)
        PROVE  Goal
    BY <1>8, <2>2 DEF Goal
  <2>3. ASSUME NEW q \in Procs,
               \/ Open(q) \/ Answer(q) \/ Fails(q) \/ Count(q) \/ CallStep(q)
               \/ \E r \in Requests : Begin(q, r)
        PROVE  Goal
    BY <1>2, <1>3, <1>4, <1>7, <1>9, <2>3
  <2> QED
    BY <2>1, <2>2, <2>3
<1> QED
  BY <1>1, <1>10 DEF Goal

LEMMA NothingWaits == \A c : ~Waits(c, <<>>)
BY DEF Waits

(* ReshapedAsAsked: whatever the kernel and the other commands do in the   *)
(* middle of it, a reshape that meets no other one, and no stop, sets all  *)
(* it was asked for, and changes the device count by its delta only.       *)
THEOREM ReshapesAreComplete == Spec => ReshapedAsAsked
<1>1. IInv /\ AskedInv /\ [Next]_vars =>
        [\A p \in Procs :
           LET r == run[p].req
           IN  run[p].pc = "calls" /\ r.op = "reshape" /\ Alone(p, {"reshape"})
                 => /\ run'[p].pc = "ok" =>
                         \A a \in Attrs : r.target[a] \in {None, array'.attr[a]}
                    /\ array'.disks # array.disks =>
                         array'.disks = array.disks + r.delta]_vars
  <2> SUFFICES ASSUME IInv, AskedInv, [Next]_vars, NEW p \in Procs,
                      run[p].pc = "calls", run[p].req.op = "reshape",
                      Alone(p, {"reshape"})
               PROVE  /\ run'[p].pc = "ok" =>
                           \A a \in Attrs :
                             run[p].req.target[a] \in {None, array'.attr[a]}
                      /\ array'.disks # array.disks =>
                           array'.disks = array.disks + run[p].req.delta
    OBVIOUS
  <2>1. Alone(p, Kin(run[p].req.op))
    BY DEF Kin
  <2>2. ASSUME run'[p].pc = "ok"
        PROVE  \A a \in Attrs :
                 run[p].req.target[a] \in {None, array'.attr[a]}
    <3>1. PICK s : s.req = run[p].req /\ s.todo = <<>> /\ Due(s, array')
      BY <2>1, <2>2, Finishes
    <3> QED
      BY <3>1, NothingWaits DEF Due, ReshapeDue
  <2> QED
    BY <2>1, <2>2, Finishes
<1> QED
  BY <1>1, AskedAlways, PTL DEF Spec, ReshapedAsAsked

(* ManagedAsAsked: disks may fail and spares take over meanwhile, and the  *)
(* same disk may be failed, removed and added in one command: a manage     *)
(* that succeeds has left every disk as it was asked to.                   *)
THEOREM ManagesAreComplete == Spec => ManagedAsAsked
<1>1. IInv /\ AskedInv /\ [Next]_vars =>
        [\A p \in Procs :
           LET r == run[p].req
           IN  run[p].pc = "calls" /\ run'[p].pc = "ok"
                 /\ r.op = "manage" /\ Alone(p, {"manage"})
                 => /\ \A d \in Named(r.add) : array'.role[d] # "out"
                    /\ \A d \in Named(r.remove) \ Named(r.add) :
                         array'.role[d] = "out"
                    /\ \A d \in Named(r.fail) \ Named(r.remove \o r.add) :
                         array'.role[d] = "faulty"]_vars
  <2> SUFFICES ASSUME IInv, AskedInv, [Next]_vars, NEW p \in Procs,
                      run[p].pc = "calls", run'[p].pc = "ok",
                      run[p].req.op = "manage", Alone(p, {"manage"})
               PROVE  LET r == run[p].req
                      IN  /\ \A d \in Named(r.add) : array'.role[d] # "out"
                          /\ \A d \in Named(r.remove) \ Named(r.add) :
                               array'.role[d] = "out"
                          /\ \A d \in Named(r.fail) \ Named(r.remove \o r.add) :
                               array'.role[d] = "faulty"
    OBVIOUS
  <2>1. Alone(p, Kin(run[p].req.op))
    BY DEF Kin
  <2>2. PICK s : s.req = run[p].req /\ s.todo = <<>> /\ Due(s, array')
    BY <2>1, Finishes
  <2> QED
    BY <2>2, NothingWaits DEF Due, ManageDue, AddDue, RemoveDue, FailDue
<1> QED
  BY <1>1, AskedAlways, PTL DEF Spec, ManagedAsAsked

(* BitmapAsAsked: the location is written last, so an add of a bitmap      *)
(* turns it on in the step in which it succeeds, with the chunk size it    *)
(* was asked for, and in no other.                                         *)
THEOREM BitmapsAreComplete == Spec => BitmapAsAsked
<1>1. IInv /\ AskedInv /\ [Next]_vars =>
        [\A p \in Procs :
           LET r == run[p].req
           IN  run[p].pc = "calls" /\ r.op = "add_bitmap" /\ Alone(p, BitmapOps)
                 => /\ run'[p].pc = "ok"
                         => /\ array'.bitmap.loc = r.loc
                            /\ r.chunk \in {None, array'.bitmap.chunk}
                    /\ run'[p].pc # "ok" =>
                         array'.bitmap.loc = array.bitmap.loc]_vars
  <2> SUFFICES ASSUME IInv, AskedInv, [Next]_vars, NEW p \in Procs,
                      run[p].pc = "calls", run[p].req.op = "add_bitmap",
                      Alone(p, BitmapOps)
               PROVE  /\ run'[p].pc = "ok"
                           => /\ array'.bitmap.loc = run[p].req.loc
                              /\ run[p].req.chunk \in {None, array'.bitmap.chunk}
                      /\ run'[p].pc # "ok" =>
                           array'.bitmap.loc = array.bitmap.loc
    OBVIOUS
  <2>1. Alone(p, Kin(run[p].req.op))
    BY DEF Kin
  <2>2. ASSUME run'[p].pc = "ok"
        PROVE  /\ array'.bitmap.loc = run[p].req.loc
               /\ run[p].req.chunk \in {None, array'.bitmap.chunk}
    <3>1. PICK s : s.req = run[p].req /\ s.todo = <<>> /\ Due(s, array')
      BY <2>1, <2>2, Finishes
    <3> QED
      BY <3>1, NothingWaits DEF Due, BitmapDue
  <2> QED
    BY <2>1, <2>2, Finishes
<1> QED
  BY <1>1, AskedAlways, PTL DEF Spec, BitmapAsAsked
=============================================================================
