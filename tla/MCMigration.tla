---------------------------- MODULE MCMigration -----------------------------
(* Small instances of Migration for TLC. *)
EXTENDS Migration, FiniteSets

CONSTANTS p1, p2, p3, p4, a, b, c

(* Two invocations on a, whose target has room to spare; one on b, whose   *)
(* target is too small; one on c, whose target is too small and whose      *)
(* sizes may be unknown.  Spliced digits spell a number past the end of a. *)
PairOf == [p \in Procs |-> IF p = p3 THEN b ELSE IF p = p4 THEN c ELSE a]
FileOf == [j \in Jobs |-> j]
Source == [j \in Jobs |-> 2]
Target == [j \in Jobs |-> IF j = a THEN 3 ELSE 1]

(* One pair, on which every invocation works, and whose target just fits.  *)
Two == [j \in Jobs |-> 2]

(* Pairs do not interact: a behaviour in which only one of them is touched *)
(* is enough.                                                              *)
Untouched(j) ==
  /\ file[FileOf[j]] = Unreadable
  /\ landed[j] = {}
  /\ \A p \in Procs : PairOf[p] = j => run[p].pc = "idle"
OnePair == Cardinality({j \in Jobs : Untouched(j)}) >= Cardinality(Jobs) - 1
OnePairSpec == Init /\ [][Next /\ OnePair']_vars
                    /\ \A p \in Procs : WF_vars(Step(p))
=============================================================================
