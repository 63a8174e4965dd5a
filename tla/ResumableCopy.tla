---------------------------- MODULE ResumableCopy ----------------------------
(***************************************************************************)
(* What migration.rs promises to whoever reads a state file: blocks that   *)
(* have been copied stay copied, and a claim is only ever made about blocks*)
(* that are already there.  A claim may be withdrawn (the file torn) or    *)
(* replaced by an older one at any time; an offset in a claim is covered   *)
(* by the target, and "Completed" is claimed of synced data only.          *)
(***************************************************************************)
EXTENDS Integers

CONSTANTS Jobs, Ids, IdOf, SourceSize

VARIABLES
  claim,   \* claim[i]: what state file i says
  held,    \* held[j]: blocks of the source that the target of j returns
  safe     \* safe[j]: those that would survive a power cut

avars == <<claim, held, safe>>

Status == {"Running", "Paused", "Completed"}
Claim == [whole : BOOLEAN, copied : Nat, status : Status]
NoClaim == [whole |-> FALSE, copied |-> 0, status |-> "Running"]

(* Claim c is true of pair j.                                              *)
Justified(c, j) ==
  /\ 0 .. (c.copied - 1) \subseteq held[j]
  /\ c.status = "Completed" => 0 .. (SourceSize[j] - 1) \subseteq safe[j]

Init ==
  /\ claim = [i \in Ids |-> NoClaim]
  /\ held = [j \in Jobs |-> {}]
  /\ safe = [j \in Jobs |-> {}]

Land(j) ==
  /\ held' = [held EXCEPT ![j] = held'[j]]
  /\ held[j] \subseteq held'[j]
  /\ held'[j] \subseteq 0 .. (SourceSize[j] - 1)
  /\ UNCHANGED <<claim, safe>>

Sync(j) ==
  /\ safe' = [safe EXCEPT ![j] = held[j]]
  /\ UNCHANGED <<claim, held>>

Withdraw(i) ==
  /\ claim' = [claim EXCEPT ![i] = NoClaim]
  /\ UNCHANGED <<held, safe>>

Assert(i) ==
  /\ claim' = [claim EXCEPT ![i] = claim'[i]]
  /\ claim'[i] \in Claim
  /\ claim'[i].whole
  /\ \A j \in Jobs : IdOf[j] = i => Justified(claim'[i], j)
  /\ UNCHANGED <<held, safe>>

Next ==
  \/ \E j \in Jobs : Land(j) \/ Sync(j)
  \/ \E i \in Ids : Withdraw(i) \/ Assert(i)

Spec == Init /\ [][Next]_avars
=============================================================================
