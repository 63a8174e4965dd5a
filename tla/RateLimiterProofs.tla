-------------------------- MODULE RateLimiterProofs --------------------------
(***************************************************************************)
(* Proofs about RateLimiter for any clients, limit and window length.      *)
(***************************************************************************)
EXTENDS RateLimiter, TLAPS

USE RateLimiterAssumption

EntryState == [present : BOOLEAN, count : 0 .. MaxRequests, age : Nat]

LEMMA NoEntryType == NoEntry \in EntryState
BY DEF NoEntry, EntryState

LEMMA CurrentType ==
  ASSUME TypeOK, NEW k \in Keys
  PROVE  /\ Current(k) \in EntryState
         /\ Current(k).present
         /\ Current(k).age < Window
BY DEF TypeOK, Current, Entry, EntryState

(* TypeOK: ranges; no stored count exceeds the limit.                      *)
THEOREM TypeCorrect == Spec => []TypeOK
<1>1. Init => TypeOK
  <2> SUFFICES ASSUME Init PROVE TypeOK
    OBVIOUS
  <2>1. recent \in [Keys -> [0 .. Window - 1 -> Nat]]
    BY DEF Init
  <2> QED
    BY <2>1, NoEntryType DEF Init, TypeOK, EntryState
<1>2. TypeOK /\ [Next]_vars => TypeOK'
  <2> SUFFICES ASSUME TypeOK, [Next]_vars
               PROVE  TypeOK'
    OBVIOUS
  <2>1. CASE UNCHANGED vars
    BY <2>1 DEF vars, TypeOK
  <2>2. ASSUME NEW k \in Keys, NEW e \in EntryState, e.present,
               tracker' = [tracker EXCEPT ![k] = e]
        PROVE  /\ tracker' \in [Keys -> EntryState]
               /\ \A j \in Keys : ~tracker'[j].present => tracker'[j] = NoEntry
    BY <2>2 DEF TypeOK, EntryState
  <2>3. ASSUME NEW k \in Keys, Admit(k) PROVE TypeOK'
    <3> DEFINE e == Entry(Current(k).count + 1, Current(k).age)
    <3>1. e \in EntryState /\ e.present
      BY <2>3, CurrentType DEF Admit, Entry, EntryState
    <3>2. recent' \in [Keys -> [0 .. Window - 1 -> Nat]]
      BY <2>3 DEF Admit, Counted, TypeOK
    <3> QED
      BY <2>2, <2>3, <3>1, <3>2 DEF Admit, TypeOK, EntryState
  <2>4. ASSUME NEW k \in Keys, Refuse(k) PROVE TypeOK'
    BY <2>2, <2>4, CurrentType DEF Refuse, TypeOK, EntryState
  <2>5. CASE Cleanup
    BY <2>5, NoEntryType DEF Cleanup, TypeOK, EntryState
  <2>6. CASE Tick
    <3> DEFINE e(k) == IF tracker[k].present
                         THEN [tracker[k] EXCEPT !.age = @ + 1]
                         ELSE NoEntry
    <3>1. ASSUME NEW k \in Keys
          PROVE  e(k) \in EntryState /\ (~e(k).present => e(k) = NoEntry)
      <4>1. tracker[k] \in EntryState
        BY <3>1 DEF TypeOK, EntryState
      <4>2. CASE tracker[k].present
        BY <4>1, <4>2 DEF EntryState
      <4>3. CASE ~tracker[k].present
        BY <4>3, NoEntryType
      <4> QED
        BY <4>2, <4>3
    <3>2. /\ tracker' \in [Keys -> EntryState]
          /\ \A k \in Keys : ~tracker'[k].present => tracker'[k] = NoEntry
      BY <2>6, <3>1 DEF Tick
    <3>3. recent' \in [Keys -> [0 .. Window - 1 -> Nat]]
      BY SMTT(30), <2>6 DEF Tick, TypeOK
    <3> QED
      BY <2>6, <3>2, <3>3 DEF Tick, TypeOK, EntryState
  <2> QED
    BY <2>1, <2>3, <2>4, <2>5, <2>6 DEF Next, Request
<1> QED
  BY <1>1, <1>2, PTL DEF Spec

(* TrackersExpire: the cleanup leaves entries younger than two windows and *)
(* comes back after two windows, so none gets to be four windows old.      *)
THEOREM EntriesExpire == Spec => []TrackersExpire
<1>1. Init => TrackersExpire
  BY DEF Init, TrackersExpire, NoEntry
<1>2. TypeOK /\ TrackersExpire /\ [Next]_vars => TrackersExpire'
  <2> SUFFICES ASSUME TypeOK, TrackersExpire, [Next]_vars, NEW k \in Keys,
                      tracker'[k].present
               PROVE  tracker'[k].age + due' < 4 * Window
    BY DEF TrackersExpire
  <2>0. /\ tracker[k] \in EntryState
        /\ due \in 0 .. 2 * Window
        /\ tracker[k].present => tracker[k].age + due < 4 * Window
    BY DEF TypeOK, EntryState, TrackersExpire
  <2>1. CASE UNCHANGED vars
    BY <2>0, <2>1 DEF vars
  <2>2. ASSUME NEW j \in Keys, Request(j)
        PROVE  tracker'[k].age + due' < 4 * Window
    <3>1. CASE j = k
      <4>1. tracker'[k].age = Current(k).age /\ due' = due
        BY <2>2, <3>1 DEF Request, Admit, Refuse, Entry, TypeOK
      <4>2. Current(k).age < Window /\ Current(k).age \in Nat
        BY CurrentType DEF EntryState
      <4> QED
        BY <2>0, <4>1, <4>2
    <3>2. CASE j # k
      BY <2>0, <2>2, <3>2 DEF Request, Admit, Refuse, TypeOK
    <3> QED
      BY <3>1, <3>2
  <2>3. CASE Cleanup
    <3>1. tracker[k].age < 2 * Window /\ tracker'[k] = tracker[k]
      BY <2>3 DEF Cleanup, NoEntry
    <3> QED
      BY <2>0, <2>3, <3>1 DEF Cleanup, EntryState
  <2>4. CASE Tick
    <3>1. tracker[k].present /\ tracker'[k].age = tracker[k].age + 1
      BY <2>0, <2>4 DEF Tick, NoEntry, EntryState
    <3> QED
      BY <2>0, <2>4, <3>1 DEF Tick, EntryState
  <2> QED
    BY <2>1, <2>2, <2>3, <2>4 DEF Next
<1> QED
  BY <1>1, <1>2, TypeCorrect, PTL DEF Spec

-----------------------------------------------------------------------------
(* Bursts and refusals.  The counts by age grow with the age; and an entry *)
(* accounts for what its client had admitted: within its window, for all   *)
(* since the window began, and before that for at most another limit full; *)
(* past its window, for all that can still be recent.                      *)
Growing(k) ==
  \A a, b \in 0 .. Window - 1 : a <= b => recent[k][a] <= recent[k][b]

Accounted(k) ==
  LET age == tracker[k].age IN
  IF ~tracker[k].present \/ age >= 2 * Window THEN Admitted(k) = 0
  ELSE IF age >= Window THEN /\ recent[k][age - Window] = 0
                             /\ Admitted(k) <= tracker[k].count
  ELSE /\ recent[k][age] = tracker[k].count
       /\ Admitted(k) <= tracker[k].count + MaxRequests

Ledger == \A k \in Keys : Growing(k) /\ Accounted(k)

LEMMA RecentType ==
  ASSUME TypeOK, NEW k \in Keys
  PROVE  /\ tracker[k] \in EntryState
         /\ recent[k] \in [0 .. Window - 1 -> Nat]
         /\ Admitted(k) \in Nat
BY DEF TypeOK, EntryState, Admitted

(* Nothing was admitted in this window before the entry is reset: its      *)
(* count starts right.                                                     *)
LEMMA CurrentAccounted ==
  ASSUME TypeOK, Ledger, NEW k \in Keys
  PROVE  /\ recent[k][Current(k).age] = Current(k).count
         /\ Admitted(k) <= Current(k).count + MaxRequests
<1>0. tracker[k] \in EntryState /\ recent[k] \in [0 .. Window - 1 -> Nat]
  BY RecentType
<1>1. CASE tracker[k].present /\ tracker[k].age < Window
  BY <1>0, <1>1 DEF Current, Ledger, Accounted, EntryState
<1>2. CASE ~(tracker[k].present /\ tracker[k].age < Window)
  <2>1. Current(k).age = 0 /\ Current(k).count = 0
    BY <1>2 DEF Current, Entry
  <2>2. CASE ~tracker[k].present \/ tracker[k].age >= 2 * Window
    <3>1. recent[k][Window - 1] = 0
      BY <2>2 DEF Ledger, Accounted, Admitted
    <3>2. recent[k][0] <= recent[k][Window - 1]
      BY DEF Ledger, Growing
    <3> QED
      BY <1>0, <2>1, <3>1, <3>2 DEF Admitted
  <2>3. CASE tracker[k].present /\ tracker[k].age < 2 * Window
    <3> DEFINE a == tracker[k].age - Window
    <3>1. a \in 0 .. Window - 1
      BY <1>0, <1>2, <2>3 DEF EntryState
    <3>2. recent[k][a] = 0 /\ Admitted(k) <= tracker[k].count
      BY <1>0, <1>2, <2>3 DEF Ledger, Accounted, EntryState
    <3>3. recent[k][0] <= recent[k][a]
      BY <3>1 DEF Ledger, Growing
    <3>4. recent[k][0] = 0
      BY <1>0, <3>1, <3>2, <3>3
    <3> QED
      BY <1>0, <2>1, <3>2, <3>4, RecentType DEF EntryState
  <2> QED
    BY <1>0, <2>2, <2>3 DEF EntryState
<1> QED
  BY <1>1, <1>2

LEMMA LedgerKept ==
  ASSUME TypeOK, Ledger, [Next]_vars
  PROVE  Ledger'
<1> SUFFICES ASSUME NEW k \in Keys
             PROVE  Growing(k)' /\ Accounted(k)'
  BY DEF Ledger
<1>0. /\ tracker[k] \in EntryState
      /\ recent[k] \in [0 .. Window - 1 -> Nat]
      /\ Current(k) \in EntryState
      /\ Current(k).present
      /\ Current(k).age < Window
      /\ Growing(k)
      /\ Accounted(k)
  BY RecentType, CurrentType DEF Ledger
<1>1. ASSUME tracker'[k] = tracker[k], recent'[k] = recent[k]
      PROVE  Growing(k)' /\ Accounted(k)'
  BY <1>0, <1>1 DEF Growing, Accounted, Admitted
<1>2. CASE UNCHANGED vars
  BY <1>1, <1>2 DEF vars
<1>3. ASSUME NEW j \in Keys, Request(j), j # k
      PROVE  Growing(k)' /\ Accounted(k)'
  BY <1>1, <1>3 DEF Request, Admit, Refuse, Counted, TypeOK
<1>4. CASE Admit(k)
  <2>1. /\ tracker'[k].present
        /\ tracker'[k].count = Current(k).count + 1
        /\ tracker'[k].age = Current(k).age
    BY <1>4 DEF Admit, Entry, TypeOK
  <2>2. \A a \in 0 .. Window - 1 : recent'[k][a] = recent[k][a] + 1
    BY <1>4 DEF Admit, Counted, TypeOK
  <2>3. Growing(k)'
    <3> SUFFICES ASSUME NEW a \in 0 .. Window - 1, NEW b \in 0 .. Window - 1,
                        a <= b
                 PROVE  recent'[k][a] <= recent'[k][b]
      BY DEF Growing
    <3>1. recent[k][a] <= recent[k][b]
      BY <1>0 DEF Growing
    <3> QED
      BY <1>0, <2>2, <3>1
  <2>4. Current(k).age \in 0 .. Window - 1
    BY <1>0 DEF EntryState
  <2>5. recent'[k][Current(k).age] = Current(k).count + 1
    BY <2>2, <2>4, CurrentAccounted
  <2>6. recent'[k][Window - 1] <= Current(k).count + 1 + MaxRequests
    <3>1. recent'[k][Window - 1] = Admitted(k) + 1
      BY <2>2 DEF Admitted
    <3>2. Admitted(k) <= Current(k).count + MaxRequests
      BY CurrentAccounted
    <3> QED
      BY <1>0, <3>1, <3>2, RecentType DEF EntryState
  <2> QED
    BY <1>0, <2>1, <2>3, <2>4, <2>5, <2>6 DEF Accounted, Admitted
<1>5. CASE Refuse(k)
  <2>1. tracker'[k] = Current(k) /\ recent' = recent
    BY <1>5 DEF Refuse, TypeOK
  <2>2. Accounted(k)'
    BY SMTT(30), <1>0, <2>1, CurrentAccounted DEF Accounted, Admitted, EntryState
  <2> QED
    BY <1>0, <2>1, <2>2 DEF Growing
<1>6. CASE Cleanup
  <2>1. CASE tracker[k].age < 2 * Window
    BY <1>1, <1>6, <2>1 DEF Cleanup
  <2>2. CASE ~(tracker[k].age < 2 * Window)
    <3>1. tracker'[k] = NoEntry /\ recent' = recent
      BY <1>6, <2>2 DEF Cleanup
    <3>2. Admitted(k) = 0
      BY <1>0, <2>2 DEF Accounted, EntryState
    <3> QED
      BY <1>0, <3>1, <3>2 DEF Growing, Accounted, Admitted, NoEntry
  <2> QED
    BY <2>1, <2>2
<1>7. CASE Tick
  <2>1. \A a \in 0 .. Window - 1 :
          recent'[k][a] = IF a = 0 THEN 0 ELSE recent[k][a - 1]
    BY <1>7 DEF Tick
  <2>2. Growing(k)'
    <3> SUFFICES ASSUME NEW a \in 0 .. Window - 1, NEW b \in 0 .. Window - 1,
                        a <= b
                 PROVE  recent'[k][a] <= recent'[k][b]
      BY DEF Growing
    <3>1. CASE a = 0
      <4>1. recent'[k][a] = 0
        BY <2>1, <3>1
      <4>2. recent'[k][b] = 0 \/ (b - 1 \in 0 .. Window - 1 /\ recent'[k][b] = recent[k][b - 1])
        BY <2>1
      <4> QED
        BY <1>0, <4>1, <4>2
    <3>2. CASE a > 0
      <4>1. /\ a - 1 \in 0 .. Window - 1
            /\ b - 1 \in 0 .. Window - 1
            /\ a - 1 <= b - 1
        BY <3>2
      <4>2. recent[k][a - 1] <= recent[k][b - 1]
        BY <1>0, <4>1 DEF Growing
      <4> QED
        BY <2>1, <3>2, <4>2
    <3> QED
      BY <3>1, <3>2
  <2>3. Admitted(k)' \in Nat /\ Admitted(k)' <= Admitted(k)
    <3>0. recent[k] \in [0 .. Window - 1 -> Nat] /\ Window - 1 \in 0 .. Window - 1
      BY <1>0 DEF TypeOK
    <3>1. CASE Window = 1
      <4>1. recent'[k][Window - 1] = 0
        BY <2>1, <3>1
      <4> QED
        BY <3>0, <4>1 DEF Admitted
    <3>2. CASE Window # 1
      <4>1. Window - 2 \in 0 .. Window - 1
        BY <3>2
      <4>2. recent'[k][Window - 1] = recent[k][Window - 2]
        BY <2>1, <3>0, <3>2
      <4>3. recent[k][Window - 2] <= recent[k][Window - 1]
        BY <1>0, <3>0, <4>1 DEF Growing
      <4> QED
        BY <3>0, <4>1, <4>2, <4>3 DEF Admitted
    <3> QED
      BY <3>1, <3>2
  <2>4. CASE ~tracker[k].present \/ tracker[k].age >= 2 * Window
    <3>1. Admitted(k)' = 0
      BY <1>0, <2>3, <2>4, RecentType DEF Accounted
    <3>2. ~tracker'[k].present \/ tracker'[k].age >= 2 * Window
      BY <1>0, <1>7, <2>4 DEF Tick, NoEntry, EntryState
    <3> QED
      BY <2>2, <3>1, <3>2 DEF Accounted
  <2>5. CASE tracker[k].present /\ tracker[k].age < 2 * Window
    <3>1. tracker'[k] = [tracker[k] EXCEPT !.age = @ + 1]
      BY <1>7, <2>5 DEF Tick
    <3>2. /\ tracker'[k].present
          /\ tracker'[k].age = tracker[k].age + 1
          /\ tracker'[k].count = tracker[k].count
      BY <1>0, <2>5, <3>1 DEF EntryState
    <3>3. CASE tracker[k].age < Window - 1
      <4>0. /\ tracker[k].age + 1 \in 0 .. Window - 1
            /\ tracker[k].age + 1 # 0
            /\ (tracker[k].age + 1) - 1 = tracker[k].age
        BY SMTT(30), <1>0, <3>3 DEF EntryState
      <4>1. recent'[k][tracker[k].age + 1] = tracker[k].count
        <5>1. recent[k][tracker[k].age] = tracker[k].count
          BY <1>0, <2>5, <3>3 DEF Accounted, EntryState
        <5> QED
          BY <2>1, <4>0, <5>1
      <4>2. Admitted(k) <= tracker[k].count + MaxRequests
        BY <1>0, <2>5, <3>3 DEF Accounted, EntryState
      <4>3. Admitted(k)' <= tracker[k].count + MaxRequests
        BY <1>0, <2>3, <4>2, RecentType DEF EntryState
      <4> QED
        BY <1>0, <2>2, <3>2, <3>3, <4>1, <4>3 DEF Accounted, EntryState
    <3>4. CASE tracker[k].age = Window - 1
      <4>1. Admitted(k) = tracker[k].count
        BY <1>0, <2>5, <3>4 DEF Accounted, Admitted, EntryState
      <4>2. recent'[k][0] = 0
        BY <2>1
      <4> QED
        BY <1>0, <2>2, <2>3, <3>2, <3>4, <4>1, <4>2 DEF Accounted, EntryState
    <3>5. CASE tracker[k].age >= Window
      <4> DEFINE a == tracker[k].age - Window
      <4>1. a \in 0 .. Window - 1
        BY <1>0, <2>5, <3>5 DEF EntryState
      <4>2. recent[k][a] = 0 /\ Admitted(k) <= tracker[k].count
        BY <1>0, <2>5, <3>5 DEF Accounted, EntryState
      <4>3. Admitted(k)' <= tracker[k].count
        BY <1>0, <2>3, <4>2, RecentType DEF EntryState
      <4>4. CASE a = Window - 1
        <5>1. Admitted(k)' = 0
          BY <2>3, <4>2, <4>4 DEF Admitted
        <5> QED
          BY <1>0, <2>2, <3>2, <4>4, <5>1 DEF Accounted, EntryState
      <4>5. CASE a < Window - 1
        <5>0. tracker[k].age \in Nat /\ tracker'[k].age - Window = a + 1
          BY <1>0, <3>2 DEF EntryState
        <5>1. a + 1 \in 0 .. Window - 1 /\ a + 1 # 0 /\ (a + 1) - 1 = a
          BY <4>1, <4>5, <5>0
        <5>2. recent'[k][tracker'[k].age - Window] = 0
          <6> HIDE DEF a
          <6> QED
            BY <2>1, <4>2, <5>0, <5>1
        <5> QED
          BY <1>0, <2>2, <3>2, <4>1, <4>3, <4>5, <5>2 DEF Accounted, EntryState
      <4> QED
        BY <4>1, <4>4, <4>5
    <3> QED
      <4>1. tracker[k].age \in Nat
        BY <1>0 DEF EntryState
      <4>2. \/ tracker[k].age < Window - 1
            \/ tracker[k].age = Window - 1
            \/ tracker[k].age >= Window
        BY <4>1
      <4> QED
        BY <3>3, <3>4, <3>5, <4>2
  <2> QED
    BY <1>0, <2>4, <2>5 DEF EntryState
<1> QED
  BY <1>2, <1>3, <1>4, <1>5, <1>6, <1>7 DEF Next, Request

LEMMA LedgerAlways == Spec => [](TypeOK /\ Ledger)
<1>1. Init => Ledger
  <2> SUFFICES ASSUME Init, NEW k \in Keys
               PROVE  Growing(k) /\ Accounted(k)
    BY DEF Ledger
  <2>1. \A a \in 0 .. Window - 1 : recent[k][a] = 0
    BY DEF Init
  <2>2. ~tracker[k].present
    BY DEF Init, NoEntry
  <2> QED
    BY <2>1, <2>2 DEF Growing, Accounted, Admitted
<1>2. TypeOK /\ Ledger /\ [Next]_vars => Ledger'
  BY LedgerKept
<1> QED
  BY <1>1, <1>2, TypeCorrect, PTL DEF Spec

(* BurstBound: no client gets more than twice the limit admitted in any    *)
(* stretch of one window length, whatever is reset or dropped in between.  *)
THEOREM BurstsBounded == Spec => []BurstBound
<1>1. TypeOK /\ Ledger => BurstBound
  <2> SUFFICES ASSUME TypeOK, Ledger, NEW k \in Keys
               PROVE  Admitted(k) <= 2 * MaxRequests
    BY DEF BurstBound
  <2> QED
    BY RecentType, CurrentType, CurrentAccounted DEF EntryState
<1> QED
  BY <1>1, LedgerAlways, PTL

(* RefusalEarned: only a client that has itself had the full limit         *)
(* admitted within the last window length would be refused.                *)
THEOREM RefusalsEarned == Spec => []RefusalEarned
<1>1. TypeOK /\ Ledger => RefusalEarned
  <2> SUFFICES ASSUME TypeOK, Ledger, NEW k \in Keys,
                      Current(k).count >= MaxRequests
               PROVE  Admitted(k) >= MaxRequests
    BY DEF RefusalEarned
  <2>1. Current(k) \in EntryState /\ Current(k).age \in 0 .. Window - 1
    BY CurrentType DEF EntryState
  <2>2. recent[k][Current(k).age] <= Admitted(k)
    BY <2>1 DEF Ledger, Growing, Admitted
  <2> QED
    BY <2>1, <2>2, RecentType, CurrentAccounted DEF EntryState
<1> QED
  BY <1>1, LedgerAlways, PTL

-----------------------------------------------------------------------------
(* The refinement.  An entry holds at least one admitted request, unless   *)
(* the limit is 0: so an entry whose window is open is an open window.     *)
NoEmptyEntry ==
  \A k \in Keys : tracker[k].present => tracker[k].count > 0 \/ MaxRequests = 0

LEMMA EntriesAreUsed == Spec => [](TypeOK /\ NoEmptyEntry)
<1>1. Init => NoEmptyEntry
  BY DEF Init, NoEmptyEntry, NoEntry
<1>2. TypeOK /\ NoEmptyEntry /\ [Next]_vars => NoEmptyEntry'
  <2> SUFFICES ASSUME TypeOK, NoEmptyEntry, [Next]_vars, NEW k \in Keys,
                      tracker'[k].present, MaxRequests # 0
               PROVE  tracker'[k].count > 0
    BY DEF NoEmptyEntry
  <2>0. tracker[k] \in EntryState /\ (tracker[k].present => tracker[k].count > 0)
    BY DEF TypeOK, EntryState, NoEmptyEntry
  <2>1. CASE tracker'[k] = tracker[k]
    BY <2>0, <2>1
  <2>2. CASE Admit(k)
    <3>1. tracker'[k].count = Current(k).count + 1
      BY <2>2 DEF Admit, Entry, TypeOK
    <3> QED
      BY <3>1, CurrentType DEF EntryState
  <2>3. CASE Refuse(k)
    <3>1. tracker'[k] = Current(k) /\ Current(k).count >= MaxRequests
      BY <2>3 DEF Refuse, TypeOK
    <3> QED
      BY <3>1, CurrentType DEF EntryState
  <2>4. ASSUME NEW j \in Keys, Request(j), j # k
        PROVE  tracker'[k] = tracker[k]
    BY <2>4 DEF Request, Admit, Refuse, TypeOK
  <2>5. CASE Cleanup
    BY <2>0, <2>5 DEF Cleanup, NoEntry
  <2>6. CASE Tick
    BY <2>0, <2>6 DEF Tick, NoEntry, EntryState
  <2>7. CASE UNCHANGED vars
    BY <2>1, <2>7 DEF vars
  <2> QED
    BY <2>1, <2>2, <2>3, <2>4, <2>5, <2>6, <2>7 DEF Next, Request
<1> QED
  BY <1>1, <1>2, TypeCorrect, PTL DEF Spec

LEMMA CurrentLive ==
  ASSUME TypeOK, NoEmptyEntry, NEW k \in Keys
  PROVE  /\ Current(k).count = UsedOf(k)
         /\ Live(k) => Current(k) = tracker[k]
         /\ ~Live(k) /\ MaxRequests # 0 => Current(k) = Entry(0, 0)
BY DEF TypeOK, NoEmptyEntry, Current, Live, Entry, UsedOf

(* How the window of one client changes with its entry.                    *)
LEMMA WindowKept ==
  ASSUME NEW k \in Keys, tracker'[k] = tracker[k]
  PROVE  UsedOf(k)' = UsedOf(k) /\ LeftOf(k)' = LeftOf(k)
BY DEF UsedOf, LeftOf, Live

LEMMA StepRefines ==
  ASSUME TypeOK, NoEmptyEntry, [Next]_vars
  PROVE  [Windows!Next]_Windows!fvars
<1>0. ASSUME NEW k \in Keys
      PROVE  tracker[k] \in EntryState /\ Current(k) \in EntryState
  BY CurrentType DEF TypeOK, EntryState
<1>1. CASE UNCHANGED vars
  BY <1>1, WindowKept DEF vars, Windows!fvars
<1>2. ASSUME NEW k \in Keys, Admit(k)
      PROVE  Windows!Admit(k)
  <2>1. UsedOf(k) < MaxRequests /\ MaxRequests # 0
    BY <1>0, <1>2, CurrentLive DEF Admit, EntryState
  <2>2. tracker'[k] = Entry(Current(k).count + 1, Current(k).age)
    BY <1>2 DEF Admit, TypeOK
  <2>3. Live(k)' /\ UsedOf(k)' = UsedOf(k) + 1
    BY <1>0, <2>2, CurrentLive, CurrentType DEF Entry, Live, UsedOf, EntryState
  <2>4. LeftOf(k)' = IF LeftOf(k) = 0 THEN Window ELSE LeftOf(k)
    <3>1. LeftOf(k)' = Window - Current(k).age
      BY <2>2, <2>3 DEF LeftOf, Entry
    <3>2. CASE Live(k)
      BY <1>0, <3>1, <3>2, CurrentLive DEF LeftOf, Live, EntryState
    <3>3. CASE ~Live(k)
      BY <2>1, <3>1, <3>3, CurrentLive DEF LeftOf, Entry
    <3> QED
      BY <3>2, <3>3
  <2>5. ASSUME NEW j \in Keys, j # k
        PROVE  UsedOf(j)' = UsedOf(j) /\ LeftOf(j)' = LeftOf(j)
    BY <1>2, <2>5, WindowKept DEF Admit, TypeOK
  <2>6. answer' = [answer EXCEPT ![k] = "ok"]
    BY <1>2 DEF Admit
  <2> QED
    BY <2>1, <2>3, <2>4, <2>5, <2>6 DEF Windows!Admit
<1>3. ASSUME NEW k \in Keys, Refuse(k)
      PROVE  Windows!Refuse(k)
  <2>1. UsedOf(k) = MaxRequests
    BY <1>0, <1>3, CurrentLive DEF Refuse, EntryState
  <2>2. tracker'[k] = Current(k)
    BY <1>3 DEF Refuse, TypeOK
  <2>3. UsedOf(k)' = UsedOf(k) /\ LeftOf(k)' = LeftOf(k)
    <3>1. CASE Live(k)
      BY <2>2, <3>1, CurrentLive, WindowKept
    <3>2. CASE ~Live(k)
      <4>1. Current(k).count = 0
        BY <3>2, CurrentLive DEF UsedOf
      <4> QED
        BY <2>2, <3>2, <4>1 DEF UsedOf, LeftOf, Live
    <3> QED
      BY <3>1, <3>2
  <2>4. ASSUME NEW j \in Keys, j # k
        PROVE  UsedOf(j)' = UsedOf(j) /\ LeftOf(j)' = LeftOf(j)
    BY <1>3, <2>4, WindowKept DEF Refuse, TypeOK
  <2> QED
    BY <1>3, <2>1, <2>3, <2>4 DEF Windows!Refuse, Refuse
<1>4. CASE Cleanup
  <2>1. ASSUME NEW k \in Keys
        PROVE  UsedOf(k)' = UsedOf(k) /\ LeftOf(k)' = LeftOf(k)
    <3>1. CASE tracker[k].age < 2 * Window
      BY <1>4, <3>1, WindowKept DEF Cleanup
    <3>2. CASE ~(tracker[k].age < 2 * Window)
      <4>1. ~Live(k) /\ tracker'[k] = NoEntry
        BY <1>0, <1>4, <3>2 DEF Cleanup, Live, EntryState
      <4> QED
        BY <4>1 DEF UsedOf, LeftOf, Live, NoEntry
    <3> QED
      BY <3>1, <3>2
  <2> QED
    BY <1>4, <2>1 DEF Cleanup, Windows!fvars
<1>5. CASE Tick
  <2>1. ASSUME NEW k \in Keys
        PROVE  /\ LeftOf(k)' = IF LeftOf(k) = 0 THEN 0 ELSE LeftOf(k) - 1
               /\ UsedOf(k)' = IF LeftOf(k) <= 1 THEN 0 ELSE UsedOf(k)
    <3>1. /\ tracker'[k].present = tracker[k].present
          /\ tracker'[k].present =>
               /\ tracker'[k].count = tracker[k].count
               /\ tracker'[k].age = tracker[k].age + 1
      BY <1>0, <1>5 DEF Tick, NoEntry, EntryState
    <3> QED
      BY <1>0, <3>1 DEF LeftOf, UsedOf, Live, EntryState
  <2> QED
    BY <1>5, <2>1 DEF Tick, Windows!Tick, Windows!Next
<1> QED
  BY <1>1, <1>2, <1>3, <1>4, <1>5 DEF Next, Request, Windows!Next

(* IsFixedWindow: lazy resets, insertions and the cleanup task cannot be   *)
(* seen by a client; it gets the answers of a plain fixed window.          *)
THEOREM ImplementsFixedWindow == Spec => IsFixedWindow
<1>1. Init => Windows!Init
  BY DEF Init, Windows!Init, UsedOf, LeftOf, Live, NoEntry
<1>2. TypeOK /\ NoEmptyEntry /\ [Next]_vars => [Windows!Next]_Windows!fvars
  BY StepRefines
<1> QED
  BY <1>1, <1>2, EntriesAreUsed, PTL DEF Spec, IsFixedWindow, Windows!Spec
=============================================================================
