---------------------------- MODULE Touch_proofs ----------------------------
(***************************************************************************)
(* Proofs about Touch, for every number of slots, every set of identifiers *)
(* and every set of regions.                                               *)
(***************************************************************************)
EXTENDS Touch, WellFoundedInduction, TLAPS

\* CheckTouch, SetTouch and GetTouchToTemp look for the lowest slot with some
\* property: if there is one with it, there is a lowest one.
LEMMA FirstIsLowest ==
  ASSUME NEW S \in SUBSET (1..Slots), S # {}
  PROVE  First(S) \in S /\ \A j \in S : First(S) <= j
  <1>1. S \subseteq Nat
    BY TouchAssumption
  <1>2. OpToRel(<, Nat) = {ss \in Nat \X Nat : ss[1] < ss[2]}
    BY DEF OpToRel
  <1> DEFINE Less == {ss \in Nat \X Nat : ss[1] < ss[2]}
  <1>3. PICK i \in S : \A j \in S : <<j, i>> \notin Less
    BY <1>1, <1>2, NatLessThanWellFounded, WFMin
  <1>4. ASSUME NEW j \in S
        PROVE  i <= j
    <2>1. i \in Nat /\ j \in Nat /\ <<j, i>> \notin Less
      BY <1>1, <1>3
    <2>2. ~(j < i)
      BY <2>1
    <2> QED
      BY <2>1, <2>2
  <1> QED
    BY <1>4, Zenon DEF First

LEMMA FirstUnique ==
  ASSUME NEW S \in SUBSET (1..Slots), NEW i \in S, \A j \in S : i <= j
  PROVE  First(S) = i
  <1>1. First(S) \in S /\ First(S) <= i
    BY FirstIsLowest
  <1>2. First(S) \in 1..Slots /\ i \in 1..Slots
    BY <1>1
  <1>3. i <= First(S)
    BY <1>1
  <1> QED
    BY <1>1, <1>2, <1>3, TouchAssumption

\* The entry First picks is a slot of the table.
LEMMA FoundSlot ==
  ASSUME NEW idx, Find(idx) # {}
  PROVE  /\ First(Find(idx)) \in 1..Slots /\ Touch[First(Find(idx))].index = idx
         /\ \A j \in 1..Slots : Touch[j].index = idx => First(Find(idx)) <= j
  <1>1. Find(idx) \in SUBSET (1..Slots)
    BY DEF Find
  <1>2. First(Find(idx)) \in Find(idx) /\ \A j \in Find(idx) : First(Find(idx)) <= j
    BY <1>1, FirstIsLowest
  <1> QED
    BY <1>2 DEF Find

TableType == [1..Slots -> [index : Ids \cup {0}, area : SUBSET Points]]

LEMMA FreeType ==
  ASSUME Touch \in TableType, NEW S, Free(S)
  PROVE  /\ Touch' \in TableType
         /\ \A i \in 1..Slots : Touch'[i].index = IF i \in S THEN 0 ELSE Touch[i].index
  BY DEF TableType, Free

\* What SetTouch does to the table: nothing, or one free slot is taken, the
\* lowest, and nobody had the identifier.
LEMMA SetTouchTable ==
  ASSUME Touch \in TableType, touchTemp \in SUBSET Points, NEW idx \in Ids, SetTouch(idx)
  PROVE  /\ Touch' \in TableType
         /\ \/ Touch' = Touch
            \/ \E k \in 1..Slots :
                 /\ ~Used(k) /\ \A j \in 1..Slots : ~Used(j) => k <= j
                 /\ \A j \in 1..Slots : Touch[j].index # idx
                 /\ Touch'[k].index = idx
                 /\ \A j \in 1..Slots \ {k} : Touch'[j] = Touch[j]
  <1>1. CASE touchTemp # {} /\ Find(idx) = {} /\ Find(0) # {}
    <2> DEFINE k == First(Find(0))
    <2>1. k \in 1..Slots /\ Touch[k].index = 0
          /\ \A j \in 1..Slots : Touch[j].index = 0 => k <= j
      BY <1>1, FoundSlot
    <2>2. Touch' = [Touch EXCEPT ![k] = [index |-> idx, area |-> touchTemp]]
      BY <1>1 DEF SetTouch
    <2> HIDE DEF k
    <2>3. Touch' \in TableType /\ Touch'[k].index = idx
          /\ \A j \in 1..Slots \ {k} : Touch'[j] = Touch[j]
      BY <2>1, <2>2 DEF TableType
    <2>4. \A j \in 1..Slots : Touch[j].index # idx
      BY <1>1 DEF Find
    <2> QED
      BY <2>1, <2>3, <2>4 DEF Used
  <1>2. CASE ~(touchTemp # {} /\ Find(idx) = {} /\ Find(0) # {})
    BY <1>2 DEF SetTouch
  <1> QED
    BY <1>1, <1>2

-----------------------------------------------------------------------------
\* The table, and what the task remembers, keep to their types.
THEOREM TypeCorrect == Spec => []TypeOK
  <1>1. Init => TypeOK
    <2>1. [i \in 1..Slots |-> [index |-> 0, area |-> {}]] \in TableType
      BY DEF TableType
    <2>2. {} \subseteq Points
      OBVIOUS
    <2> QED
      BY <2>1, <2>2 DEF Init, TypeOK, TableType
  <1>2. TypeOK /\ [Next]_vars => TypeOK'
    <2> SUFFICES ASSUME TypeOK, [Next]_vars
                 PROVE  TypeOK'
      OBVIOUS
    <2> USE TouchAssumption DEF TypeOK, TableOnly, table, service
    <2>1. CASE FillTouchTemp
      BY <2>1 DEF FillTouchTemp
    <2>2. CASE DeleteAllTouch
      BY <2>2, FreeType DEF DeleteAllTouch, TableType
    <2>3. ASSUME NEW idx \in Ids, SetTouch(idx)
          PROVE  TypeOK'
      <3>1. Touch' \in TableType
        BY <2>3, SetTouchTable DEF TableType
      <3> QED
        BY <2>3, <3>1 DEF SetTouch, TableType
    <2>4. ASSUME NEW idx \in Ids, GetTouchToTemp(idx)
          PROVE  TypeOK'
      BY <2>4, FoundSlot DEF GetTouchToTemp
    <2>5. ASSUME NEW idx \in Ids, DeleteSelectTouch(idx)
          PROVE  TypeOK'
      BY <2>5, FreeType DEF DeleteSelectTouch, TableType
    <2>6. ASSUME NEW idx \in Ids, DeleteAllTouchWithout(idx)
          PROVE  TypeOK'
      BY <2>6, FreeType DEF DeleteAllTouchWithout, TableType
    <2>7. CASE TouchService
      <3>1. ASSUME NEW f
            PROVE  Search(f) \in Ids \cup {0, -1}
        <4> DEFINE hits == {i \in 1..Slots : Covers(i, f)}
        <4>1. hits # {} => First(hits) \in 1..Slots
          BY FirstIsLowest
        <4> QED
          BY <4>1 DEF Search
      <3>2. previous' \in Ids \cup {0, -1}
        BY <2>7, <3>1 DEF TouchService, NoTouch, CheckTouch, ReadTouch
      <3>3. touchDetect' \in BOOLEAN /\ checking' \in BOOLEAN /\ unseen' \in BOOLEAN
        BY <2>7 DEF TouchService, NoTouch, CheckTouch, ReadTouch
      <3>4. UNCHANGED <<table, finger>>
        BY <2>7 DEF TouchService, NoTouch, CheckTouch, ReadTouch
      <3> QED
        BY <3>2, <3>3, <3>4
    <2>8. CASE HAL_GPIO_EXTI_Callback
      <3>1. finger' \subseteq Points
        BY <2>8 DEF HAL_GPIO_EXTI_Callback
      <3>2. touchDetect' \in BOOLEAN /\ unseen' \in BOOLEAN
        BY <2>8 DEF HAL_GPIO_EXTI_Callback
      <3>3. UNCHANGED <<table, service>>
        BY <2>8 DEF HAL_GPIO_EXTI_Callback
      <3> QED
        BY <3>1, <3>2, <3>3
    <2>9. CASE UNCHANGED vars
      BY <2>9 DEF vars
    <2> QED
      BY <2>1, <2>2, <2>3, <2>4, <2>5, <2>6, <2>7, <2>8, <2>9 DEF Next, Screens
  <1> QED
    BY <1>1, <1>2, PTL DEF Spec

\* Only SetTouch gives an entry an identifier.
LEMMA OnlySetTouch ==
  ASSUME TypeOK, [Next]_vars
  PROVE  \/ \E idx \in Ids : SetTouch(idx)
         \/ UNCHANGED Touch /\ UNCHANGED clean
         \/ DeleteAllTouch
         \/ /\ clean' = FALSE
            /\ \A i \in 1..Slots : Touch'[i].index \in {0, Touch[i].index}
  <1>1. ASSUME NEW idx \in Ids, DeleteSelectTouch(idx) \/ DeleteAllTouchWithout(idx)
        PROVE  /\ clean' = FALSE
               /\ \A i \in 1..Slots : Touch'[i].index \in {0, Touch[i].index}
    BY <1>1, FreeType DEF DeleteSelectTouch, DeleteAllTouchWithout, TypeOK, TableType
  <1> QED
    BY <1>1 DEF Next, Screens, FillTouchTemp, GetTouchToTemp, TouchService, NoTouch,
       CheckTouch, ReadTouch, HAL_GPIO_EXTI_Callback, vars, table

\* For every number of slots: no identifier is ever in the table twice.
THEOREM IdsUnique == Spec => []UniqueIds
  <1>1. Init => UniqueIds
    BY DEF Init, UniqueIds, Used
  <1>2. TypeOK /\ UniqueIds /\ [Next]_vars => UniqueIds'
    <2> SUFFICES ASSUME TypeOK, UniqueIds, [Next]_vars
                 PROVE  UniqueIds'
      OBVIOUS
    <2> USE DEF UniqueIds, Used
    <2>1. ASSUME NEW idx \in Ids, SetTouch(idx)
          PROVE  UniqueIds'
      <3>1. CASE Touch' = Touch
        BY <3>1
      <3>2. ASSUME NEW k \in 1..Slots, Touch'[k].index = idx,
                   \A j \in 1..Slots : Touch[j].index # idx,
                   \A j \in 1..Slots \ {k} : Touch'[j] = Touch[j]
            PROVE  UniqueIds'
        BY <3>2
      <3> QED
        BY <2>1, <3>1, <3>2, SetTouchTable DEF TypeOK, TableType
    <2>2. CASE UNCHANGED Touch
      BY <2>2
    <2>3. CASE \A i \in 1..Slots : Touch'[i].index \in {0, Touch[i].index}
      BY <2>3
    <2>4. CASE DeleteAllTouch
      BY <2>4, FreeType DEF DeleteAllTouch, TypeOK, TableType
    <2> QED
      BY <2>1, <2>2, <2>3, <2>4, OnlySetTouch
  <1> QED
    BY <1>1, <1>2, TypeCorrect, PTL DEF Spec

\* Entries are taken from the lowest slot on, and as long as none is deleted
\* alone, those in use come before all others.
Prefix == clean => \A i, j \in 1..Slots : Used(i) /\ j <= i => Used(j)

LEMMA PrefixAlways == Spec => []Prefix
  <1>1. Init => Prefix
    BY DEF Init, Prefix, Used
  <1>2. TypeOK /\ Prefix /\ [Next]_vars => Prefix'
    <2> SUFFICES ASSUME TypeOK, Prefix, [Next]_vars
                 PROVE  Prefix'
      OBVIOUS
    <2> USE DEF Prefix, Used
    <2>1. ASSUME NEW idx \in Ids, SetTouch(idx)
          PROVE  Prefix'
      BY <2>1, SetTouchTable, TouchAssumption DEF TypeOK, TableType, SetTouch
    <2>2. CASE UNCHANGED <<Touch, clean>>
      BY <2>2
    <2>3. CASE clean' = FALSE
      BY <2>3
    <2>4. CASE DeleteAllTouch
      BY <2>4, FreeType DEF DeleteAllTouch, TypeOK, TableType
    <2> QED
      BY <2>1, <2>2, <2>3, <2>4, OnlySetTouch
  <1> QED
    BY <1>1, <1>2, TypeCorrect, PTL DEF Spec

\* For every number of slots and every set of regions: as long as a screen only
\* adds regions to a table it has emptied, the entries deleted before never
\* hide a region in use.
THEOREM LiveRegionsFound == Spec => []LiveTouchWins
  <1>1. Prefix => LiveTouchWins
    <2> SUFFICES ASSUME Prefix, clean, NEW p \in Points, NEW i \in 1..Slots,
                        Used(i), Covers(i, {p})
                 PROVE  Search({p}) # 0
      BY DEF LiveTouchWins
    <2> DEFINE hits == {j \in 1..Slots : Covers(j, {p})}
    <2>1. First(hits) \in 1..Slots /\ First(hits) <= i /\ hits # {}
      BY FirstIsLowest
    <2> QED
      BY <2>1 DEF Prefix, Search, Used
  <1> QED
    BY <1>1, PrefixAlways, PTL

\* A press that has been signalled is never forgotten before it is read.
THEOREM PressesKept == Spec => []PressNotLost
  <1>1. Init => PressNotLost
    BY DEF Init, PressNotLost
  <1>2. PressNotLost /\ [Next]_vars => PressNotLost'
    BY DEF PressNotLost, Next, Screens, FillTouchTemp, SetTouch, GetTouchToTemp,
       DeleteAllTouch, DeleteSelectTouch, DeleteAllTouchWithout, TableOnly, TouchService,
       NoTouch, CheckTouch, ReadTouch, HAL_GPIO_EXTI_Callback, vars, table, service
  <1> QED
    BY <1>1, <1>2, PTL DEF Spec

=============================================================================
