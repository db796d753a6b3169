----------------------------- MODULE VmmProofs -----------------------------
(***************************************************************************)
(* Theorems about vmm.c, for any number of address spaces, pages, table    *)
(* entries, addresses and flags: cached translations stay current, the     *)
(* kernel half is shared, a mapping disturbs nothing else, and a table     *)
(* pointer that is not one is followed in the three known cases only.      *)
(***************************************************************************)
EXTENDS Vmm, NaturalLemmas, TLAPS

Entries == [frame : Nat, perms : SUBSET Flags]

TablesT == [Tables -> [Slots -> Entries]]
LevelsT == [Tables -> 0..4]

\* Entry i of table t; whether it is present; the table it leads to.
At(tb, t, i) == tb[t][i]
Has(tb, t, i) == Present(At(tb, t, i))
Down(tb, t, i) == At(tb, t, i).frame

(***************************************************************************)
(* What keeps the translations apart: the tables are layered.  A level is  *)
(* 0 for a page no walk meets, 1 for a PML4, and so on to 4 for a page     *)
(* table.                                                                  *)
(***************************************************************************)
LevelOf(level, t) == level[t]
Inner(level, t) == LevelOf(level, t) \in {1, 2, 3}
Unused(fr, level) == \A p \in fr : LevelOf(level, p) = 0
\* An entry of a table leads to a table of the next level.
Descends(tb, level) ==
    \A t \in Tables, i \in Slots :
        Inner(level, t) /\ Has(tb, t, i)
        => Down(tb, t, i) \in Tables /\ LevelOf(level, Down(tb, t, i)) = LevelOf(level, t) + 1
\* No table has two parents, except that PML4s share the kernel's.
OneParent(tb, level) ==
    \A t, u \in Tables, i, j \in Slots :
        /\ Inner(level, t) /\ Inner(level, u)
        /\ Has(tb, t, i) /\ Has(tb, u, j)
        /\ Down(tb, t, i) = Down(tb, u, j)
        => i = j /\ (t = u \/ (/\ LevelOf(level, t) = 1 /\ LevelOf(level, u) = 1
                               /\ i \in KernelSlots))
Forest(tb, fr, level) == Unused(fr, level) /\ Descends(tb, level) /\ OneParent(tb, level)

(***************************************************************************)
(* tb2 has all that tb has and in addition only empty tables.              *)
(***************************************************************************)
Extends(tb, level, tb2, level2) ==
    /\ \A t \in Tables : LevelOf(level, t) # 0 => LevelOf(level2, t) = LevelOf(level, t)
    /\ \A t \in Tables, i \in Slots :
          LevelOf(level, t) # 0 /\ Has(tb, t, i) => At(tb2, t, i) = At(tb, t, i)
    /\ \A t \in Tables, i \in Slots :
          LevelOf(level, t) # 0 /\ ~Has(tb, t, i) /\ Has(tb2, t, i)
          => Inner(level, t) /\ \A j \in Slots : ~Has(tb2, Down(tb2, t, i), j)

\* The tables a walk along va passes, and what it finds.
Table2(tb, base, va) == Down(tb, base, va[1])
Table3(tb, base, va) == Down(tb, Table2(tb, base, va), va[2])
Table4(tb, base, va) == Down(tb, Table3(tb, base, va), va[3])
Leads(tb, base, va) ==
    /\ Has(tb, base, va[1])
    /\ Has(tb, Table2(tb, base, va), va[2])
    /\ Has(tb, Table3(tb, base, va), va[3])
Through(e1, e2, e3, e4) ==
    [frame |-> e4.frame,
     perms |-> (e1.perms \cap e2.perms \cap e3.perms \cap e4.perms)
               \cup ({"NX"} \cap (e1.perms \cup e2.perms \cup e3.perms \cup e4.perms))]

-----------------------------------------------------------------------------
(***************************************************************************)
(* Lemmas about pages and tables.                                          *)
(***************************************************************************)
\* pmm_alloc_page returns a free page, if there is one.
LEMMA LowestFree ==
    ASSUME NEW fr \in SUBSET Pages, fr # {}
    PROVE  Lowest(fr) \in fr
<1>1. fr \in SUBSET Nat
  BY VmmAssumption DEF Pages
<1>2. \E p \in fr : \A q \in fr : p =< q
  BY <1>1, LeastExists
<1>3. QED
  BY <1>2 DEF Lowest

\* Pages and the boot tables are different, and none of them is NULL.
LEMMA TablesApart ==
    /\ Tables \subseteq Nat \ {0} /\ Pages \subseteq Tables
    /\ BootRoot \in Tables \ Pages /\ BootPdpt \in Tables \ Pages
    /\ BootRoot # BootPdpt
    /\ Null \notin Tables /\ Wild \notin Tables /\ Wild # Null
    /\ Targets \subseteq Nat \ {0}
BY VmmAssumption DEF Tables, Pages, BootRoot, BootPdpt, Null, Wild

\* An entry that names a page is present.
LEMMA PresentFrame ==
    ASSUME NEW frame \in Nat \ {0}, NEW flags \in SUBSET Flags
    PROVE  /\ [frame |-> frame, perms |-> flags] \in Entries
           /\ Present([frame |-> frame, perms |-> flags])
           /\ NoEntry \in Entries /\ ~Present(NoEntry)
BY DEF Entries, Present, NoEntry

\* The indices of an address are indices of tables.
LEMMA Indices ==
    ASSUME NEW va \in VAs
    PROVE  va[1] \in Slots /\ va[2] \in Slots /\ va[3] \in Slots /\ va[4] \in Slots
BY VmmAssumption

\* Addresses with the same indices are the same.
LEMMA SameIndices ==
    ASSUME NEW va \in VAs, NEW w \in VAs,
           va[1] = w[1], va[2] = w[2], va[3] = w[3], va[4] = w[4]
    PROVE  va = w
<1>1. va \in [1..4 -> Slots] /\ w \in [1..4 -> Slots]
  BY VmmAssumption
<1>2. \A k \in 1..4 : va[k] = w[k]
  <2> SUFFICES ASSUME NEW k \in 1..4 PROVE va[k] = w[k]
    OBVIOUS
  <2>1. k = 1 \/ k = 2 \/ k = 3 \/ k = 4
    OBVIOUS
  <2>2. QED
    BY <2>1
<1>3. QED
  BY <1>1, <1>2

\* A walk passes tables of levels 2, 3 and 4.
LEMMA WalkLayers ==
    ASSUME NEW tb, NEW fr, NEW level, Forest(tb, fr, level),
           NEW t1 \in Tables, LevelOf(level, t1) = 1,
           NEW i1 \in Slots, NEW i2 \in Slots, NEW i3 \in Slots,
           NEW t2, t2 = Down(tb, t1, i1), NEW t3, t3 = Down(tb, t2, i2),
           NEW t4, t4 = Down(tb, t3, i3)
    PROVE  /\ Has(tb, t1, i1) => t2 \in Tables /\ LevelOf(level, t2) = 2
           /\ Has(tb, t1, i1) /\ Has(tb, t2, i2) => t3 \in Tables /\ LevelOf(level, t3) = 3
           /\ Has(tb, t1, i1) /\ Has(tb, t2, i2) /\ Has(tb, t3, i3)
              => t4 \in Tables /\ LevelOf(level, t4) = 4
BY DEF Forest, Descends, Inner

\* The way from t1 to t4 by the entries i1, i2, i3.
Way(tb, t1, i1, t2, i2, t3, i3, t4) ==
    /\ t1 \in Tables /\ i1 \in Slots /\ i2 \in Slots /\ i3 \in Slots
    /\ Has(tb, t1, i1) /\ Down(tb, t1, i1) = t2
    /\ Has(tb, t2, i2) /\ Down(tb, t2, i2) = t3
    /\ Has(tb, t3, i3) /\ Down(tb, t3, i3) = t4

\* Two walks that end in the same page table came the same way.
LEMMA LeadsOnce ==
    ASSUME NEW tb, NEW fr, NEW level, Forest(tb, fr, level),
           NEW t1, NEW i1, NEW t2, NEW i2, NEW t3, NEW i3, NEW t4,
           NEW u1, NEW j1, NEW u2, NEW j2, NEW u3, NEW j3,
           LevelOf(level, t1) = 1, Way(tb, t1, i1, t2, i2, t3, i3, t4),
           LevelOf(level, u1) = 1, Way(tb, u1, j1, u2, j2, u3, j3, t4)
    PROVE  i1 = j1 /\ i2 = j2 /\ i3 = j3 /\ (t1 = u1 \/ i1 \in KernelSlots)
<1>1. /\ t2 \in Tables /\ LevelOf(level, t2) = 2 /\ u2 \in Tables /\ LevelOf(level, u2) = 2
      /\ t3 \in Tables /\ LevelOf(level, t3) = 3 /\ u3 \in Tables /\ LevelOf(level, u3) = 3
  <2>1. t2 \in Tables /\ LevelOf(level, t2) = 2 /\ u2 \in Tables /\ LevelOf(level, u2) = 2
    BY DEF Way, Forest, Descends, Inner
  <2>2. t3 \in Tables /\ LevelOf(level, t3) = 3 /\ u3 \in Tables /\ LevelOf(level, u3) = 3
    BY <2>1 DEF Way, Forest, Descends, Inner
  <2>3. QED
    BY <2>1, <2>2
<1>2. i3 = j3 /\ t3 = u3
  BY <1>1 DEF Way, Forest, OneParent, Inner
<1>3. i2 = j2 /\ t2 = u2
  <2>1. Down(tb, t2, i2) = Down(tb, u2, j2) /\ Inner(level, t2) /\ Inner(level, u2)
    BY <1>1, <1>2 DEF Way, Inner
  <2>2. i2 = j2 /\ (t2 = u2 \/ LevelOf(level, t2) = 1)
    BY <1>1, <2>1 DEF Way, Forest, OneParent
  <2>3. QED
    BY <1>1, <2>2
<1>4. i1 = j1 /\ (t1 = u1 \/ i1 \in KernelSlots)
  BY <1>1, <1>3 DEF Way, Forest, OneParent, Inner
<1>5. QED
  BY <1>2, <1>3, <1>4

\* Walk, in the terms of this module.
LEMMA WalkIs ==
    ASSUME NEW tb, NEW base, NEW va
    PROVE  Walk(tb, base, va) =
             IF Leads(tb, base, va) /\ Has(tb, Table4(tb, base, va), va[4])
             THEN Through(At(tb, base, va[1]), At(tb, Table2(tb, base, va), va[2]),
                          At(tb, Table3(tb, base, va), va[3]),
                          At(tb, Table4(tb, base, va), va[4]))
             ELSE NoEntry
BY Zenon DEF Walk, Leads, Through, Table2, Table3, Table4, Has, Down, At

\* Equal entries are present alike and lead to the same table.
LEMMA SameEntry ==
    ASSUME NEW tb, NEW tb2, NEW t, NEW i, At(tb2, t, i) = At(tb, t, i)
    PROVE  (Has(tb2, t, i) <=> Has(tb, t, i)) /\ Down(tb2, t, i) = Down(tb, t, i)
BY Zenon DEF Has, Down

(***************************************************************************)
(* New empty tables change no translation.                                 *)
(***************************************************************************)
LEMMA WalkUnchanged ==
    ASSUME NEW tb, NEW fr, NEW level, Forest(tb, fr, level),
           NEW tb2, NEW level2, Extends(tb, level, tb2, level2),
           NEW base \in Tables, LevelOf(level, base) = 1, NEW va \in VAs
    PROVE  Walk(tb2, base, va) = Walk(tb, base, va)
<1> DEFINE i1 == va[1]  i2 == va[2]  i3 == va[3]  i4 == va[4]
           t2 == Down(tb, base, i1)  t3 == Down(tb, t2, i2)  t4 == Down(tb, t3, i3)
           u2 == Down(tb2, base, i1)  u3 == Down(tb2, u2, i2)  u4 == Down(tb2, u3, i3)
           old == Has(tb, base, i1) /\ Has(tb, t2, i2) /\ Has(tb, t3, i3) /\ Has(tb, t4, i4)
           new == Has(tb2, base, i1) /\ Has(tb2, u2, i2) /\ Has(tb2, u3, i3) /\ Has(tb2, u4, i4)
<1>1. /\ Walk(tb, base, va) = IF old THEN Through(At(tb, base, i1), At(tb, t2, i2),
                                                  At(tb, t3, i3), At(tb, t4, i4))
                              ELSE NoEntry
      /\ Walk(tb2, base, va) = IF new THEN Through(At(tb2, base, i1), At(tb2, u2, i2),
                                                   At(tb2, u3, i3), At(tb2, u4, i4))
                               ELSE NoEntry
  <2>1. \A x : Leads(x, base, va) <=> /\ Has(x, base, va[1])
                                      /\ Has(x, Down(x, base, va[1]), va[2])
                                      /\ Has(x, Down(x, Down(x, base, va[1]), va[2]), va[3])
    BY Zenon DEF Leads, Table2, Table3
  <2>2. QED
    BY <2>1, WalkIs, Zenon DEF Table2, Table3, Table4
<1>2. i1 \in Slots /\ i2 \in Slots /\ i3 \in Slots /\ i4 \in Slots
  BY Indices
<1> HIDE DEF i1, i2, i3, i4
<1>3. /\ Has(tb, base, i1) => t2 \in Tables /\ LevelOf(level, t2) = 2
      /\ Has(tb, base, i1) /\ Has(tb, t2, i2) => t3 \in Tables /\ LevelOf(level, t3) = 3
      /\ Has(tb, base, i1) /\ Has(tb, t2, i2) /\ Has(tb, t3, i3)
         => t4 \in Tables /\ LevelOf(level, t4) = 4
  BY <1>2, WalkLayers
<1> HIDE DEF t2, t3, t4, u2, u3, u4
<1>4. CASE ~Has(tb, base, i1)
  <2>1. Has(tb2, base, i1) => ~Has(tb2, u2, i2)
    BY <1>2, <1>4 DEF Extends, u2
  <2>2. QED
    BY <1>1, <1>4, <2>1
<1>5. CASE Has(tb, base, i1) /\ ~Has(tb, t2, i2)
  <2>1. At(tb2, base, i1) = At(tb, base, i1)
    BY <1>2, <1>5 DEF Extends
  <2>2. u2 = t2
    BY <2>1, SameEntry DEF t2, u2
  <2>3. Has(tb2, u2, i2) => ~Has(tb2, u3, i3)
    BY <1>2, <1>3, <1>5, <2>2 DEF Extends, u3
  <2>4. QED
    BY <1>1, <1>5, <2>3
<1>6. CASE Has(tb, base, i1) /\ Has(tb, t2, i2)
  <2>1. At(tb2, base, i1) = At(tb, base, i1)
    BY <1>2, <1>6 DEF Extends
  <2>2. u2 = t2
    BY <2>1, SameEntry DEF t2, u2
  <2>3. At(tb2, t2, i2) = At(tb, t2, i2)
    BY <1>2, <1>3, <1>6 DEF Extends
  <2>4. u3 = t3
    BY <2>2, <2>3, SameEntry DEF t3, u3
  <2>5. CASE ~Has(tb, t3, i3)
    <3>1. Has(tb2, u3, i3) => ~Has(tb2, u4, i4)
      BY <1>2, <1>3, <1>6, <2>4, <2>5 DEF Extends, u4
    <3>2. QED
      BY <1>1, <2>5, <3>1
  <2>6. CASE Has(tb, t3, i3)
    <3>1. At(tb2, t3, i3) = At(tb, t3, i3)
      BY <1>2, <1>3, <1>6, <2>6 DEF Extends
    <3>2. u4 = t4
      BY <2>4, <3>1, SameEntry DEF t4, u4
    <3>3. Has(tb, t4, i4) => At(tb2, t4, i4) = At(tb, t4, i4)
      BY <1>2, <1>3, <1>6, <2>6 DEF Extends
    <3>4. ~Has(tb, t4, i4) => ~Has(tb2, t4, i4)
      BY <1>2, <1>3, <1>6, <2>6 DEF Extends, Inner
    <3>5. /\ Has(tb2, base, i1) <=> Has(tb, base, i1)
          /\ Has(tb2, t2, i2) <=> Has(tb, t2, i2)
          /\ Has(tb2, t3, i3) <=> Has(tb, t3, i3)
          /\ Has(tb2, t4, i4) <=> Has(tb, t4, i4)
      BY <2>1, <2>3, <3>1, <3>3, <3>4, SameEntry
    <3>6. QED
      BY <1>1, <2>1, <2>2, <2>3, <2>4, <3>1, <3>2, <3>3, <3>5
  <2>7. QED
    BY <2>5, <2>6
<1>7. QED
  BY <1>4, <1>5, <1>6

(***************************************************************************)
(* Writing entry last of a page table changes no walk but those that end   *)
(* at it.                                                                  *)
(***************************************************************************)
LEMMA WalkWritten ==
    ASSUME NEW tb, NEW fr, NEW level, Forest(tb, fr, level),
           NEW pt \in Tables, LevelOf(level, pt) = 4, NEW last \in Slots, NEW tb2,
           \A t \in Tables, i \in Slots :
              ~(t = pt /\ i = last) => At(tb2, t, i) = At(tb, t, i),
           NEW base \in Tables, LevelOf(level, base) = 1, NEW va \in VAs
    PROVE  /\ Leads(tb2, base, va) <=> Leads(tb, base, va)
           /\ Leads(tb, base, va) =>
                /\ Table4(tb2, base, va) = Table4(tb, base, va)
                /\ Table4(tb, base, va) \in Tables
           /\ ~(Leads(tb, base, va) /\ Table4(tb, base, va) = pt /\ va[4] = last)
              => Walk(tb2, base, va) = Walk(tb, base, va)
<1> DEFINE i1 == va[1]  i2 == va[2]  i3 == va[3]  i4 == va[4]
           t2 == Down(tb, base, i1)  t3 == Down(tb, t2, i2)  t4 == Down(tb, t3, i3)
           u2 == Down(tb2, base, i1)  u3 == Down(tb2, u2, i2)  u4 == Down(tb2, u3, i3)
           leads == Has(tb, base, i1) /\ Has(tb, t2, i2) /\ Has(tb, t3, i3)
           leads2 == Has(tb2, base, i1) /\ Has(tb2, u2, i2) /\ Has(tb2, u3, i3)
<1>1. /\ Leads(tb, base, va) <=> leads
      /\ Leads(tb2, base, va) <=> leads2
      /\ Table4(tb, base, va) = t4 /\ Table4(tb2, base, va) = u4
  BY Zenon DEF Leads, Table2, Table3, Table4
<1>2. /\ Walk(tb, base, va) = IF leads /\ Has(tb, t4, i4)
                              THEN Through(At(tb, base, i1), At(tb, t2, i2),
                                           At(tb, t3, i3), At(tb, t4, i4))
                              ELSE NoEntry
      /\ Walk(tb2, base, va) = IF leads2 /\ Has(tb2, u4, i4)
                               THEN Through(At(tb2, base, i1), At(tb2, u2, i2),
                                            At(tb2, u3, i3), At(tb2, u4, i4))
                               ELSE NoEntry
  BY <1>1, WalkIs, Zenon DEF Table2, Table3, Table4
<1>3. i1 \in Slots /\ i2 \in Slots /\ i3 \in Slots /\ i4 \in Slots
  BY Indices
<1> HIDE DEF i1, i2, i3
<1>4. /\ Has(tb, base, i1) => t2 \in Tables /\ LevelOf(level, t2) = 2
      /\ Has(tb, base, i1) /\ Has(tb, t2, i2) => t3 \in Tables /\ LevelOf(level, t3) = 3
      /\ leads => t4 \in Tables /\ LevelOf(level, t4) = 4
  BY <1>3, WalkLayers
<1> HIDE DEF t2, t3, t4, u2, u3, u4
<1>5. At(tb2, base, i1) = At(tb, base, i1) /\ u2 = t2
      /\ (Has(tb2, base, i1) <=> Has(tb, base, i1))
  <2>1. At(tb2, base, i1) = At(tb, base, i1)
    BY <1>3
  <2>2. QED
    BY <2>1, SameEntry DEF t2, u2
<1>6. Has(tb, base, i1) => /\ At(tb2, t2, i2) = At(tb, t2, i2) /\ u3 = t3
                           /\ (Has(tb2, t2, i2) <=> Has(tb, t2, i2))
  <2>1. Has(tb, base, i1) => At(tb2, t2, i2) = At(tb, t2, i2)
    BY <1>3, <1>4
  <2>2. QED
    BY <1>5, <2>1, SameEntry DEF t3, u3
<1>7. Has(tb, base, i1) /\ Has(tb, t2, i2)
      => /\ At(tb2, t3, i3) = At(tb, t3, i3) /\ u4 = t4
         /\ (Has(tb2, t3, i3) <=> Has(tb, t3, i3))
  <2>1. Has(tb, base, i1) /\ Has(tb, t2, i2) => At(tb2, t3, i3) = At(tb, t3, i3)
    BY <1>3, <1>4
  <2>2. QED
    BY <1>6, <2>1, SameEntry DEF t4, u4
<1>8. (leads2 <=> leads) /\ (leads => u4 = t4)
  BY <1>5, <1>6, <1>7
<1>9. leads /\ ~(t4 = pt /\ i4 = last)
      => At(tb2, t4, i4) = At(tb, t4, i4) /\ (Has(tb2, t4, i4) <=> Has(tb, t4, i4))
  BY <1>3, <1>4, SameEntry
<1> HIDE DEF i4
<1>10. ~(leads /\ t4 = pt /\ i4 = last) => Walk(tb2, base, va) = Walk(tb, base, va)
  <2>1. CASE ~leads
    BY <1>2, <1>8, <2>1
  <2>2. CASE leads
    BY <1>2, <1>5, <1>6, <1>7, <1>8, <1>9, <2>2
  <2>3. QED
    BY <2>1, <2>2
<1>11. QED
  BY <1>1, <1>4, <1>8, <1>10 DEF i4

\* What get_or_create_table writes when it makes a table of page p.
WithTable(tb, tab, index, e, p) == [tb EXCEPT ![tab][index] = e, ![p] = EmptyTable]
EntryTo(p, flags) == [frame |-> p, perms |-> flags]
WithLevel(level, p, k) == [level EXCEPT ![p] = k]

\* The entries there are after a table was made.
LEMMA NewEntries ==
    ASSUME NEW tb \in TablesT, NEW tab \in Tables, NEW p \in Tables, p # tab,
           NEW index \in Slots, NEW e \in Entries
    PROVE  LET tb2 == WithTable(tb, tab, index, e, p)
           IN  /\ tb2 \in TablesT
               /\ \A i \in Slots : ~Has(tb2, p, i)
               /\ At(tb2, tab, index) = e
               /\ \A t \in Tables, i \in Slots :
                     t # p /\ ~(t = tab /\ i = index) => At(tb2, t, i) = At(tb, t, i)
<1> DEFINE tb2 == WithTable(tb, tab, index, e, p)
<1>1. NoEntry \in Entries
  BY DEF NoEntry, Entries
<1>2. EmptyTable \in [Slots -> Entries] /\ \A i \in Slots : EmptyTable[i] = NoEntry
  BY <1>1 DEF EmptyTable
<1> DEFINE tb1 == [tb EXCEPT ![tab] = [tb[tab] EXCEPT ![index] = e]]
<1>3. /\ tb1 \in [Tables -> [Slots -> Entries]]
      /\ tb1[tab][index] = e
      /\ \A t \in Tables, i \in Slots : ~(t = tab /\ i = index) => tb1[t][i] = tb[t][i]
  BY DEF TablesT
<1>4. tb2 = [tb1 EXCEPT ![p] = EmptyTable]
  BY DEF TablesT, WithTable
<1> HIDE DEF tb1, tb2
<1>5. /\ tb2 \in [Tables -> [Slots -> Entries]]
      /\ tb2[p] = EmptyTable
      /\ \A t \in Tables : t # p => tb2[t] = tb1[t]
  BY <1>2, <1>3, <1>4
<1>6. \A i \in Slots : ~Has(tb2, p, i)
  BY <1>2, <1>5 DEF Has, At, Present
<1>7. At(tb2, tab, index) = e
  BY <1>3, <1>5, Zenon DEF At
<1>8. \A t \in Tables, i \in Slots :
         t # p /\ ~(t = tab /\ i = index) => At(tb2, t, i) = At(tb, t, i)
  BY <1>3, <1>5, Zenon DEF At
<1>9. QED
  BY <1>5, <1>6, <1>7, <1>8 DEF TablesT, tb2

(***************************************************************************)
(* A new table keeps the tables layered and adds only an empty table.      *)
(***************************************************************************)
Added(tb, fr, level, tab, index, e, p, tb2, level2) ==
    /\ tb2 \in TablesT /\ level2 \in LevelsT
    /\ Forest(tb2, fr \ {p}, level2)
    /\ Extends(tb, level, tb2, level2)
    /\ LevelOf(level2, p) = LevelOf(level, tab) + 1
    /\ At(tb2, tab, index) = e
    /\ \A i \in Slots : ~Has(tb2, p, i)
    /\ Has(tb2, tab, index) /\ Down(tb2, tab, index) = p
    /\ \A t \in Tables, i \in Slots :
          t # p /\ ~(t = tab /\ i = index) => At(tb2, t, i) = At(tb, t, i)
    /\ \A t \in Tables : t # p => LevelOf(level2, t) = LevelOf(level, t)

\* Making a table of a free page adds that table and nothing else.
LEMMA NewTable ==
    ASSUME NEW tb \in TablesT, NEW fr \in SUBSET Pages, NEW level \in LevelsT,
           Forest(tb, fr, level),
           NEW tab \in Tables, Inner(level, tab), NEW index \in Slots, ~Has(tb, tab, index),
           NEW p \in fr, NEW flags \in SUBSET Flags
    PROVE  Added(tb, fr, level, tab, index, EntryTo(p, flags), p,
                 WithTable(tb, tab, index, EntryTo(p, flags), p),
                 WithLevel(level, p, LevelOf(level, tab) + 1))
<1> DEFINE e == EntryTo(p, flags)
           tb2 == WithTable(tb, tab, index, e, p)
           level2 == WithLevel(level, p, LevelOf(level, tab) + 1)
<1>1. p \in Tables /\ p \in Nat \ {0} /\ LevelOf(level, p) = 0 /\ p # tab
  BY TablesApart DEF Forest, Unused, Inner
<1>2. e \in Entries /\ Present(e) /\ e.frame = p /\ e.perms = flags
  BY <1>1, PresentFrame DEF EntryTo
<1> HIDE DEF e
<1>3. /\ tb2 \in TablesT
      /\ \A i \in Slots : ~Has(tb2, p, i)
      /\ At(tb2, tab, index) = e
      /\ \A t \in Tables, i \in Slots :
            t # p /\ ~(t = tab /\ i = index) => At(tb2, t, i) = At(tb, t, i)
  BY <1>1, <1>2, NewEntries
<1> HIDE DEF tb2
<1>4. Has(tb2, tab, index) /\ Down(tb2, tab, index) = p
  BY <1>2, <1>3 DEF Has, Down
<1>5. \A t \in Tables, i \in Slots :
         t # p /\ ~(t = tab /\ i = index)
         => (Has(tb2, t, i) <=> Has(tb, t, i)) /\ Down(tb2, t, i) = Down(tb, t, i)
  BY <1>3, SameEntry
<1>6. /\ level2 \in LevelsT
      /\ LevelOf(level2, p) = LevelOf(level, tab) + 1
      /\ \A t \in Tables : t # p => LevelOf(level2, t) = LevelOf(level, t)
  <2>1. LevelOf(level, tab) + 1 \in 0..4
    BY DEF Inner
  <2>2. QED
    BY <1>1, <2>1 DEF LevelsT, LevelOf, WithLevel
<1> HIDE DEF level2
<1>7. Unused(fr \ {p}, level2)
  BY <1>6, TablesApart DEF Forest, Unused
<1>8. LevelOf(level, tab) \in {1, 2, 3} /\ LevelOf(level2, tab) = LevelOf(level, tab)
  BY <1>1, <1>6 DEF Inner
<1>9. Descends(tb2, level2)
  <2> SUFFICES ASSUME NEW t \in Tables, NEW i \in Slots, Inner(level2, t), Has(tb2, t, i)
               PROVE  /\ Down(tb2, t, i) \in Tables
                      /\ LevelOf(level2, Down(tb2, t, i)) = LevelOf(level2, t) + 1
    BY DEF Descends
  <2>1. CASE t = p
    BY <1>3, <2>1
  <2>2. CASE t = tab /\ i = index
    BY <1>1, <1>4, <1>6, <1>8, <2>2
  <2>3. CASE t # p /\ ~(t = tab /\ i = index)
    <3>1. Has(tb, t, i) /\ Down(tb2, t, i) = Down(tb, t, i) /\ LevelOf(level2, t) = LevelOf(level, t)
      BY <1>5, <1>6, <2>3
    <3>2. Inner(level, t)
      BY <3>1 DEF Inner
    <3>3. Down(tb, t, i) \in Tables /\ LevelOf(level, Down(tb, t, i)) = LevelOf(level, t) + 1
      BY <3>1, <3>2 DEF Forest, Descends
    <3>4. LevelOf(level, t) \in {1, 2, 3}
      BY <3>2 DEF Inner
    <3>5. Down(tb, t, i) # p
      BY <1>1, <3>3, <3>4
    <3>6. QED
      BY <1>6, <3>1, <3>3, <3>5
  <2>4. QED
    BY <2>1, <2>2, <2>3
<1>10. OneParent(tb2, level2)
  <2>1. \A t \in Tables, i \in Slots :
           Inner(level2, t) /\ Has(tb2, t, i) /\ ~(t = tab /\ i = index)
           => /\ t # p /\ Inner(level, t) /\ Has(tb, t, i)
              /\ Down(tb2, t, i) = Down(tb, t, i) /\ Down(tb, t, i) # p
    <3> SUFFICES ASSUME NEW t \in Tables, NEW i \in Slots, Inner(level2, t), Has(tb2, t, i),
                        ~(t = tab /\ i = index)
                 PROVE  /\ t # p /\ Inner(level, t) /\ Has(tb, t, i)
                        /\ Down(tb2, t, i) = Down(tb, t, i) /\ Down(tb, t, i) # p
      OBVIOUS
    <3>1. t # p
      BY <1>3
    <3>2. Has(tb, t, i) /\ Down(tb2, t, i) = Down(tb, t, i) /\ LevelOf(level2, t) = LevelOf(level, t)
      BY <1>5, <1>6, <3>1
    <3>3. Inner(level, t)
      BY <3>2 DEF Inner
    <3>4. LevelOf(level, Down(tb, t, i)) = LevelOf(level, t) + 1 /\ LevelOf(level, t) \in {1, 2, 3}
      BY <3>2, <3>3 DEF Forest, Descends, Inner
    <3>5. Down(tb, t, i) # p
      BY <1>1, <3>4
    <3>6. QED
      BY <3>1, <3>2, <3>3, <3>5
  <2> SUFFICES ASSUME NEW t \in Tables, NEW u \in Tables, NEW i \in Slots, NEW j \in Slots,
                      Inner(level2, t), Inner(level2, u), Has(tb2, t, i), Has(tb2, u, j),
                      Down(tb2, t, i) = Down(tb2, u, j)
               PROVE  i = j /\ (t = u \/ (/\ LevelOf(level2, t) = 1 /\ LevelOf(level2, u) = 1
                                          /\ i \in KernelSlots))
    BY DEF OneParent
  <2>2. CASE (t = tab /\ i = index) \/ (u = tab /\ j = index)
    <3>1. ~(t = tab /\ i = index) => Down(tb2, t, i) # p
      BY <2>1
    <3>2. ~(u = tab /\ j = index) => Down(tb2, u, j) # p
      BY <2>1
    <3>3. QED
      BY <1>4, <2>2, <3>1, <3>2
  <2>3. CASE ~(t = tab /\ i = index) /\ ~(u = tab /\ j = index)
    <3>1. /\ t # p /\ Inner(level, t) /\ Has(tb, t, i)
          /\ u # p /\ Inner(level, u) /\ Has(tb, u, j)
          /\ Down(tb, t, i) = Down(tb, u, j)
      BY <2>1, <2>3
    <3>2. i = j /\ (t = u \/ (/\ LevelOf(level, t) = 1 /\ LevelOf(level, u) = 1
                              /\ i \in KernelSlots))
      BY <3>1 DEF Forest, OneParent
    <3>3. QED
      BY <1>6, <3>1, <3>2
  <2>4. QED
    BY <2>2, <2>3
<1>11. Extends(tb, level, tb2, level2)
  <2>1. \A t \in Tables : LevelOf(level, t) # 0 => LevelOf(level2, t) = LevelOf(level, t)
    BY <1>1, <1>6
  <2>2. \A t \in Tables, i \in Slots :
           LevelOf(level, t) # 0 /\ Has(tb, t, i) => At(tb2, t, i) = At(tb, t, i)
    BY <1>1, <1>3
  <2>3. \A t \in Tables, i \in Slots :
           LevelOf(level, t) # 0 /\ ~Has(tb, t, i) /\ Has(tb2, t, i) => t = tab /\ i = index
    BY <1>1, <1>5
  <2>4. QED
    BY <1>3, <1>4, <2>1, <2>2, <2>3 DEF Extends
<1>12. QED
  BY <1>3, <1>4, <1>6, <1>7, <1>9, <1>10, <1>11 DEF Forest, Added, e, tb2, level2

(***************************************************************************)
(* One call of get_or_create_table: the next table, or NULL and no page is *)
(* left, or a wild pointer from an entry with PAGE_NX.                     *)
(***************************************************************************)
Staged(tb, fr, level, tab, index, flags, tb2, fr2, level2, next2) ==
    /\ Forest(tb2, fr2, level2)
    /\ Extends(tb, level, tb2, level2)
    /\ fr2 \subseteq fr
    /\ \/ /\ next2 \in Tables /\ LevelOf(level2, next2) = LevelOf(level, tab) + 1
          /\ Has(tb2, tab, index) /\ Down(tb2, tab, index) = next2
       \/ next2 = Null /\ fr2 = {}
       \/ next2 = Wild /\ Has(tb, tab, index) /\ "NX" \in At(tb, tab, index).perms
    \* Entries are old ones or the new one.
    /\ \A t \in Tables, i \in Slots :
          Inner(level2, t) /\ Has(tb2, t, i)
          => \/ Inner(level, t) /\ At(tb2, t, i) = At(tb, t, i)
             \/ t = tab /\ At(tb2, t, i).perms = flags /\ fr2 # fr
    \* No other table in use has changed.
    /\ \A t \in Tables, i \in Slots :
          LevelOf(level, t) # 0 /\ t # tab => At(tb2, t, i) = At(tb, t, i)

\* Every call of get_or_create_table does what Staged says.
LEMMA Stage ==
    ASSUME NEW tb \in TablesT, NEW fr \in SUBSET Pages, NEW level \in LevelsT,
           Forest(tb, fr, level),
           NEW tab \in Tables, Inner(level, tab), NEW index \in Slots,
           NEW flags \in SUBSET Flags
    PROVE  \E tb2 \in TablesT, fr2 \in SUBSET Pages, level2 \in LevelsT,
              next2 \in Tables \cup {Null, Wild} :
             /\ GetOrCreateTable([tables |-> tb, free |-> fr, next |-> tab], index, flags)
                = [tables |-> tb2, free |-> fr2, next |-> next2]
             /\ Staged(tb, fr, level, tab, index, flags, tb2, fr2, level2, next2)
<1> DEFINE t0 == [tables |-> tb, free |-> fr, next |-> tab]
           p == Lowest(fr)
           e == At(tb, tab, index)
           u == GetOrCreateTable(t0, index, flags)
           tb2 == WithTable(tb, tab, index, EntryTo(p, flags), p)
           level2 == WithLevel(level, p, LevelOf(level, tab) + 1)
<1>1. u = IF Has(tb, tab, index) THEN [tables |-> tb, free |-> fr, next |-> TableAt(e)]
          ELSE IF fr = {} THEN [tables |-> tb, free |-> fr, next |-> Null]
          ELSE [tables |-> tb2, free |-> fr \ {p}, next |-> p]
  <2>1. t0.tables = tb /\ t0.free = fr /\ t0.next = tab
    OBVIOUS
  <2>2. ASSUME NEW n
        PROVE  [t0 EXCEPT !.next = n] = [tables |-> tb, free |-> fr, next |-> n]
    OBVIOUS
  <2> HIDE DEF t0
  <2>3. QED
    BY <2>1, <2>2, Zenon DEF GetOrCreateTable, Has, At, WithTable, EntryTo
<1>2. Extends(tb, level, tb, level)
  BY DEF Extends
<1> HIDE DEF u
<1>3. CASE Has(tb, tab, index)
  <2> DEFINE n == TableAt(e)
  <2>1. Down(tb, tab, index) \in Tables
        /\ LevelOf(level, Down(tb, tab, index)) = LevelOf(level, tab) + 1
    BY <1>3 DEF Forest, Descends
  <2>2. \/ n = Down(tb, tab, index)
        \/ n = Wild /\ "NX" \in e.perms
    BY DEF TableAt, Down
  <2>3. u = [tables |-> tb, free |-> fr, next |-> n]
    BY <1>1, <1>3
  <2> HIDE DEF n, e
  <2>4. n \in Tables \cup {Null, Wild}
    BY <2>1, <2>2
  <2>5. Staged(tb, fr, level, tab, index, flags, tb, fr, level, n)
    BY <1>2, <1>3, <2>1, <2>2 DEF Staged, e
  <2>6. QED
    BY <2>3, <2>4, <2>5 DEF u
<1>4. CASE ~Has(tb, tab, index) /\ fr = {}
  <2>1. u = [tables |-> tb, free |-> fr, next |-> Null]
    BY <1>1, <1>4
  <2>2. Staged(tb, fr, level, tab, index, flags, tb, fr, level, Null)
    BY <1>2, <1>4 DEF Staged
  <2>3. QED
    BY <2>1, <2>2 DEF u
<1>5. CASE ~Has(tb, tab, index) /\ fr # {}
  <2>1. p \in fr
    BY <1>5, LowestFree
  <2>2. u = [tables |-> tb2, free |-> fr \ {p}, next |-> p]
    BY <1>1, <1>5
  <2> HIDE DEF p
  <2>3. Added(tb, fr, level, tab, index, EntryTo(p, flags), p, tb2, level2)
    BY <1>5, <2>1, NewTable
  <2>4. p \in Tables /\ LevelOf(level, p) = 0 /\ fr \ {p} # fr /\ fr \ {p} \in SUBSET Pages
    BY <2>1, TablesApart DEF Forest, Unused
  <2> HIDE DEF tb2, level2
  <2>5. \A t \in Tables, i \in Slots :
           Inner(level2, t) /\ Has(tb2, t, i)
           => \/ Inner(level, t) /\ At(tb2, t, i) = At(tb, t, i)
              \/ t = tab /\ At(tb2, t, i).perms = flags /\ fr \ {p} # fr
    BY <2>3, <2>4 DEF Inner, EntryTo, Added
  <2>6. \A t \in Tables, i \in Slots :
           LevelOf(level, t) # 0 /\ t # tab => At(tb2, t, i) = At(tb, t, i)
    BY <2>3, <2>4 DEF Added
  <2>7. Staged(tb, fr, level, tab, index, flags, tb2, fr \ {p}, level2, p)
    BY <2>3, <2>4, <2>5, <2>6 DEF Staged, Added
  <2>8. QED
    BY <2>2, <2>3, <2>4, <2>7 DEF u, Added
<1>6. QED
  BY <1>3, <1>4, <1>5

(***************************************************************************)
(* Several calls in a row, from tables tb to tables tb2: made through PML4 *)
(* b with some flags, down to tables of level k.                           *)
(***************************************************************************)
Grown(k, b, flags, tb, fr, level, tb2, fr2, level2) ==
    /\ Forest(tb2, fr2, level2)
    /\ fr2 \subseteq fr
    /\ \A t \in Tables : LevelOf(level, t) # 0 => LevelOf(level2, t) = LevelOf(level, t)
    \* All translations are as they were.
    /\ \A base \in Tables, w \in VAs :
          LevelOf(level, base) = 1 => Walk(tb2, base, w) = Walk(tb, base, w)
    \* Entries are kept, in other PML4s also the absent ones.
    /\ \A t \in Tables, i \in Slots :
          LevelOf(level, t) # 0 /\ Has(tb, t, i) => At(tb2, t, i) = At(tb, t, i)
    /\ \A t \in Tables, i \in Slots :
          LevelOf(level, t) = 1 /\ t # b => At(tb2, t, i) = At(tb, t, i)
    \* New entries have the flags, and a page was taken for them.
    /\ \A t \in Tables, i \in Slots :
          Inner(level2, t) /\ Has(tb2, t, i)
          => \/ Inner(level, t) /\ At(tb2, t, i) = At(tb, t, i)
             \/ At(tb2, t, i).perms = flags /\ fr2 # fr /\ LevelOf(level2, t) =< k

\* No call changes nothing.
LEMMA GrownStart ==
    ASSUME NEW tb, NEW fr, NEW level, Forest(tb, fr, level), NEW b, NEW flags
    PROVE  Grown(0, b, flags, tb, fr, level, tb, fr, level)
BY DEF Grown

\* One more call of get_or_create_table, on a table one level down.
LEMMA GrownStep ==
    ASSUME NEW k \in {0, 1, 2}, NEW b, NEW flags, NEW tb, NEW fr, NEW level,
           NEW tb2, NEW fr2, NEW level2,
           Grown(k, b, flags, tb, fr, level, tb2, fr2, level2),
           NEW tab \in Tables, LevelOf(level2, tab) = k + 1, k = 0 => tab = b,
           NEW index \in Slots, NEW tb3, NEW fr3, NEW level3, NEW next3,
           Staged(tb2, fr2, level2, tab, index, flags, tb3, fr3, level3, next3)
    PROVE  Grown(k + 1, b, flags, tb, fr, level, tb3, fr3, level3)
<1>1. Forest(tb3, fr3, level3) /\ fr3 \subseteq fr
  BY DEF Grown, Staged
<1>2. \A t \in Tables : LevelOf(level, t) # 0 =>
         LevelOf(level2, t) = LevelOf(level, t) /\ LevelOf(level3, t) = LevelOf(level, t)
  BY DEF Grown, Staged, Extends
<1>3. ASSUME NEW base \in Tables, NEW w \in VAs, LevelOf(level, base) = 1
      PROVE  Walk(tb3, base, w) = Walk(tb, base, w)
  <2>1. Walk(tb2, base, w) = Walk(tb, base, w)
    BY <1>3 DEF Grown
  <2>2. Forest(tb2, fr2, level2) /\ Extends(tb2, level2, tb3, level3)
    BY DEF Grown, Staged
  <2>3. LevelOf(level2, base) = 1
    BY <1>2, <1>3
  <2>4. QED
    BY <2>1, <2>2, <2>3, WalkUnchanged
<1>4. \A t \in Tables, i \in Slots :
         LevelOf(level, t) # 0 /\ Has(tb, t, i) => At(tb3, t, i) = At(tb, t, i)
  <2> SUFFICES ASSUME NEW t \in Tables, NEW i \in Slots, LevelOf(level, t) # 0, Has(tb, t, i)
               PROVE  At(tb3, t, i) = At(tb, t, i)
    OBVIOUS
  <2>1. At(tb2, t, i) = At(tb, t, i)
    BY DEF Grown
  <2>2. Has(tb2, t, i)
    BY <2>1, SameEntry
  <2>3. QED
    BY <1>2, <2>1, <2>2 DEF Staged, Extends
<1>5. \A t \in Tables, i \in Slots :
         LevelOf(level, t) = 1 /\ t # b => At(tb3, t, i) = At(tb, t, i)
  <2> SUFFICES ASSUME NEW t \in Tables, NEW i \in Slots, LevelOf(level, t) = 1, t # b
               PROVE  At(tb3, t, i) = At(tb, t, i)
    OBVIOUS
  <2>1. At(tb2, t, i) = At(tb, t, i)
    BY DEF Grown
  <2>2. LevelOf(level2, t) = 1
    BY <1>2
  <2>3. t # tab
    BY <2>2
  <2>4. QED
    BY <2>1, <2>2, <2>3 DEF Staged
<1>6. \A t \in Tables, i \in Slots :
         Inner(level3, t) /\ Has(tb3, t, i)
         => \/ Inner(level, t) /\ At(tb3, t, i) = At(tb, t, i)
            \/ At(tb3, t, i).perms = flags /\ fr3 # fr /\ LevelOf(level3, t) =< k + 1
  <2> SUFFICES ASSUME NEW t \in Tables, NEW i \in Slots, Inner(level3, t), Has(tb3, t, i)
               PROVE  \/ Inner(level, t) /\ At(tb3, t, i) = At(tb, t, i)
                      \/ At(tb3, t, i).perms = flags /\ fr3 # fr /\ LevelOf(level3, t) =< k + 1
    OBVIOUS
  <2>1. \/ Inner(level2, t) /\ At(tb3, t, i) = At(tb2, t, i)
        \/ t = tab /\ At(tb3, t, i).perms = flags /\ fr3 # fr2
    BY DEF Staged
  <2>2. CASE Inner(level2, t) /\ At(tb3, t, i) = At(tb2, t, i)
    <3>1. Has(tb2, t, i)
      BY <2>2, SameEntry
    <3>2. LevelOf(level3, t) = LevelOf(level2, t) /\ LevelOf(level2, t) \in {1, 2, 3}
      BY <2>2 DEF Staged, Extends, Inner
    <3>3. fr3 \subseteq fr2 /\ fr2 \subseteq fr
      BY DEF Staged, Grown
    <3>4. \/ Inner(level, t) /\ At(tb2, t, i) = At(tb, t, i)
          \/ At(tb2, t, i).perms = flags /\ fr2 # fr /\ LevelOf(level2, t) =< k
      BY <2>2, <3>1 DEF Grown
    <3>5. fr2 # fr => fr3 # fr
      BY <3>3
    <3>6. QED
      BY <2>2, <3>2, <3>4, <3>5
  <2>3. CASE t = tab /\ At(tb3, t, i).perms = flags /\ fr3 # fr2
    <3>1. LevelOf(level3, t) = k + 1
      BY <2>3 DEF Staged, Extends
    <3>2. fr3 # fr
      BY <2>3 DEF Staged, Grown
    <3>3. QED
      BY <2>3, <3>1, <3>2
  <2>4. QED
    BY <2>1, <2>2, <2>3
<1>7. QED
  BY <1>1, <1>2, <1>3, <1>4, <1>5, <1>6 DEF Grown

\* A wild pointer comes from an entry that was there before the first call.
LEMMA WildIsOld ==
    ASSUME NEW k \in {0, 1, 2}, NEW b, NEW flags, NEW tb, NEW fr, NEW level,
           NEW tb2, NEW fr2, NEW level2,
           Grown(k, b, flags, tb, fr, level, tb2, fr2, level2),
           NEW tab \in Tables, LevelOf(level2, tab) = k + 1,
           NEW index \in Slots, NEW tb3, NEW fr3, NEW level3,
           Staged(tb2, fr2, level2, tab, index, flags, tb3, fr3, level3, Wild)
    PROVE  \E t \in Tables, i \in Slots :
              Inner(level, t) /\ Has(tb, t, i) /\ "NX" \in At(tb, t, i).perms
<1>1. Has(tb2, tab, index) /\ "NX" \in At(tb2, tab, index).perms
  BY TablesApart DEF Staged
<1>2. Inner(level2, tab)
  BY DEF Inner
<1>3. Inner(level, tab) /\ At(tb2, tab, index) = At(tb, tab, index)
  BY <1>1, <1>2 DEF Grown
<1>4. Has(tb, tab, index)
  BY <1>1, <1>3, SameEntry
<1>5. QED
  BY <1>1, <1>3, <1>4

\* More calls only add to what was grown.
LEMMA GrownMore ==
    ASSUME NEW k \in {0, 1, 2}, NEW b, NEW flags, NEW tb, NEW fr, NEW level,
           NEW tb2, NEW fr2, NEW level2 \in LevelsT,
           Grown(k, b, flags, tb, fr, level, tb2, fr2, level2)
    PROVE  Grown(k + 1, b, flags, tb, fr, level, tb2, fr2, level2)
<1>1. \A t \in Tables : LevelOf(level2, t) =< k => LevelOf(level2, t) =< k + 1
  BY DEF LevelsT, LevelOf
<1>2. QED
  BY <1>1 DEF Grown

\* The walk along va from PML4 b is at table n after k levels.
Path(k, tb, b, va, n) ==
    /\ k = 0 => n = b
    /\ k = 1 => Has(tb, b, va[1]) /\ Table2(tb, b, va) = n
    /\ k = 2 => /\ Has(tb, b, va[1]) /\ Has(tb, Table2(tb, b, va), va[2])
                /\ Table3(tb, b, va) = n
    /\ k = 3 => Leads(tb, b, va) /\ Table4(tb, b, va) = n

\* The walk along va follows vmm_map down by one level.
LEMMA PathGrows ==
    ASSUME NEW k \in {0, 1, 2}, NEW tb, NEW fr, NEW level, Forest(tb, fr, level),
           NEW b \in Tables, LevelOf(level, b) = 1, NEW va \in VAs,
           NEW n \in Tables, LevelOf(level, n) = k + 1, Path(k, tb, b, va, n),
           NEW tb2, NEW level2, Extends(tb, level, tb2, level2),
           NEW n2, Has(tb2, n, va[k + 1]), Down(tb2, n, va[k + 1]) = n2
    PROVE  Path(k + 1, tb2, b, va, n2)
<1> DEFINE i1 == va[1]  i2 == va[2]  i3 == va[3]
           t2 == Down(tb, b, i1)  t3 == Down(tb, t2, i2)
           u2 == Down(tb2, b, i1)  u3 == Down(tb2, u2, i2)
<1>1. i1 \in Slots /\ i2 \in Slots /\ i3 \in Slots
  BY Indices
<1>2. \A t \in Tables, i \in Slots :
         LevelOf(level, t) # 0 /\ Has(tb, t, i)
         => Has(tb2, t, i) /\ Down(tb2, t, i) = Down(tb, t, i)
  BY SameEntry DEF Extends
<1>3. CASE k = 0
  BY <1>3 DEF Path, Table2
<1>4. CASE k = 1
  <2>1. Has(tb, b, i1) /\ t2 = n
    BY <1>4 DEF Path, Table2
  <2>2. Has(tb2, b, i1) /\ u2 = n
    BY <1>1, <1>2, <2>1
  <2>3. QED
    BY <1>4, <2>2 DEF Path, Table2, Table3
<1>5. CASE k = 2
  <2>1. Has(tb, b, i1) /\ Has(tb, t2, i2) /\ t3 = n
    BY <1>5 DEF Path, Table2, Table3
  <2> HIDE DEF i1, i2, i3
  <2>2. t2 \in Tables /\ LevelOf(level, t2) = 2
    BY <1>1, <2>1, WalkLayers
  <2>3. Has(tb2, b, i1) /\ u2 = t2
    BY <1>1, <1>2, <2>1
  <2> HIDE DEF t2, u2
  <2>4. Has(tb2, t2, i2) /\ u3 = n
    BY <1>1, <1>2, <2>1, <2>2, <2>3
  <2>5. Has(tb2, b, i1) /\ Has(tb2, u2, i2) /\ u3 = n
    BY <2>3, <2>4
  <2>6. Leads(tb2, b, va) /\ Table4(tb2, b, va) = n2
    BY <1>5, <2>5 DEF Leads, Table2, Table3, Table4, u2, i1, i2
  <2>7. QED
    BY <1>5, <2>6 DEF Path
<1>6. QED
  BY <1>3, <1>4, <1>5

(***************************************************************************)
(* How far vmm_map has come after k calls of get_or_create_table: at a     *)
(* table of level k + 1, at NULL with no page left, or at a pointer from   *)
(* an entry with PAGE_NX that was there before the call.                   *)
(***************************************************************************)
OldBan(tb, level) ==
    \E t \in Tables, i \in Slots :
        Inner(level, t) /\ Has(tb, t, i) /\ "NX" \in At(tb, t, i).perms
Arrived(k, b, va, tb, fr, level, tb2, fr2, level2, n) ==
    \/ n \in Tables /\ LevelOf(level2, n) = k + 1 /\ Path(k, tb2, b, va, n)
    \/ n = Null /\ fr2 = {}
    \/ n = Wild /\ OldBan(tb, level)
State(tb, fr, n) == [tables |-> tb, free |-> fr, next |-> n]
Progress(k, b, va, flags, tb, fr, level, t) ==
    \E tb2 \in TablesT, fr2 \in SUBSET Pages, level2 \in LevelsT, n \in Tables \cup {Null, Wild} :
        /\ t = State(tb2, fr2, n)
        /\ Grown(k, b, flags, tb, fr, level, tb2, fr2, level2)
        /\ Arrived(k, b, va, tb, fr, level, tb2, fr2, level2, n)
Bad(t) == t.next \in {Null, Wild}
NextStage(t, index, flags) == IF Bad(t) THEN t ELSE GetOrCreateTable(t, index, flags)

\* vmm_map starts at the PML4 of the space.
LEMMA ProgressStart ==
    ASSUME NEW tb \in TablesT, NEW fr \in SUBSET Pages, NEW level \in LevelsT,
           Forest(tb, fr, level), NEW b \in Tables, LevelOf(level, b) = 1,
           NEW va \in VAs, NEW flags \in SUBSET Flags
    PROVE  Progress(0, b, va, flags, tb, fr, level, State(tb, fr, b))
<1>1. Grown(0, b, flags, tb, fr, level, tb, fr, level)
  BY GrownStart
<1>2. Arrived(0, b, va, tb, fr, level, tb, fr, level, b)
  BY DEF Arrived, Path
<1>3. QED
  BY <1>1, <1>2 DEF Progress

\* Every call of get_or_create_table brings vmm_map one level down, or fails.
LEMMA ProgressStep ==
    ASSUME NEW k \in {0, 1, 2}, NEW b \in Tables, NEW va \in VAs, NEW flags \in SUBSET Flags,
           NEW tb \in TablesT, NEW fr \in SUBSET Pages, NEW level \in LevelsT,
           LevelOf(level, b) = 1,
           NEW t, Progress(k, b, va, flags, tb, fr, level, t)
    PROVE  /\ Progress(k + 1, b, va, flags, tb, fr, level, NextStage(t, va[k + 1], flags))
           /\ Bad(t) => Bad(NextStage(t, va[k + 1], flags))
<1>1. PICK tb2 \in TablesT, fr2 \in SUBSET Pages, level2 \in LevelsT,
           n \in Tables \cup {Null, Wild} :
         /\ t = State(tb2, fr2, n)
         /\ Grown(k, b, flags, tb, fr, level, tb2, fr2, level2)
         /\ Arrived(k, b, va, tb, fr, level, tb2, fr2, level2, n)
  BY DEF Progress
<1>2. Bad(t) <=> n \in {Null, Wild}
  BY <1>1 DEF Bad, State
<1> DEFINE index == va[k + 1]
<1>3. index \in Slots
  BY Indices
<1> HIDE DEF index
<1>4. CASE n \in {Null, Wild}
  <2>1. NextStage(t, index, flags) = t
    BY <1>2, <1>4 DEF NextStage
  <2>2. Grown(k + 1, b, flags, tb, fr, level, tb2, fr2, level2)
    BY <1>1, GrownMore
  <2>3. n \notin Tables
    BY <1>4, TablesApart
  <2>4. Arrived(k + 1, b, va, tb, fr, level, tb2, fr2, level2, n)
    BY <1>1, <2>3 DEF Arrived
  <2>5. Progress(k + 1, b, va, flags, tb, fr, level, t)
    BY <1>1, <2>2, <2>4 DEF Progress
  <2>6. QED
    BY <1>4, <2>1, <2>5 DEF index
<1>5. CASE n \notin {Null, Wild}
  <2>1. n \in Tables /\ LevelOf(level2, n) = k + 1 /\ Path(k, tb2, b, va, n)
    BY <1>1, <1>5 DEF Arrived
  <2>2. Forest(tb2, fr2, level2) /\ LevelOf(level2, b) = 1
    BY <1>1 DEF Grown
  <2>3. Inner(level2, n)
    BY <2>1 DEF Inner
  <2>4. PICK tb3 \in TablesT, fr3 \in SUBSET Pages, level3 \in LevelsT,
             n3 \in Tables \cup {Null, Wild} :
           /\ GetOrCreateTable([tables |-> tb2, free |-> fr2, next |-> n], index, flags)
              = [tables |-> tb3, free |-> fr3, next |-> n3]
           /\ Staged(tb2, fr2, level2, n, index, flags, tb3, fr3, level3, n3)
    BY <1>3, <2>1, <2>2, <2>3, Stage
  <2>5. NextStage(t, index, flags) = State(tb3, fr3, n3)
    BY <1>1, <1>2, <1>5, <2>4 DEF NextStage, State
  <2>6. k = 0 => n = b
    BY <2>1 DEF Path
  <2>7. Grown(k + 1, b, flags, tb, fr, level, tb3, fr3, level3)
    BY <1>1, <1>3, <2>1, <2>4, <2>6, GrownStep
  <2>8. Arrived(k + 1, b, va, tb, fr, level, tb3, fr3, level3, n3)
    <3>1. \/ /\ n3 \in Tables /\ LevelOf(level3, n3) = LevelOf(level2, n) + 1
             /\ Has(tb3, n, index) /\ Down(tb3, n, index) = n3
          \/ n3 = Null /\ fr3 = {}
          \/ n3 = Wild
      BY <2>4 DEF Staged
    <3>2. CASE /\ n3 \in Tables /\ LevelOf(level3, n3) = LevelOf(level2, n) + 1
               /\ Has(tb3, n, index) /\ Down(tb3, n, index) = n3
      <4>1. Extends(tb2, level2, tb3, level3)
        BY <2>4 DEF Staged
      <4>2. Path(k + 1, tb3, b, va, n3)
        BY <2>1, <2>2, <3>2, <4>1, PathGrows DEF index
      <4>3. QED
        BY <2>1, <3>2, <4>2 DEF Arrived
    <3>3. CASE n3 = Null /\ fr3 = {}
      BY <3>3 DEF Arrived
    <3>4. CASE n3 = Wild
      <4>1. OldBan(tb, level)
        BY <1>1, <1>3, <2>1, <2>4, <3>4, WildIsOld DEF OldBan
      <4>2. QED
        BY <3>4, <4>1 DEF Arrived
    <3>5. QED
      BY <3>1, <3>2, <3>3, <3>4
  <2>9. Progress(k + 1, b, va, flags, tb, fr, level, State(tb3, fr3, n3))
    BY <2>7, <2>8 DEF Progress
  <2>10. QED
    BY <1>2, <1>5, <2>5, <2>9 DEF index
<1>6. QED
  BY <1>4, <1>5

\* Line 80: the entry of a page table is written.
Write(tb, pt, last, e) == [tb EXCEPT ![pt][last] = e]

\* A write to a page table leaves all other entries and the layers alone.
LEMMA Written ==
    ASSUME NEW tb \in TablesT, NEW fr, NEW level, Forest(tb, fr, level),
           NEW pt \in Tables, LevelOf(level, pt) = 4, NEW last \in Slots, NEW e \in Entries
    PROVE  LET tb2 == Write(tb, pt, last, e)
           IN  /\ tb2 \in TablesT
               /\ At(tb2, pt, last) = e
               /\ \A t \in Tables, i \in Slots :
                     ~(t = pt /\ i = last) => At(tb2, t, i) = At(tb, t, i)
               /\ Forest(tb2, fr, level)
<1> DEFINE tb2 == Write(tb, pt, last, e)
<1>1. /\ tb2 \in TablesT
      /\ At(tb2, pt, last) = e
      /\ \A t \in Tables, i \in Slots :
            ~(t = pt /\ i = last) => At(tb2, t, i) = At(tb, t, i)
  BY DEF TablesT, Write, At
<1> HIDE DEF tb2
<1>2. \A t \in Tables, i \in Slots :
         Inner(level, t) => /\ Has(tb2, t, i) <=> Has(tb, t, i)
                            /\ Down(tb2, t, i) = Down(tb, t, i)
  <2> SUFFICES ASSUME NEW t \in Tables, NEW i \in Slots, Inner(level, t)
               PROVE  (Has(tb2, t, i) <=> Has(tb, t, i)) /\ Down(tb2, t, i) = Down(tb, t, i)
    OBVIOUS
  <2>1. t # pt
    BY DEF Inner
  <2>2. QED
    BY <1>1, <2>1, SameEntry
<1>3. Descends(tb2, level)
  BY <1>2 DEF Forest, Descends
<1>4. OneParent(tb2, level)
  <2> SUFFICES ASSUME NEW t \in Tables, NEW u \in Tables, NEW i \in Slots, NEW j \in Slots,
                      Inner(level, t), Inner(level, u), Has(tb2, t, i), Has(tb2, u, j),
                      Down(tb2, t, i) = Down(tb2, u, j)
               PROVE  i = j /\ (t = u \/ (/\ LevelOf(level, t) = 1 /\ LevelOf(level, u) = 1
                                          /\ i \in KernelSlots))
    BY DEF OneParent
  <2>1. Has(tb, t, i) /\ Has(tb, u, j) /\ Down(tb, t, i) = Down(tb, u, j)
    BY <1>2
  <2>2. QED
    BY <2>1 DEF Forest, OneParent
<1>5. QED
  BY <1>1, <1>3, <1>4 DEF Forest, tb2

(***************************************************************************)
(* All that vmm_map does to the tables when its last call returns n.       *)
(***************************************************************************)
Mapped(b, va, target, flags, tb, fr, level, tb2, fr2, level2, n) ==
    /\ Forest(tb2, fr2, level2)
    /\ fr2 \subseteq fr
    /\ \A t \in Tables : LevelOf(level, t) # 0 => LevelOf(level2, t) = LevelOf(level, t)
    /\ \A t \in Tables, i \in Slots :
          Inner(level, t) /\ Has(tb, t, i) => At(tb2, t, i) = At(tb, t, i)
    /\ \A t \in Tables, i \in Slots :
          LevelOf(level, t) = 1 /\ t # b => At(tb2, t, i) = At(tb, t, i)
    /\ \A t \in Tables, i \in Slots :
          Inner(level2, t) /\ Has(tb2, t, i)
          => \/ Inner(level, t) /\ At(tb2, t, i) = At(tb, t, i)
             \/ At(tb2, t, i).perms = flags /\ fr2 # fr
    /\ \A base \in Tables, w \in VAs :
          LevelOf(level, base) = 1
          => \/ Walk(tb2, base, w) = Walk(tb, base, w)
             \/ n \in Tables /\ w = va /\ (base = b \/ va[1] \in KernelSlots)
    /\ n \in Tables => Walk(tb2, b, va).frame = target
    /\ \/ n \in Tables
       \/ n = Null /\ fr2 = {}
       \/ n = Wild /\ OldBan(tb, level)

\* A vmm_map that fails changes no translation.
LEMMA MapFails ==
    ASSUME NEW b, NEW va, NEW target, NEW flags, NEW tb, NEW fr, NEW level,
           NEW tb2, NEW fr2, NEW level2, NEW n \in {Null, Wild},
           Grown(3, b, flags, tb, fr, level, tb2, fr2, level2),
           Arrived(3, b, va, tb, fr, level, tb2, fr2, level2, n)
    PROVE  Mapped(b, va, target, flags, tb, fr, level, tb2, fr2, level2, n)
<1>1. n \notin Tables
  BY TablesApart
<1>2. (n = Null /\ fr2 = {}) \/ (n = Wild /\ OldBan(tb, level))
  BY <1>1 DEF Arrived
<1>3. QED
  BY <1>1, <1>2 DEF Mapped, Grown, Inner

\* A vmm_map that succeeds changes the translation of its address only.
LEMMA MapWrites ==
    ASSUME NEW b \in Tables, NEW va \in VAs, NEW target \in Targets, NEW flags \in SUBSET Flags,
           NEW tb, NEW fr, NEW level, LevelOf(level, b) = 1,
           NEW tb2 \in TablesT, NEW fr2, NEW level2, NEW n \in Tables,
           Grown(3, b, flags, tb, fr, level, tb2, fr2, level2),
           Arrived(3, b, va, tb, fr, level, tb2, fr2, level2, n)
    PROVE  LET tb3 == Write(tb2, n, va[4], EntryTo(target, flags))
           IN  /\ tb3 \in TablesT
               /\ Mapped(b, va, target, flags, tb, fr, level, tb3, fr2, level2, n)
<1> DEFINE last == va[4]
           e == EntryTo(target, flags)
           tb3 == Write(tb2, n, last, e)
<1>1. LevelOf(level2, n) = 4 /\ Path(3, tb2, b, va, n)
  BY TablesApart DEF Arrived
<1>2. Leads(tb2, b, va) /\ Table4(tb2, b, va) = n
  BY <1>1 DEF Path
<1>3. e \in Entries /\ Present(e) /\ e.frame = target
  BY TablesApart, PresentFrame DEF EntryTo
<1>4. last \in Slots
  BY Indices
<1>5. Forest(tb2, fr2, level2) /\ LevelOf(level2, b) = 1
  BY DEF Grown
<1> HIDE DEF e, last
<1>6. /\ tb3 \in TablesT
      /\ At(tb3, n, last) = e
      /\ \A t \in Tables, i \in Slots :
            ~(t = n /\ i = last) => At(tb3, t, i) = At(tb2, t, i)
      /\ Forest(tb3, fr2, level2)
  BY <1>1, <1>3, <1>4, <1>5, Written
<1> HIDE DEF tb3
<1>7. \A t \in Tables, i \in Slots : Inner(level2, t) => At(tb3, t, i) = At(tb2, t, i)
  BY <1>1, <1>6 DEF Inner
<1>8. \A t \in Tables : LevelOf(level, t) # 0 => LevelOf(level2, t) = LevelOf(level, t)
  BY DEF Grown
<1>9. \A t \in Tables, i \in Slots :
         Inner(level, t) /\ Has(tb, t, i) => At(tb3, t, i) = At(tb, t, i)
  BY <1>7, <1>8 DEF Grown, Inner
<1>10. \A t \in Tables, i \in Slots :
         LevelOf(level, t) = 1 /\ t # b => At(tb3, t, i) = At(tb, t, i)
  BY <1>7, <1>8 DEF Grown, Inner
<1>11. \A t \in Tables, i \in Slots :
         Inner(level2, t) /\ Has(tb3, t, i)
         => \/ Inner(level, t) /\ At(tb3, t, i) = At(tb, t, i)
            \/ At(tb3, t, i).perms = flags /\ fr2 # fr
  <2> SUFFICES ASSUME NEW t \in Tables, NEW i \in Slots, Inner(level2, t), Has(tb3, t, i)
               PROVE  \/ Inner(level, t) /\ At(tb3, t, i) = At(tb, t, i)
                      \/ At(tb3, t, i).perms = flags /\ fr2 # fr
    OBVIOUS
  <2>1. At(tb3, t, i) = At(tb2, t, i)
    BY <1>7
  <2>2. Has(tb2, t, i)
    BY <2>1, SameEntry
  <2>3. QED
    BY <2>1, <2>2 DEF Grown
<1>12. \A base \in Tables, w \in VAs :
          LevelOf(level, base) = 1
          => \/ Walk(tb3, base, w) = Walk(tb, base, w)
             \/ w = va /\ (base = b \/ va[1] \in KernelSlots)
  <2> SUFFICES ASSUME NEW base \in Tables, NEW w \in VAs, LevelOf(level, base) = 1,
                      Walk(tb3, base, w) # Walk(tb, base, w)
               PROVE  w = va /\ (base = b \/ va[1] \in KernelSlots)
    OBVIOUS
  <2>1. LevelOf(level2, base) = 1 /\ Walk(tb2, base, w) = Walk(tb, base, w)
    BY <1>8 DEF Grown
  <2>2. Leads(tb2, base, w) /\ Table4(tb2, base, w) = n /\ w[4] = last
    BY <1>1, <1>4, <1>5, <1>6, <2>1, WalkWritten
  <2> DEFINE i1 == w[1]  i2 == w[2]  i3 == w[3]
             j1 == va[1]  j2 == va[2]  j3 == va[3]
             t2 == Down(tb2, base, i1)  t3 == Down(tb2, t2, i2)
             u2 == Down(tb2, b, j1)  u3 == Down(tb2, u2, j2)
  <2>3. Way(tb2, base, i1, t2, i2, t3, i3, n) /\ Way(tb2, b, j1, u2, j2, u3, j3, n)
    BY <1>2, <2>2, Indices DEF Leads, Table2, Table3, Table4, Way
  <2> HIDE DEF i1, i2, i3, j1, j2, j3, t2, t3, u2, u3
  <2>4. LevelOf(level2, base) = 1 /\ LevelOf(level2, b) = 1 /\ Forest(tb2, fr2, level2)
    BY <1>5, <2>1
  <2>5. i1 = j1 /\ i2 = j2 /\ i3 = j3 /\ (base = b \/ i1 \in KernelSlots)
    BY <2>3, <2>4, LeadsOnce, SMTT(60)
  <2>6. w = va
    BY <2>2, <2>5, SameIndices DEF i1, i2, i3, j1, j2, j3, last
  <2>7. QED
    BY <2>5, <2>6 DEF i1
<1>13. Walk(tb3, b, va).frame = target
  <2>1. Leads(tb3, b, va) /\ Table4(tb3, b, va) = n
    BY <1>1, <1>2, <1>4, <1>5, <1>6, WalkWritten
  <2>2. Has(tb3, Table4(tb3, b, va), last) /\ At(tb3, Table4(tb3, b, va), last) = e
    BY <1>3, <1>6, <2>1 DEF Has
  <2>3. \A e1, e2, e3 : Through(e1, e2, e3, e).frame = target
    BY <1>3 DEF Through
  <2>4. QED
    BY <2>1, <2>2, <2>3, WalkIs DEF last
<1>14. fr2 \subseteq fr
  BY DEF Grown
<1>15. Mapped(b, va, target, flags, tb, fr, level, tb3, fr2, level2, n)
  BY <1>6, <1>8, <1>9, <1>10, <1>11, <1>12, <1>13, <1>14 DEF Mapped
<1>16. QED
  BY <1>6, <1>15 DEF tb3, e, last

(***************************************************************************)
(* vmm_map as a whole: what it leaves in the tables, and when it fails.    *)
(***************************************************************************)
LEMMA MapStep ==
    ASSUME NEW s \in Live, NEW va \in VAs, NEW target \in Targets, NEW flags \in SUBSET Flags,
           VmmMap(s, va, target, flags),
           entry \in TablesT, free \in SUBSET Pages, root[s] \in Tables,
           NEW level \in LevelsT, Forest(entry, free, level), LevelOf(level, root[s]) = 1
    PROVE  \E level2 \in LevelsT, n \in Tables \cup {Null, Wild} :
              /\ entry' \in TablesT /\ free' \in SUBSET Pages
              /\ Mapped(root[s], va, target, flags, entry, free, level,
                        entry', free', level2, n)
              /\ crashed' \in BOOLEAN /\ (crashed' => n \notin Tables)
              /\ result' = "JAR_OK" => n \in Tables
              /\ tlb' = IF n \in Tables THEN Flushed(tlb, va) ELSE tlb
              /\ nxTable' = (nxTable \/ ("NX" \in flags /\ free' # free))
<1> DEFINE b == root[s]
           t0 == State(entry, free, b)
           t1 == NextStage(t0, va[1], flags)
           t2 == NextStage(t1, va[2], flags)
           t3 == NextStage(t2, va[3], flags)
           e == EntryTo(target, flags)
<1>1. ~Bad(t0)
  BY TablesApart DEF Bad, State
<1>2. /\ free' = t3.free
      /\ entry' = IF Bad(t3) THEN t3.tables ELSE Write(t3.tables, t3.next, va[4], e)
      /\ crashed' = (Bad(t2) \/ t3.next = Wild)
      /\ result' = IF crashed' THEN "none" ELSE IF Bad(t3) THEN "JAR_NOMEM" ELSE "JAR_OK"
      /\ tlb' = IF Bad(t3) THEN tlb ELSE Flushed(tlb, va)
      /\ nxTable' = (nxTable \/ ("NX" \in flags /\ t3.free # free))
  <2>1. t1 = GetOrCreateTable([tables |-> entry, free |-> free, next |-> b], va[1], flags)
    BY <1>1 DEF NextStage, State
  <2>2. t2 = IF t1.next \in {Null, Wild} THEN t1 ELSE GetOrCreateTable(t1, va[2], flags)
    BY DEF NextStage, Bad
  <2>3. t3 = IF t2.next \in {Null, Wild} THEN t2 ELSE GetOrCreateTable(t2, va[3], flags)
    BY DEF NextStage, Bad
  <2> HIDE DEF t0, t1, t2, t3
  <2>4. QED
    BY <2>1, <2>2, <2>3, Zenon DEF VmmMap, Bad, Write, EntryTo
<1>3. Progress(0, b, va, flags, entry, free, level, t0)
  BY ProgressStart
<1> HIDE DEF t0
<1>4. Progress(1, b, va, flags, entry, free, level, t1)
  BY <1>3, ProgressStep
<1> HIDE DEF t1
<1>5. Progress(2, b, va, flags, entry, free, level, t2)
  BY <1>4, ProgressStep
<1> HIDE DEF t2
<1>6. Progress(3, b, va, flags, entry, free, level, t3) /\ (Bad(t2) => Bad(t3))
  BY <1>5, ProgressStep
<1> HIDE DEF t3
<1>7. PICK tb2 \in TablesT, fr2 \in SUBSET Pages, level2 \in LevelsT,
           n \in Tables \cup {Null, Wild} :
         /\ t3 = State(tb2, fr2, n)
         /\ Grown(3, b, flags, entry, free, level, tb2, fr2, level2)
         /\ Arrived(3, b, va, entry, free, level, tb2, fr2, level2, n)
  BY <1>6 DEF Progress
<1>8. t3.tables = tb2 /\ t3.free = fr2 /\ t3.next = n
  BY <1>7 DEF State
<1>9. (Bad(t3) <=> n \notin Tables) /\ (n \notin Tables => n \in {Null, Wild})
      /\ (n \in Tables => n # Wild)
  BY <1>8, TablesApart DEF Bad
<1>10. /\ free' = fr2
       /\ crashed' \in BOOLEAN /\ (crashed' => n \notin Tables)
       /\ result' = "JAR_OK" => n \in Tables
       /\ tlb' = IF n \in Tables THEN Flushed(tlb, va) ELSE tlb
       /\ nxTable' = (nxTable \/ ("NX" \in flags /\ fr2 # free))
  BY <1>2, <1>6, <1>8, <1>9
<1>11. CASE n \in Tables
  <2>1. entry' = Write(tb2, n, va[4], EntryTo(target, flags))
    BY <1>2, <1>8, <1>9, <1>11
  <2>2. /\ entry' \in TablesT
        /\ Mapped(b, va, target, flags, entry, free, level, entry', fr2, level2, n)
    BY <1>7, <1>11, <2>1, MapWrites
  <2>3. QED
    BY <1>10, <2>2
<1>12. CASE n \notin Tables
  <2>1. entry' = tb2
    BY <1>2, <1>8, <1>9, <1>12
  <2>2. Mapped(b, va, target, flags, entry, free, level, tb2, fr2, level2, n)
    BY <1>7, <1>9, <1>12, MapFails
  <2>3. QED
    BY <1>10, <2>1, <2>2
<1>13. QED
  BY <1>11, <1>12

(***************************************************************************)
(* A new PML4 that shares the kernel's entries keeps the tables layered    *)
(* and changes no translation.                                             *)
(***************************************************************************)
SpaceMade(tb, fr, level, k, p, tb2, level2) ==
    /\ tb2 \in TablesT /\ level2 \in LevelsT
    /\ Forest(tb2, fr \ {p}, level2)
    /\ LevelOf(level2, p) = 1
    /\ \A t \in Tables : t # p => LevelOf(level2, t) = LevelOf(level, t)
    /\ \A t \in Tables, i \in Slots : t # p => At(tb2, t, i) = At(tb, t, i)
    /\ \A i \in KernelSlots : At(tb2, p, i) = At(tb, k, i)
    /\ \A i \in Slots : Has(tb2, p, i) => i \in KernelSlots
    /\ \A base \in Tables, w \in VAs :
          LevelOf(level, base) = 1 => Walk(tb2, base, w) = Walk(tb, base, w)

\* vmm_create makes such a PML4 of the page it allocates (lines 50-51).
LEMMA NewSpace ==
    ASSUME NEW tb \in TablesT, NEW fr \in SUBSET Pages, NEW level \in LevelsT,
           Forest(tb, fr, level), NEW k \in Tables, LevelOf(level, k) = 1, NEW p \in fr,
           NEW pml4, pml4 = [i \in Slots |-> IF i \in KernelSlots THEN At(tb, k, i) ELSE NoEntry]
    PROVE  SpaceMade(tb, fr, level, k, p, [tb EXCEPT ![p] = pml4], WithLevel(level, p, 1))
<1> DEFINE tb2 == [tb EXCEPT ![p] = pml4]
           level2 == WithLevel(level, p, 1)
<1>1. p \in Tables /\ LevelOf(level, p) = 0 /\ KernelSlots \subseteq Slots
  BY TablesApart DEF Forest, Unused, KernelSlots
<1>2. /\ tb2 \in TablesT
      /\ \A t \in Tables, i \in Slots : t # p => At(tb2, t, i) = At(tb, t, i)
      /\ \A i \in Slots : At(tb2, p, i) = IF i \in KernelSlots THEN At(tb, k, i) ELSE NoEntry
  <2>1. \A i \in Slots : At(tb, k, i) \in Entries
    BY DEF TablesT, At
  <2>2. NoEntry \in Entries
    BY DEF NoEntry, Entries
  <2>3. /\ pml4 \in [Slots -> Entries]
        /\ \A i \in Slots : pml4[i] = IF i \in KernelSlots THEN At(tb, k, i) ELSE NoEntry
    BY <2>1, <2>2
  <2>4. tb2 \in TablesT
    BY <1>1, <2>3 DEF TablesT
  <2>5. \A t \in Tables, i \in Slots : t # p => At(tb2, t, i) = At(tb, t, i)
    BY DEF TablesT, At
  <2>6. \A i \in Slots : At(tb2, p, i) = pml4[i]
    BY <1>1 DEF TablesT, At
  <2>7. QED
    BY <2>3, <2>4, <2>5, <2>6
<1>3. /\ level2 \in LevelsT /\ LevelOf(level2, p) = 1
      /\ \A t \in Tables : t # p => LevelOf(level2, t) = LevelOf(level, t)
  BY <1>1 DEF LevelsT, LevelOf, WithLevel
<1> HIDE DEF tb2, level2
<1>4. \A t \in Tables, i \in Slots :
         t # p => (Has(tb2, t, i) <=> Has(tb, t, i)) /\ Down(tb2, t, i) = Down(tb, t, i)
  BY <1>2, SameEntry
<1>5. \A i \in Slots :
         Has(tb2, p, i) => /\ i \in KernelSlots /\ At(tb2, p, i) = At(tb, k, i)
                           /\ Has(tb, k, i) /\ Down(tb2, p, i) = Down(tb, k, i)
  BY <1>2 DEF Has, Down, Present
\* The entry of tb that an entry of tb2 comes from.
<1> DEFINE src(t) == IF t = p THEN k ELSE t
<1>6. \A t \in Tables, i \in Slots :
         Inner(level2, t) /\ Has(tb2, t, i)
         => /\ src(t) \in Tables /\ Inner(level, src(t)) /\ Has(tb, src(t), i)
            /\ Down(tb2, t, i) = Down(tb, src(t), i)
            /\ LevelOf(level2, t) = LevelOf(level, src(t))
            /\ t = p => LevelOf(level2, t) = 1 /\ i \in KernelSlots
  <2> SUFFICES ASSUME NEW t \in Tables, NEW i \in Slots, Inner(level2, t), Has(tb2, t, i)
               PROVE  /\ src(t) \in Tables /\ Inner(level, src(t)) /\ Has(tb, src(t), i)
                      /\ Down(tb2, t, i) = Down(tb, src(t), i)
                      /\ LevelOf(level2, t) = LevelOf(level, src(t))
                      /\ t = p => LevelOf(level2, t) = 1 /\ i \in KernelSlots
    OBVIOUS
  <2>1. CASE t = p
    BY <1>3, <1>5, <2>1 DEF Inner
  <2>2. CASE t # p
    BY <1>3, <1>4, <2>2 DEF Inner
  <2>3. QED
    BY <2>1, <2>2
<1>7. Descends(tb2, level2)
  <2> SUFFICES ASSUME NEW t \in Tables, NEW i \in Slots, Inner(level2, t), Has(tb2, t, i)
               PROVE  /\ Down(tb2, t, i) \in Tables
                      /\ LevelOf(level2, Down(tb2, t, i)) = LevelOf(level2, t) + 1
    BY DEF Descends
  <2> DEFINE u == src(t)
  <2>1. /\ u \in Tables /\ Inner(level, u) /\ Has(tb, u, i)
        /\ Down(tb2, t, i) = Down(tb, u, i) /\ LevelOf(level2, t) = LevelOf(level, u)
    BY <1>6
  <2> HIDE DEF u
  <2>2. Down(tb, u, i) \in Tables /\ LevelOf(level, Down(tb, u, i)) = LevelOf(level, u) + 1
    BY <2>1 DEF Forest, Descends
  <2>3. LevelOf(level, u) \in {1, 2, 3}
    BY <2>1 DEF Inner
  <2>4. Down(tb, u, i) # p
    BY <1>1, <2>2, <2>3
  <2>5. QED
    BY <1>3, <2>1, <2>2, <2>4
<1>8. OneParent(tb2, level2)
  <2> SUFFICES ASSUME NEW t \in Tables, NEW u \in Tables, NEW i \in Slots, NEW j \in Slots,
                      Inner(level2, t), Inner(level2, u), Has(tb2, t, i), Has(tb2, u, j),
                      Down(tb2, t, i) = Down(tb2, u, j)
               PROVE  i = j /\ (t = u \/ (/\ LevelOf(level2, t) = 1 /\ LevelOf(level2, u) = 1
                                          /\ i \in KernelSlots))
    BY DEF OneParent
  <2> DEFINE v == src(t)  x == src(u)
  <2>1. /\ v \in Tables /\ Inner(level, v) /\ Has(tb, v, i)
        /\ x \in Tables /\ Inner(level, x) /\ Has(tb, x, j)
        /\ Down(tb, v, i) = Down(tb, x, j)
        /\ LevelOf(level2, t) = LevelOf(level, v) /\ LevelOf(level2, u) = LevelOf(level, x)
    BY <1>6
  <2>2. /\ t = p => LevelOf(level2, t) = 1 /\ i \in KernelSlots
        /\ u = p => LevelOf(level2, u) = 1 /\ j \in KernelSlots
    BY <1>6
  <2>3. v = x => t = u \/ t = p \/ u = p
    OBVIOUS
  <2> HIDE DEF v, x
  <2>4. i = j /\ (v = x \/ (/\ LevelOf(level, v) = 1 /\ LevelOf(level, x) = 1
                            /\ i \in KernelSlots))
    BY <2>1 DEF Forest, OneParent
  <2>5. QED
    BY <2>1, <2>2, <2>3, <2>4
<1>9. Unused(fr \ {p}, level2)
  BY <1>3, TablesApart DEF Forest, Unused
<1>10. Extends(tb, level, tb2, level2)
  <2>1. \A t \in Tables : LevelOf(level, t) # 0 => t # p
    BY <1>1
  <2>2. QED
    BY <1>2, <1>3, <1>4, <2>1 DEF Extends
<1>11. \A base \in Tables, w \in VAs :
          LevelOf(level, base) = 1 => Walk(tb2, base, w) = Walk(tb, base, w)
  BY <1>10, WalkUnchanged
<1>12. \A i \in KernelSlots : At(tb2, p, i) = At(tb, k, i)
  BY <1>1, <1>2
<1>13. QED
  BY <1>2, <1>3, <1>5, <1>7, <1>8, <1>9, <1>11, <1>12 DEF SpaceMade, Forest, tb2, level2

-----------------------------------------------------------------------------
(***************************************************************************)
(* The inductive invariant.                                                *)
(***************************************************************************)
\* The PML4s there are.
Bases == {BootRoot} \cup {root[s] : s \in Live}

TypeOK ==
    /\ entry \in TablesT
    /\ free \in SUBSET Pages
    /\ root \in [Live -> Pages]
    /\ kernel_vmm \in Bases \cup {Null}
    /\ cr3 \in Bases
    /\ tlb = [va \in VAs |-> tlb[va]]
    /\ nxTable \in BOOLEAN

\* No two spaces have the same PML4.
RootsApart == \A s, q \in Live : root[s] = root[q] => s = q

\* Every PML4 has the kernel entries of the bootloader's.
KernelCopied ==
    \A b \in Bases, i \in KernelSlots :
        Has(entry, BootRoot, i) => At(entry, b, i) = At(entry, BootRoot, i)

\* Some assignment of levels makes the tables below the PML4s a forest; tables
\* are reached through PAGE_NX only when a call with PAGE_NX made one.
LayeredBy(level) ==
    /\ Forest(entry, free, level)
    /\ \A b \in Bases : LevelOf(level, b) = 1
    /\ nxTable \/ ~OldBan(entry, level)
Layered == \E level \in LevelsT : LayeredBy(level)

IInv == TypeOK /\ RootsApart /\ KernelCopied /\ Layered /\ TlbCoherent

\* PML4s are tables; those of spaces are pages of the allocator.
LEMMA BasesAreTables ==
    ASSUME TypeOK
    PROVE  Bases \subseteq Tables /\ \A s \in Live : root[s] \in Bases /\ root[s] \in Pages
BY TablesApart DEF TypeOK, Bases

\* The boot state has the invariant, whatever unused pages hold.
LEMMA InitIInv == Init => IInv
<1> SUFFICES ASSUME Init PROVE IInv
  OBVIOUS
<1>1. PICK junk \in {NoEntry} \cup [frame : {BootPdpt}, perms : SUBSET Flags] :
         entry = [p \in Tables |->
                     CASE p = BootRoot ->
                            [EmptyTable EXCEPT ![KernelSlot] =
                                [frame |-> BootPdpt, perms |-> Flags \ {"NX"}]]
                       [] p = BootPdpt -> EmptyTable
                       [] OTHER        -> [i \in Slots |-> junk]]
  BY DEF Init
<1> DEFINE boot == [frame |-> BootPdpt, perms |-> Flags \ {"NX"}]
           level == [t \in Tables |-> IF t = BootRoot THEN 1 ELSE IF t = BootPdpt THEN 2 ELSE 0]
<1>2. BootPdpt \in Nat /\ NoEntry \in Entries /\ boot \in Entries /\ junk \in Entries
  BY TablesApart DEF Entries, NoEntry
<1>3. KernelSlot \in Slots
  BY VmmAssumption
<1>4. /\ entry \in TablesT
      /\ \A i \in Slots : At(entry, BootRoot, i) = IF i = KernelSlot THEN boot ELSE NoEntry
      /\ \A i \in Slots : At(entry, BootPdpt, i) = NoEntry
  <2>1. /\ EmptyTable \in [Slots -> Entries]
        /\ \A i \in Slots : EmptyTable[i] = NoEntry
        /\ [i \in Slots |-> junk] \in [Slots -> Entries]
    BY <1>2 DEF EmptyTable
  <2> DEFINE top == [EmptyTable EXCEPT ![KernelSlot] = boot]
  <2>2. /\ top \in [Slots -> Entries]
        /\ \A i \in Slots : top[i] = IF i = KernelSlot THEN boot ELSE NoEntry
    BY <1>2, <1>3, <2>1
  <2>3. /\ entry = [p \in Tables |-> IF p = BootRoot THEN top
                                     ELSE IF p = BootPdpt THEN EmptyTable
                                     ELSE [i \in Slots |-> junk]]
    BY <1>1, TablesApart
  <2> HIDE DEF top
  <2>4. entry \in TablesT
    BY <2>1, <2>2, <2>3 DEF TablesT
  <2>5. entry[BootRoot] = top /\ entry[BootPdpt] = EmptyTable
    BY <2>3, TablesApart
  <2>6. QED
    BY <2>1, <2>2, <2>4, <2>5, Zenon DEF At
<1>5. /\ level \in LevelsT
      /\ \A t \in Tables : LevelOf(level, t) = IF t = BootRoot THEN 1
                                               ELSE IF t = BootPdpt THEN 2 ELSE 0
  BY DEF LevelsT, LevelOf
<1> HIDE DEF level
<1>6. Live = {} /\ Bases = {BootRoot}
  BY DEF Init, Live, Bases
<1>7. TypeOK
  <2>1. root \in [Live -> Pages]
    BY DEF Init, Live
  <2>2. QED
    BY <1>4, <1>6, <2>1 DEF Init, TypeOK, NoCache
<1>8. \A i \in Slots : /\ ~Has(entry, BootPdpt, i)
                       /\ Has(entry, BootRoot, i) => /\ i = KernelSlot
                                                     /\ Down(entry, BootRoot, i) = BootPdpt
                                                     /\ "NX" \notin At(entry, BootRoot, i).perms
  BY <1>4 DEF Has, Down, Present
<1>9. \A t \in Tables, i \in Slots :
         Inner(level, t) /\ Has(entry, t, i) => t = BootRoot
  BY <1>5, <1>8 DEF Inner
<1>10. Forest(entry, free, level)
  <2>1. Unused(free, level)
    BY <1>5, TablesApart DEF Init, Unused
  <2>2. Descends(entry, level)
    BY <1>5, <1>8, <1>9, TablesApart DEF Descends
  <2>3. OneParent(entry, level)
    BY <1>8, <1>9 DEF OneParent
  <2>4. QED
    BY <2>1, <2>2, <2>3 DEF Forest
<1>11. ~OldBan(entry, level)
  BY <1>8, <1>9 DEF OldBan
<1>12. LayeredBy(level)
  BY <1>5, <1>6, <1>10, <1>11, TablesApart DEF LayeredBy
<1>13. RootsApart /\ KernelCopied
  BY <1>6 DEF RootsApart, KernelCopied
<1>14. TlbCoherent
  BY DEF Init, TlbCoherent, NoCache, Present
<1>15. QED
  BY <1>5, <1>7, <1>12, <1>13, <1>14 DEF IInv, Layered

(***************************************************************************)
(* vmm_map keeps the invariant.                                            *)
(***************************************************************************)
LEMMA MapIInv ==
    ASSUME IInv, NEW s \in Live, NEW va \in VAs, NEW target \in Targets,
           NEW flags \in SUBSET Flags, VmmMap(s, va, target, flags)
    PROVE  IInv'
<1> DEFINE b == root[s]
<1>1. Bases \subseteq Tables /\ b \in Bases /\ b \in Pages /\ b \in Tables /\ BootRoot \in Bases
      /\ BootRoot # b
  BY BasesAreTables, TablesApart DEF IInv, Bases
<1>2. PICK level \in LevelsT : LayeredBy(level)
  BY DEF IInv, Layered
<1>3. Forest(entry, free, level) /\ \A c \in Bases : LevelOf(level, c) = 1
  BY <1>2 DEF LayeredBy
<1>4. entry \in TablesT /\ free \in SUBSET Pages
  BY DEF IInv, TypeOK
<1>5. PICK level2 \in LevelsT, n \in Tables \cup {Null, Wild} :
         /\ entry' \in TablesT /\ free' \in SUBSET Pages
         /\ Mapped(b, va, target, flags, entry, free, level, entry', free', level2, n)
         /\ tlb' = IF n \in Tables THEN Flushed(tlb, va) ELSE tlb
         /\ nxTable' = (nxTable \/ ("NX" \in flags /\ free' # free))
  BY <1>1, <1>3, <1>4, MapStep
<1>6. UNCHANGED <<root, kernel_vmm, cr3>>
  BY DEF VmmMap
<1>7. Live' = Live /\ Bases' = Bases
  BY <1>6 DEF Live, Bases
<1>8. tlb' = [w \in VAs |-> IF n \in Tables /\ w = va THEN NoEntry ELSE tlb[w]]
  BY <1>5 DEF IInv, TypeOK, Flushed
<1>9. TypeOK'
  <2>1. nxTable' \in BOOLEAN
    BY <1>5 DEF IInv, TypeOK
  <2>2. tlb' = [w \in VAs |-> tlb'[w]]
    BY <1>8
  <2>3. QED
    BY <1>5, <1>6, <1>7, <2>1, <2>2 DEF IInv, TypeOK
<1>10. RootsApart'
  BY <1>6, <1>7 DEF IInv, RootsApart
<1>11. KernelCopied'
  <2> SUFFICES ASSUME NEW c \in Bases, NEW i \in KernelSlots, Has(entry', BootRoot, i)
               PROVE  At(entry', c, i) = At(entry', BootRoot, i)
    BY <1>7 DEF KernelCopied
  <2>1. i \in Slots
    BY DEF KernelSlots
  <2>2. At(entry', BootRoot, i) = At(entry, BootRoot, i)
    BY <1>1, <1>3, <1>5, <2>1 DEF Mapped
  <2>3. Has(entry, BootRoot, i)
    BY <2>2, SameEntry
  <2>4. At(entry, c, i) = At(entry, BootRoot, i)
    BY <2>3 DEF IInv, KernelCopied
  <2>5. Has(entry, c, i)
    BY <2>3, <2>4 DEF Has
  <2>6. At(entry', c, i) = At(entry, c, i)
    BY <1>1, <1>3, <1>5, <2>1, <2>5 DEF Mapped, Inner
  <2>7. QED
    BY <2>2, <2>4, <2>6
<1>12. Layered'
  <2>1. Forest(entry', free', level2)
    BY <1>5 DEF Mapped
  <2>2. \A c \in Bases : LevelOf(level2, c) = 1
    BY <1>1, <1>3, <1>5 DEF Mapped
  <2>3. nxTable' \/ ~OldBan(entry', level2)
    <3> SUFFICES ASSUME ~nxTable', NEW t \in Tables, NEW i \in Slots, Inner(level2, t),
                        Has(entry', t, i), "NX" \in At(entry', t, i).perms
                 PROVE  FALSE
      BY DEF OldBan
    <3>1. ~nxTable /\ ~("NX" \in flags /\ free' # free)
      BY <1>5
    <3>2. Inner(level, t) /\ At(entry', t, i) = At(entry, t, i)
      BY <1>5, <3>1 DEF Mapped
    <3>3. Has(entry, t, i)
      BY <3>2, SameEntry
    <3>4. OldBan(entry, level)
      BY <3>2, <3>3 DEF OldBan
    <3>5. QED
      BY <1>2, <3>1, <3>4 DEF LayeredBy
  <2>4. LayeredBy(level2)'
    BY <1>7, <2>1, <2>2, <2>3 DEF LayeredBy
  <2>5. QED
    BY <2>4 DEF Layered
<1>13. TlbCoherent'
  <2> SUFFICES ASSUME NEW w \in VAs, Present(tlb'[w])
               PROVE  tlb'[w] = Walk(entry', cr3, w)
    BY <1>6 DEF TlbCoherent
  <2>1. tlb'[w] = tlb[w] /\ ~(n \in Tables /\ w = va)
    BY <1>8 DEF Present
  <2>2. tlb[w] = Walk(entry, cr3, w)
    BY <2>1 DEF IInv, TlbCoherent
  <2>3. cr3 \in Tables /\ LevelOf(level, cr3) = 1
    BY <1>1, <1>3 DEF IInv, TypeOK
  <2>4. Walk(entry', cr3, w) = Walk(entry, cr3, w)
    BY <1>5, <2>1, <2>3 DEF Mapped
  <2>5. QED
    BY <2>1, <2>2, <2>4
<1>14. QED
  BY <1>9, <1>10, <1>11, <1>12, <1>13 DEF IInv

(***************************************************************************)
(* vmm_create keeps the invariant.                                         *)
(***************************************************************************)
LEMMA CreateIInv ==
    ASSUME IInv, NEW s \in Spaces, VmmCreate(s)
    PROVE  IInv'
<1> DEFINE p == Lowest(free)
<1>1. p \in free /\ free \in SUBSET Pages /\ entry \in TablesT
  BY LowestFree DEF VmmCreate, IInv, TypeOK
<1>2. PICK level \in LevelsT : LayeredBy(level)
  BY DEF IInv, Layered
<1>3. Forest(entry, free, level) /\ \A c \in Bases : LevelOf(level, c) = 1
  BY <1>2 DEF LayeredBy
<1>4. p \in Tables /\ p \in Pages /\ LevelOf(level, p) = 0
  BY <1>1, <1>3, TablesApart DEF Forest, Unused
<1>5. Bases \subseteq Tables /\ p \notin Bases
  BY <1>3, <1>4, BasesAreTables DEF IInv
<1>6. /\ free' = free \ {p}
      /\ UNCHANGED <<kernel_vmm, cr3, tlb, nxTable>>
  BY DEF VmmCreate
<1>7. CASE kernel_vmm = Null
  <2>1. UNCHANGED <<entry, root>>
    BY <1>7 DEF VmmCreate
  <2>2. Live' = Live /\ Bases' = Bases
    BY <2>1 DEF Live, Bases
  <2>3. TypeOK'
    BY <1>1, <1>6, <2>1, <2>2 DEF IInv, TypeOK
  <2>4. RootsApart' /\ KernelCopied' /\ TlbCoherent'
    BY <1>6, <2>1, <2>2 DEF IInv, RootsApart, KernelCopied, TlbCoherent
  <2>5. Forest(entry, free', level)
    BY <1>3, <1>6 DEF Forest, Unused
  <2>6. LayeredBy(level)'
    BY <1>2, <1>6, <2>1, <2>2, <2>5 DEF LayeredBy
  <2>7. QED
    BY <2>3, <2>4, <2>6 DEF IInv, Layered
<1>8. CASE kernel_vmm # Null
  <2> DEFINE k == kernel_vmm
             pml4 == [i \in Slots |-> IF i \in KernelSlots THEN At(entry, k, i) ELSE NoEntry]
  <2>1. k \in Bases /\ k \in Tables /\ LevelOf(level, k) = 1
    BY <1>3, <1>5, <1>8 DEF IInv, TypeOK
  <2>2. /\ entry' = [entry EXCEPT ![p] = pml4]
        /\ root' = [t \in Live \cup {s} |-> IF t = s THEN p ELSE root[t]]
    BY <1>8 DEF VmmCreate, NewPml4, At
  <2>3. s \notin Live /\ BootRoot \in Bases
    BY DEF VmmCreate, Bases
  <2> HIDE DEF p
  <2>4. PICK level2 \in LevelsT : SpaceMade(entry, free, level, k, p, entry', level2)
    <3>1. SpaceMade(entry, free, level, k, p, entry', WithLevel(level, p, 1))
      BY <1>1, <1>3, <2>1, <2>2, NewSpace
    <3>2. QED
      BY <3>1 DEF SpaceMade
  <2> HIDE DEF pml4
  <2>5. /\ Live' = Live \cup {s}
        /\ root'[s] = p /\ \A q \in Live : root'[q] = root[q]
    BY <2>2, <2>3 DEF Live
  <2>6. Bases' = Bases \cup {p}
    BY <2>5 DEF Bases
  <2>7. \A c \in Bases' : LevelOf(level2, c) = 1
    BY <1>3, <1>5, <2>4, <2>6 DEF SpaceMade
  <2>8. TypeOK'
    <3>1. entry' \in TablesT /\ free' \in SUBSET Pages
      BY <1>1, <1>6, <2>4 DEF SpaceMade
    <3>2. root' \in [Live' -> Pages]
      BY <1>4, <2>2, <2>5 DEF IInv, TypeOK
    <3>3. QED
      BY <1>6, <2>6, <3>1, <3>2 DEF IInv, TypeOK
  <2>9. RootsApart'
    <3>1. \A q \in Live : root[q] # p
      BY <1>5 DEF Bases
    <3>2. QED
      BY <2>5, <3>1 DEF IInv, RootsApart
  <2>10. KernelCopied'
    <3> SUFFICES ASSUME NEW c \in Bases \cup {p}, NEW i \in KernelSlots, Has(entry', BootRoot, i)
                 PROVE  At(entry', c, i) = At(entry', BootRoot, i)
      BY <2>6 DEF KernelCopied
    <3>1. i \in Slots
      BY DEF KernelSlots
    <3>2. \A d \in Bases : At(entry', d, i) = At(entry, d, i)
      BY <1>5, <2>4, <3>1 DEF SpaceMade
    <3>3. Has(entry, BootRoot, i)
      BY <2>3, <3>2, SameEntry
    <3>4. \A d \in Bases : At(entry', d, i) = At(entry', BootRoot, i)
      BY <2>3, <3>2, <3>3 DEF IInv, KernelCopied
    <3>5. At(entry', p, i) = At(entry', BootRoot, i)
      BY <2>1, <2>4, <3>2, <3>4 DEF SpaceMade
    <3>6. QED
      BY <3>4, <3>5
  <2>11. Layered'
    <3>1. Forest(entry', free', level2)
      BY <1>6, <2>4 DEF SpaceMade
    <3>2. nxTable' \/ ~OldBan(entry', level2)
      <4> SUFFICES ASSUME ~nxTable, NEW t \in Tables, NEW i \in Slots, Inner(level2, t),
                          Has(entry', t, i), "NX" \in At(entry', t, i).perms
                   PROVE  FALSE
        BY <1>6 DEF OldBan
      <4>1. CASE t = p
        <5>1. At(entry', t, i) = At(entry, k, i)
          BY <2>4, <4>1 DEF SpaceMade
        <5>2. Has(entry, k, i) /\ Inner(level, k)
          BY <2>1, <5>1 DEF Has, Inner
        <5>3. QED
          BY <1>2, <2>1, <5>1, <5>2 DEF LayeredBy, OldBan
      <4>2. CASE t # p
        <5>1. At(entry', t, i) = At(entry, t, i) /\ LevelOf(level2, t) = LevelOf(level, t)
          BY <2>4, <4>2 DEF SpaceMade
        <5>2. Has(entry, t, i) /\ Inner(level, t)
          BY <5>1 DEF Has, Inner
        <5>3. QED
          BY <1>2, <5>1, <5>2 DEF LayeredBy, OldBan
      <4>3. QED
        BY <4>1, <4>2
    <3>3. LayeredBy(level2)'
      BY <2>7, <3>1, <3>2 DEF LayeredBy
    <3>4. QED
      BY <3>3 DEF Layered
  <2>12. TlbCoherent'
    <3>1. cr3 \in Tables /\ LevelOf(level, cr3) = 1
      BY <1>3, <1>5 DEF IInv, TypeOK
    <3>2. \A w \in VAs : Walk(entry', cr3, w) = Walk(entry, cr3, w)
      BY <2>4, <3>1 DEF SpaceMade
    <3>3. QED
      BY <1>6, <3>2 DEF IInv, TlbCoherent
  <2>13. QED
    BY <2>8, <2>9, <2>10, <2>11, <2>12 DEF IInv
<1>9. QED
  BY <1>7, <1>8

\* Every step keeps the invariant.
LEMMA NextIInv == IInv /\ [Next]_vars => IInv'
<1> SUFFICES ASSUME IInv, [Next]_vars PROVE IInv'
  OBVIOUS
<1> USE DEF IInv
\* Steps that leave the tables alone.
<1>1. ASSUME UNCHANGED <<free, entry, root, kernel_vmm, cr3, tlb, nxTable>>
      PROVE  IInv'
  BY <1>1 DEF TypeOK, RootsApart, KernelCopied, Layered, LayeredBy, TlbCoherent, Live, Bases
<1>2. ASSUME UNCHANGED <<free, entry, root, nxTable>>, TypeOK', TlbCoherent'
      PROVE  IInv'
  BY <1>2 DEF RootsApart, KernelCopied, Layered, LayeredBy, Live, Bases
<1>3. UNCHANGED root => Live' = Live /\ Bases' = Bases
  BY DEF Live, Bases
<1>4. CASE VmmInit
  <2>1. TypeOK' /\ TlbCoherent'
    BY <1>3, <1>4 DEF VmmInit, TypeOK, TlbCoherent
  <2>2. QED
    BY <1>2, <1>4, <2>1 DEF VmmInit
<1>5. CASE VmmCreateFails \/ VmmMapInval
  BY <1>1, <1>5 DEF VmmCreateFails, VmmMapInval
<1>6. CASE \E s \in Spaces : VmmCreate(s)
  BY <1>6, CreateIInv
<1>7. CASE \E s \in Live, va \in VAs, target \in Targets, flags \in SUBSET Flags :
              VmmMap(s, va, target, flags)
  BY <1>7, MapIInv
<1>8. CASE \E s \in Live : VmmSwitch(s)
  <2>1. PICK s \in Live : VmmSwitch(s)
    BY <1>8
  <2>2. root[s] \in Bases
    BY DEF Bases
  <2>3. TypeOK'
    BY <1>3, <2>1, <2>2 DEF VmmSwitch, TypeOK, NoCache
  <2>4. TlbCoherent'
    BY <2>1 DEF VmmSwitch, TlbCoherent, NoCache, Present
  <2>5. QED
    BY <1>2, <2>1, <2>3, <2>4 DEF VmmSwitch
<1>9. CASE \E va \in VAs : Access(va)
  <2>1. PICK va \in VAs : Access(va)
    BY <1>9
  <2>2. tlb' = [w \in VAs |-> IF w = va THEN Walk(entry, cr3, va) ELSE tlb[w]]
    BY <2>1 DEF Access, TypeOK
  <2>3. TypeOK'
    BY <1>3, <2>1, <2>2 DEF Access, TypeOK
  <2>4. TlbCoherent'
    BY <2>1, <2>2 DEF Access, TlbCoherent
  <2>5. QED
    BY <1>2, <2>1, <2>3, <2>4 DEF Access
<1>10. CASE UNCHANGED vars
  BY <1>1, <1>10 DEF vars
<1>11. QED
  BY <1>4, <1>5, <1>6, <1>7, <1>8, <1>9, <1>10 DEF Next

\* The invariant holds throughout.
LEMMA Invariance == Spec => []IInv
BY InitIInv, NextIInv, PTL DEF Spec

-----------------------------------------------------------------------------
(***************************************************************************)
(* A cached translation is always the one a walk of the current tables     *)
(* gives: the invlpg of line 81 and the write to cr3 are enough, shared    *)
(* kernel tables included.                                                 *)
(***************************************************************************)
THEOREM TlbIsCoherent == Spec => []TlbCoherent
BY Invariance, PTL DEF IInv

\* What KernelShared follows from.
LEMMA SharedByCopy == IInv => KernelShared
<1> SUFFICES ASSUME IInv, NEW s \in Live, NEW va \in VAs, va[1] \in KernelSlots,
                    Has(entry, BootRoot, va[1])
             PROVE  Walk(entry, root[s], va) = Walk(entry, BootRoot, va)
  BY DEF KernelShared, Translate, Has, At
<1>1. At(entry, root[s], va[1]) = At(entry, BootRoot, va[1])
  BY BasesAreTables DEF IInv, KernelCopied
<1>2. (Has(entry, root[s], va[1]) <=> Has(entry, BootRoot, va[1]))
      /\ Table2(entry, root[s], va) = Table2(entry, BootRoot, va)
  BY <1>1 DEF Has, Down, Table2
<1>3. Table3(entry, root[s], va) = Table3(entry, BootRoot, va)
      /\ Table4(entry, root[s], va) = Table4(entry, BootRoot, va)
  BY <1>2, Zenon DEF Table3, Table4
<1>4. Leads(entry, root[s], va) <=> Leads(entry, BootRoot, va)
  BY <1>2, <1>3, Zenon DEF Leads
<1>5. QED
  BY <1>1, <1>2, <1>3, <1>4, WalkIs

(***************************************************************************)
(* Every space sees the kernel's tables as the bootloader left and as any  *)
(* space has extended them: lines 50-51 copy pointers, not contents, and   *)
(* no later call replaces such a pointer in one space only.                *)
(***************************************************************************)
THEOREM KernelIsShared == Spec => []KernelShared
BY Invariance, SharedByCopy, PTL

(***************************************************************************)
(* vmm_map maps what it was asked to map and disturbs no other             *)
(* translation, with any number of spaces and whatever the pages held.     *)
(***************************************************************************)
THEOREM MapsLocally == Spec => MapIsLocal
<1>1. IInv /\ [Next]_vars =>
        [ entry' # entry =>
          \A s \in Live, va \in VAs, target \in Targets, flags \in SUBSET Flags :
            VmmMap(s, va, target, flags) =>
              /\ result' = "JAR_OK" => Translate(s, va)'.frame = target
              /\ \A q \in Live, w \in VAs :
                    \/ w = va /\ (q = s \/ va[1] \in KernelSlots)
                    \/ Translate(q, w)' = Translate(q, w) ]_vars
  <2> SUFFICES ASSUME IInv, NEW s \in Live, NEW va \in VAs, NEW target \in Targets,
                      NEW flags \in SUBSET Flags, VmmMap(s, va, target, flags)
               PROVE  /\ result' = "JAR_OK" => Translate(s, va)'.frame = target
                      /\ \A q \in Live, w \in VAs :
                            \/ w = va /\ (q = s \/ va[1] \in KernelSlots)
                            \/ Translate(q, w)' = Translate(q, w)
    OBVIOUS
  <2>1. PICK level \in LevelsT : LayeredBy(level)
    BY DEF IInv, Layered
  <2>2. /\ Forest(entry, free, level) /\ \A c \in Bases : LevelOf(level, c) = 1
        /\ Bases \subseteq Tables /\ \A q \in Live : root[q] \in Bases
        /\ entry \in TablesT /\ free \in SUBSET Pages
    BY <2>1, BasesAreTables DEF IInv, LayeredBy, TypeOK
  <2>3. root' = root
    BY DEF VmmMap
  <2>4. PICK level2 \in LevelsT, n \in Tables \cup {Null, Wild} :
           /\ Mapped(root[s], va, target, flags, entry, free, level, entry', free', level2, n)
           /\ result' = "JAR_OK" => n \in Tables
    BY <2>2, MapStep
  <2>5. result' = "JAR_OK" => Walk(entry', root[s], va).frame = target
    BY <2>4 DEF Mapped
  <2>6. ASSUME NEW q \in Live, NEW w \in VAs
        PROVE  \/ w = va /\ (q = s \/ va[1] \in KernelSlots)
               \/ Walk(entry', root[q], w) = Walk(entry, root[q], w)
    <3>1. root[q] \in Tables /\ LevelOf(level, root[q]) = 1
      BY <2>2
    <3>2. \/ Walk(entry', root[q], w) = Walk(entry, root[q], w)
          \/ w = va /\ (root[q] = root[s] \/ va[1] \in KernelSlots)
      BY <2>4, <3>1 DEF Mapped
    <3>3. root[q] = root[s] => q = s
      BY DEF IInv, RootsApart
    <3>4. QED
      BY <3>2, <3>3
  <2>7. QED
    BY <2>3, <2>5, <2>6 DEF Translate
<1>2. QED
  BY <1>1, Invariance, PTL DEF Spec, MapIsLocal

(***************************************************************************)
(* A pointer that is no table is followed only before vmm_init, without a  *)
(* page left, or below a table that a call with PAGE_NX made.              *)
(***************************************************************************)
THEOREM CrashesAreExplained == Spec => CrashesExplained
<1>1. IInv /\ [Next]_vars
      => [ crashed' => kernel_vmm = Null \/ free' = {} \/ nxTable ]_vars
  <2> SUFFICES ASSUME IInv, Next, crashed', kernel_vmm # Null
               PROVE  free' = {} \/ nxTable
    OBVIOUS
  <2>1. PICK s \in Live, va \in VAs, target \in Targets, flags \in SUBSET Flags :
            VmmMap(s, va, target, flags)
    BY DEF Next, VmmInit, VmmCreateFails, VmmCreate, VmmMapInval, VmmSwitch, Access
  <2>2. PICK level \in LevelsT : LayeredBy(level)
    BY DEF IInv, Layered
  <2>3. /\ Forest(entry, free, level) /\ LevelOf(level, root[s]) = 1 /\ root[s] \in Tables
        /\ entry \in TablesT /\ free \in SUBSET Pages
    BY <2>2, BasesAreTables DEF IInv, LayeredBy, TypeOK
  <2>4. PICK level2 \in LevelsT, n \in Tables \cup {Null, Wild} :
           /\ Mapped(root[s], va, target, flags, entry, free, level, entry', free', level2, n)
           /\ crashed' => n \notin Tables
    BY <2>1, <2>3, MapStep
  <2>5. free' = {} \/ OldBan(entry, level)
    BY <2>4 DEF Mapped
  <2>6. QED
    BY <2>2, <2>5 DEF LayeredBy
<1>2. QED
  BY <1>1, Invariance, PTL DEF Spec, CrashesExplained
=============================================================================
