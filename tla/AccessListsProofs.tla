-------------------------- MODULE AccessListsProofs --------------------------
(***************************************************************************)
(* Proof that the linked lists of AccessTimeMap and AccessCountMap         *)
(* implement the tables of module Enforcement, for every set of keys,      *)
(* capacity of the maps and clock: whatever the order of its nodes, and    *)
(* wherever a walk stops, a list is the table of its entries.              *)
(*                                                                         *)
(* The inductive invariant says that a list has at most one node for a     *)
(* key, so that the first node of a key is the only one.                   *)
(***************************************************************************)
EXTENDS AccessLists, FiniteSetTheorems, WellFoundedInduction, TLAPS

TimeEntries == [keyid : Keys, access_time : Int, timeout : Int]
CountEntries == [keyid : Keys, access_count : Int]

\* A list of such entries with at most one node for a key.
Listed(list, Entries) ==
    /\ list \in [DOMAIN list -> Entries]
    /\ \E n \in Nat : DOMAIN list \subseteq 0 .. n
    /\ \A m, n \in DOMAIN list : list[m].keyid = list[n].keyid => m = n

ListInv ==
    /\ now \in Nat
    /\ Listed(last_access_list, TimeEntries)
    /\ Listed(access_count_list, CountEntries)

(***************************************************************************)
(* Lists.                                                                  *)
(***************************************************************************)

\* The walk that looks for a key finds its only node.
LEMMA OnlyNode ==
    ASSUME NEW list, NEW Entries, Listed(list, Entries), NEW n \in DOMAIN list
    PROVE  /\ Position(list, list[n].keyid) = n
           /\ Entry(list, list[n].keyid) = list[n]
<1> DEFINE First(i) == /\ list[i].keyid = list[n].keyid
                       /\ \A m \in DOMAIN list : m > i => list[m].keyid # list[n].keyid
<1>1. DOMAIN list \subseteq Nat
  BY DEF Listed
<1>2. First(n)
  BY <1>1 DEF Listed
<1>3. \A i \in DOMAIN list : First(i) => i = n
  BY DEF Listed
<1>4. Position(list, list[n].keyid) = n
  BY <1>2, <1>3 DEF Position
<1> QED
  BY <1>4 DEF Entry

\* A bounded set of places has a highest one.
LEMMA HighestPlace ==
    ASSUME NEW N \in Nat, NEW S \in SUBSET (0 .. N), S # {}
    PROVE  Max(S) \in S /\ \A n \in S : Max(S) >= n
<1> DEFINE Bounds == {b \in Nat : \A n \in S : n <= b}
<1>1. N \in Bounds
  OBVIOUS
<1>2. PICK b \in Bounds : \A c \in Bounds : ~(<<c, b>> \in OpToRel(<, Nat))
  <2>1. Bounds \subseteq Nat
    OBVIOUS
  <2> HIDE DEF Bounds
  <2> QED
    BY <1>1, <2>1, NatLessThanWellFounded, WFMin, Zenon
<1>3. b \in S
  <2> SUFFICES ASSUME b \notin S PROVE FALSE
    OBVIOUS
  <2>0. PICK n \in S : TRUE
    BY Zenon
  <2>1. b - 1 \in Bounds
    <3>1. b \in Nat /\ \A i \in S : i \in Nat /\ i <= b /\ i # b
      OBVIOUS
    <3>2. b - 1 \in Nat /\ \A i \in S : i <= b - 1
      BY <2>0, <3>1
    <3> QED
      BY <3>2
  <2>2. <<b - 1, b>> \in OpToRel(<, Nat)
    BY <2>1 DEF OpToRel
  <2> QED
    BY <1>2, <2>1, <2>2, Zenon
<1>4. \A n \in S : b >= n
  OBVIOUS
<1> QED
  BY <1>3, <1>4, Zenon DEF Max

\* push_front takes a place of its own.
LEMMA FreshPlace ==
    ASSUME NEW list, NEW Entries, Listed(list, Entries)
    PROVE  /\ NewPlace(list) \in Nat /\ NewPlace(list) \notin DOMAIN list
           /\ \E n \in Nat : DOMAIN list \cup {NewPlace(list)} \subseteq 0 .. n
<1>1. PICK N \in Nat : DOMAIN list \subseteq 0 .. N
  BY DEF Listed
<1> DEFINE S == DOMAIN list \cup {0}
           m == Max(S)
<1>2. S \in SUBSET (0 .. N) /\ S # {}
  BY <1>1
<1>3. m \in S /\ \A n \in S : m >= n
  <2> HIDE DEF S
  <2> QED
    BY <1>2, HighestPlace, Zenon
<1>4. NewPlace(list) = m + 1
  BY DEF NewPlace
<1> HIDE DEF m
<1>5. m \in Nat
  BY <1>2, <1>3
<1>6. m + 1 \notin DOMAIN list
  BY <1>3, <1>5
<1>7. DOMAIN list \cup {m + 1} \subseteq 0 .. (m + 1)
  BY <1>1, <1>3, <1>5
<1> QED
  BY <1>4, <1>5, <1>6, <1>7

\* push_front of an entry for a new key adds that entry to the table.
LEMMA PushedFront ==
    ASSUME NEW list, NEW Entries, Listed(list, Entries),
           NEW entry \in Entries, entry.keyid \notin Ids(list)
    PROVE  LET new == push_front(list, entry)
           IN  /\ Listed(new, Entries)
               /\ Ids(new) = Ids(list) \cup {entry.keyid}
               /\ Entry(new, entry.keyid) = entry
               /\ \A k \in Ids(list) : Entry(new, k) = Entry(list, k)
<1> DEFINE new == push_front(list, entry)
           p == NewPlace(list)
<1>1. p \in Nat /\ p \notin DOMAIN list /\ \E n \in Nat : DOMAIN list \cup {p} \subseteq 0 .. n
  BY FreshPlace
<1>2. /\ DOMAIN new = DOMAIN list \cup {p}
      /\ new[p] = entry
      /\ \A n \in DOMAIN list : new[n] = list[n]
  BY <1>1 DEF push_front
<1>3. \A n \in DOMAIN list : list[n] \in Entries
  BY DEF Listed
<1>4. new \in [DOMAIN new -> Entries]
  BY <1>3 DEF push_front
<1> HIDE DEF new, p
<1>5. \A n \in DOMAIN list : list[n].keyid # entry.keyid
  BY DEF Ids
<1>6. \A m, n \in DOMAIN new : new[m].keyid = new[n].keyid => m = n
  BY <1>2, <1>5 DEF Listed
<1>7. Listed(new, Entries)
  BY <1>1, <1>2, <1>4, <1>6 DEF Listed
<1>8. Ids(new) = Ids(list) \cup {entry.keyid}
  BY <1>2 DEF Ids
<1>9. Entry(new, entry.keyid) = entry
  BY <1>2, <1>7, OnlyNode
<1>10. ASSUME NEW k \in Ids(list) PROVE Entry(new, k) = Entry(list, k)
  <2>1. PICK n \in DOMAIN list : list[n].keyid = k
    BY DEF Ids
  <2>2. Entry(list, k) = list[n]
    BY <2>1, OnlyNode
  <2>3. n \in DOMAIN new /\ new[n] = list[n]
    BY <1>2
  <2>4. Entry(new, new[n].keyid) = new[n]
    BY <1>7, <2>3, OnlyNode
  <2> QED
    BY <2>1, <2>2, <2>3, <2>4
<1> QED
  BY <1>7, <1>8, <1>9, <1>10 DEF new

\* What erasing nodes leaves keeps its entries.
LEMMA Erased ==
    ASSUME NEW list, NEW Entries, Listed(list, Entries), NEW S \in SUBSET DOMAIN list
    PROVE  LET new == Restrict(list, S)
           IN  /\ Listed(new, Entries)
               /\ DOMAIN new = S
               /\ Ids(new) = {list[n].keyid : n \in S}
               /\ \A k \in Ids(new) : Entry(new, k) = Entry(list, k)
<1> DEFINE new == Restrict(list, S)
<1>1. DOMAIN new = S /\ \A n \in S : new[n] = list[n]
  BY DEF Restrict
<1>2. \A n \in DOMAIN list : list[n] \in Entries
  BY DEF Listed
<1>3. new \in [DOMAIN new -> Entries]
  BY <1>2 DEF Restrict
<1> HIDE DEF new
<1>4. Listed(new, Entries)
  BY <1>1, <1>3 DEF Listed
<1>5. Ids(new) = {list[n].keyid : n \in S}
  BY <1>1 DEF Ids
<1>6. ASSUME NEW k \in Ids(new) PROVE Entry(new, k) = Entry(list, k)
  <2>1. PICK n \in S : list[n].keyid = k
    BY <1>5
  <2>2. Entry(list, k) = list[n]
    BY <2>1, OnlyNode
  <2>3. n \in DOMAIN new /\ new[n] = list[n]
    BY <1>1
  <2>4. Entry(new, new[n].keyid) = new[n]
    BY <1>4, <2>3, OnlyNode
  <2> QED
    BY <2>1, <2>2, <2>3, <2>4
<1> QED
  BY <1>1, <1>4, <1>5, <1>6 DEF new

\* A changed entry of the same key is all that changes.
LEMMA Changed ==
    ASSUME NEW list, NEW Entries, Listed(list, Entries), NEW at \in DOMAIN list,
           NEW entry \in Entries, entry.keyid = list[at].keyid,
           NEW new \in [DOMAIN list -> Entries], new[at] = entry,
           \A n \in DOMAIN list : n # at => new[n] = list[n]
    PROVE  /\ Listed(new, Entries)
           /\ Ids(new) = Ids(list)
           /\ Entry(new, entry.keyid) = entry
           /\ \A k \in Ids(list) \ {entry.keyid} : Entry(new, k) = Entry(list, k)
<1>1. /\ DOMAIN new = DOMAIN list /\ new[at] = entry
      /\ \A n \in DOMAIN list \ {at} : new[n] = list[n]
  OBVIOUS
<1>2. new \in [DOMAIN new -> Entries]
  OBVIOUS
<1>3. \A n \in DOMAIN list : new[n].keyid = list[n].keyid
  BY <1>1
<1>4. Listed(new, Entries)
  BY <1>1, <1>2, <1>3 DEF Listed
<1>5. Ids(new) = Ids(list)
  BY <1>1, <1>3 DEF Ids
<1>6. Entry(new, entry.keyid) = entry
  BY <1>1, <1>4, OnlyNode
<1>7. ASSUME NEW k \in Ids(list) \ {entry.keyid} PROVE Entry(new, k) = Entry(list, k)
  <2>1. PICK n \in DOMAIN list : list[n].keyid = k
    BY DEF Ids
  <2>2. n # at /\ Entry(list, k) = list[n]
    BY <2>1, OnlyNode
  <2>3. n \in DOMAIN new /\ new[n] = list[n]
    BY <1>1, <2>2
  <2>4. Entry(new, new[n].keyid) = new[n]
    BY <1>4, <2>3, OnlyNode
  <2> QED
    BY <2>1, <2>2, <2>3, <2>4
<1> QED
  BY <1>4, <1>5, <1>6, <1>7

\* A list is as long as its table is large.
LEMMA LengthIsSize ==
    ASSUME NEW list, NEW Entries, Listed(list, Entries)
    PROVE  Cardinality(DOMAIN list) = Cardinality(Ids(list))
<1> DEFINE id == [n \in DOMAIN list |-> list[n].keyid]
<1>1. IsFiniteSet(DOMAIN list)
  <2>1. PICK N \in Nat : DOMAIN list \subseteq 0 .. N
    BY DEF Listed
  <2>2. IsFiniteSet(0 .. N)
    BY FS_Interval
  <2> QED
    BY <2>1, <2>2, FS_Subset
<1>2. id \in Bijection(DOMAIN list, Ids(list))
  BY DEF Listed, Ids, Bijection, Injection, Surjection, IsInjective
<1>3. ExistsBijection(DOMAIN list, Ids(list))
  BY <1>2 DEF ExistsBijection
<1> QED
  BY <1>1, <1>3, FS_Bijection

(***************************************************************************)
(* The tables of the lists.                                                *)
(***************************************************************************)

\* The entries that Enforcement takes for expired are those of the expired nodes.
LEMMA ExpiredNodes ==
    ASSUME ListInv
    PROVE  Tables!Expired = {last_access_list[n].keyid :
                                n \in {m \in DOMAIN last_access_list : Expired(m)}}
<1> DEFINE L == last_access_list
<1>1. ASSUME NEW n \in DOMAIN L
      PROVE  /\ L[n].keyid \in Ids(L)
             /\ TimeTable(L)[L[n].keyid].access_time = L[n].access_time
             /\ TimeTable(L)[L[n].keyid].timeout = L[n].timeout
  <2>1. Entry(L, L[n].keyid) = L[n]
    BY OnlyNode DEF ListInv
  <2>2. L[n].keyid \in Ids(L)
    BY DEF Ids
  <2> QED
    BY <2>1, <2>2 DEF TimeTable
<1>2. \A k \in Ids(L) : \E n \in DOMAIN L : L[n].keyid = k
  BY DEF Ids
<1>3. DOMAIN TimeTable(L) = Ids(L)
  BY DEF TimeTable
<1>4. ASSUME NEW n \in DOMAIN L PROVE L[n].keyid \in Tables!Expired <=> Expired(n)
  <2> DEFINE e == TimeTable(L)[L[n].keyid]
             t == get_current_time
  <2>1. Tables!get_current_time = t
    BY DEF Tables!get_current_time, get_current_time
  <2>2. e.access_time = L[n].access_time /\ e.timeout = L[n].timeout
    BY <1>1
  <2>3. Expired(n) <=> t - e.access_time >= e.timeout
    BY <2>2 DEF Expired
  <2>4. L[n].keyid \in Tables!Expired <=> t - e.access_time >= e.timeout
    <3> HIDE DEF t
    <3> QED
      BY <1>1, <1>3, <2>1 DEF Tables!Expired
  <2> QED
    BY <2>3, <2>4
<1>5. Tables!Expired \subseteq Ids(L)
  BY <1>3 DEF Tables!Expired
<1> QED
  BY <1>2, <1>4, <1>5

\* The two modules read the same clock.
LEMMA SameClock == ASSUME ListInv PROVE Tables!get_current_time = get_current_time /\ get_current_time \in Int
BY DEF ListInv, Tables!get_current_time, get_current_time

\* Erasing expired nodes takes the entries of their keys out of the table.
LEMMA ErasedTable ==
    ASSUME ListInv, NEW S \in SUBSET DOMAIN last_access_list
    PROVE  LET gone == {last_access_list[n].keyid : n \in DOMAIN last_access_list \ S}
           IN  /\ Ids(Restrict(last_access_list, S)) = Ids(last_access_list) \ gone
               /\ TimeTable(Restrict(last_access_list, S)) = Tables!Without(gone)
<1> DEFINE L == last_access_list
           kept == Restrict(L, S)
           gone == {L[n].keyid : n \in DOMAIN L \ S}
<1>1. /\ Ids(kept) = {L[n].keyid : n \in S}
      /\ \A k \in Ids(kept) : Entry(kept, k) = Entry(L, k)
  <2>1. Listed(L, TimeEntries)
    BY DEF ListInv
  <2> QED
    BY <2>1, Erased
<1>2. \A m, n \in DOMAIN L : L[m].keyid = L[n].keyid => m = n
  BY DEF ListInv, Listed
<1> HIDE DEF kept
<1>3. Ids(kept) = Ids(L) \ gone
  <2>1. Ids(L) = {L[n].keyid : n \in DOMAIN L}
    BY DEF Ids
  <2> QED
    BY <1>1, <1>2, <2>1
<1> HIDE DEF gone
<1>4. /\ DOMAIN TimeTable(L) = Ids(L)
      /\ \A k \in Ids(L) : TimeTable(L)[k] = [access_time |-> Entry(L, k).access_time,
                                              timeout |-> Entry(L, k).timeout]
  BY DEF TimeTable
<1>5. TimeTable(kept) = [k \in Ids(L) \ gone |-> TimeTable(L)[k]]
  BY <1>1, <1>3, <1>4 DEF TimeTable
<1>6. TimeTable(kept) = Tables!Without(gone)
  BY <1>4, <1>5 DEF Tables!Without
<1> QED
  BY <1>3, <1>6 DEF kept, gone

\* A walk that meets the key erases some of the expired entries, and the entry of the key
\* says now.
LEMMA WalkMeets ==
    ASSUME ListInv, NEW k \in Ids(last_access_list)
    PROVE  /\ Listed(UpdateKeyAccessTime(k), TimeEntries)
           /\ k \in Ids(UpdateKeyAccessTime(k))
           /\ \E gone \in SUBSET (Tables!Expired \ {k}) :
                 TimeTable(UpdateKeyAccessTime(k)) = Tables!Touched(k, gone)
<1> DEFINE L == last_access_list
           at == Position(L, k)
           S == DOMAIN L \ {n \in DOMAIN L : n > at /\ Expired(n)}
           kept == Restrict(L, S)
           entry == [kept[at] EXCEPT !.access_time = get_current_time]
           new == [kept EXCEPT ![at] = entry]
           gone == {L[n].keyid : n \in DOMAIN L \ S}
<1>1. Listed(L, TimeEntries)
  BY DEF ListInv
<1>2. at \in DOMAIN L /\ L[at].keyid = k /\ Entry(L, k) = L[at]
  <2>1. PICK n \in DOMAIN L : L[n].keyid = k
    BY DEF Ids
  <2>2. at = n
    BY <1>1, <2>1, OnlyNode
  <2> QED
    BY <2>1, <2>2 DEF Entry
<1>3. UpdateKeyAccessTime(k) = new
  BY DEF UpdateKeyAccessTime
<1>4. at \in S
  <2>1. at \in Nat
    BY <1>1, <1>2 DEF Listed
  <2> HIDE DEF at
  <2> QED
    BY <1>2, <2>1
<1> HIDE DEF at
<1>5. gone \in SUBSET (Tables!Expired \ {k})
  <2>1. k \notin gone
    BY <1>1, <1>2, <1>4 DEF Listed
  <2> QED
    BY <2>1, ExpiredNodes
<1> HIDE DEF S
<1>6. S \in SUBSET DOMAIN L
  BY DEF S
<1>7. Listed(kept, TimeEntries) /\ at \in DOMAIN kept /\ kept[at] = L[at]
  BY <1>1, <1>4, <1>6, Erased DEF Restrict
<1>8. Ids(kept) = Ids(L) \ gone /\ TimeTable(kept) = Tables!Without(gone)
  BY <1>6, ErasedTable
<1>9. /\ entry \in TimeEntries /\ entry.keyid = k
      /\ entry.access_time = get_current_time /\ entry.timeout = L[at].timeout
  <2>1. L[at] \in TimeEntries
    BY <1>1, <1>2 DEF Listed
  <2> QED
    BY <1>2, <1>7, <2>1, SameClock DEF TimeEntries
<1> HIDE DEF kept, entry, gone
<1>10. /\ Listed(new, TimeEntries) /\ Ids(new) = Ids(kept) /\ Entry(new, k) = entry
       /\ \A j \in Ids(kept) \ {k} : Entry(new, j) = Entry(kept, j)
  <2>1. entry.keyid = kept[at].keyid
    BY <1>2, <1>7, <1>9
  <2>2. entry \in TimeEntries
    BY <1>9
  <2>3. /\ Listed(new, TimeEntries) /\ Ids(new) = Ids(kept) /\ Entry(new, entry.keyid) = entry
        /\ \A j \in Ids(kept) \ {entry.keyid} : Entry(new, j) = Entry(kept, j)
    <3>1. kept \in [DOMAIN kept -> TimeEntries]
      BY <1>7 DEF Listed
    <3>2. /\ new \in [DOMAIN kept -> TimeEntries] /\ new[at] = entry
          /\ \A n \in DOMAIN kept : n # at => new[n] = kept[n]
      BY <1>7, <2>2, <3>1
    <3> HIDE DEF new
    <3> QED
      BY ONLY <1>7, <2>1, <2>2, <3>2, Changed
  <2> QED
    BY <1>9, <2>3, Zenon
<1> HIDE DEF new
<1>11. k \in Ids(new)
  BY <1>5, <1>8, <1>10
<1>12. TimeTable(new) = Tables!Touched(k, gone)
  <2>1. DOMAIN TimeTable(L) = Ids(L)
    BY DEF TimeTable
  <2>2. Tables!Touched(k, gone)
        = [j \in Ids(L) \ gone |->
             IF j = k THEN [TimeTable(L)[k] EXCEPT !.access_time = get_current_time]
             ELSE TimeTable(L)[j]]
    BY <2>1, SameClock DEF Tables!Touched
  <2>3. TimeTable(L)[k] = [access_time |-> L[at].access_time, timeout |-> L[at].timeout]
    BY <1>2 DEF TimeTable
  <2>4. [TimeTable(L)[k] EXCEPT !.access_time = get_current_time]
        = [access_time |-> entry.access_time, timeout |-> entry.timeout]
    BY <1>9, <2>3
  <2>5. ASSUME NEW j \in Ids(L) \ gone, j # k
        PROVE  TimeTable(L)[j] = [access_time |-> Entry(new, j).access_time,
                                  timeout |-> Entry(new, j).timeout]
    <3>1. TimeTable(kept)[j] = TimeTable(L)[j]
      BY <1>8, <2>1 DEF Tables!Without
    <3>2. TimeTable(kept)[j] = [access_time |-> Entry(kept, j).access_time,
                                timeout |-> Entry(kept, j).timeout]
      BY <1>8 DEF TimeTable
    <3>3. Entry(new, j) = Entry(kept, j)
      BY <1>8, <1>10, <2>5
    <3> QED
      BY <3>1, <3>2, <3>3
  <2>6. TimeTable(new) = [j \in Ids(L) \ gone |->
                            [access_time |-> Entry(new, j).access_time,
                             timeout |-> Entry(new, j).timeout]]
    BY <1>8, <1>10 DEF TimeTable
  <2>7. ASSUME NEW j \in Ids(L) \ gone
        PROVE  [access_time |-> Entry(new, j).access_time, timeout |-> Entry(new, j).timeout]
               = IF j = k THEN [TimeTable(L)[k] EXCEPT !.access_time = get_current_time]
                 ELSE TimeTable(L)[j]
    BY <1>10, <2>4, <2>5
  <2> QED
    BY <2>2, <2>6, <2>7
<1> QED
  BY <1>3, <1>5, <1>10, <1>11, <1>12

\* A walk that does not meet the key erases all expired entries, and adds one for the key
\* if there is room then.
LEMMA WalkMisses ==
    ASSUME ListAssumption, ListInv, NEW k \in Keys, k \notin Ids(last_access_list)
    PROVE  LET full == Cardinality(Ids(last_access_list) \ Tables!Expired)
                          >= MaxAccessTimeMapSize
               new == UpdateKeyAccessTime(k)
           IN  /\ Listed(new, TimeEntries)
               /\ full => k \notin Ids(new) /\ TimeTable(new) = Tables!Without(Tables!Expired)
               /\ ~full => k \in Ids(new) /\ TimeTable(new) = Tables!Added(k, Tables!Expired)
<1> DEFINE L == last_access_list
           S == DOMAIN L \ {n \in DOMAIN L : Expired(n)}
           kept == Restrict(L, S)
           entry == NewAccessTime(k)
           gone == Tables!Expired
           full == Cardinality(Ids(L) \ gone) >= MaxAccessTimeMapSize
           new == UpdateKeyAccessTime(k)
<1>1. Listed(L, TimeEntries) /\ S \in SUBSET DOMAIN L
  BY DEF ListInv
<1>2. gone = {L[n].keyid : n \in DOMAIN L \ S}
  <2>1. DOMAIN L \ S = {m \in DOMAIN L : Expired(m)}
    OBVIOUS
  <2> HIDE DEF S
  <2> QED
    BY <2>1, ExpiredNodes
<1>3. new = IF Cardinality(DOMAIN kept) >= MaxAccessTimeMapSize THEN kept
            ELSE push_front(kept, entry)
  BY DEF UpdateKeyAccessTime
<1> HIDE DEF S, gone, new
<1>4. Listed(kept, TimeEntries)
  BY <1>1, Erased
<1>5. Ids(kept) = Ids(L) \ gone /\ TimeTable(kept) = Tables!Without(gone)
  BY <1>1, <1>2, ErasedTable
<1> HIDE DEF kept
<1>6. full <=> Cardinality(DOMAIN kept) >= MaxAccessTimeMapSize
  BY <1>4, <1>5, LengthIsSize
<1>7. /\ entry \in TimeEntries /\ entry.keyid = k
      /\ entry.access_time = get_current_time /\ entry.timeout = KeyAuths[k].min_seconds
  <2>1. KeyAuths[k].min_seconds \in Int
    BY DEF ListAssumption, Tables!Auths
  <2> QED
    BY <2>1, SameClock DEF NewAccessTime, TimeEntries
<1> HIDE DEF full, entry
<1>8. CASE full
  BY <1>3, <1>4, <1>5, <1>6, <1>8 DEF full, new, gone
<1>9. CASE ~full
  <2>1. new = push_front(kept, entry)
    BY <1>3, <1>6, <1>9
  <2>2. /\ Listed(new, TimeEntries) /\ Ids(new) = Ids(kept) \cup {k}
        /\ Entry(new, k) = entry
        /\ \A j \in Ids(kept) : Entry(new, j) = Entry(kept, j)
    <3>1. entry.keyid \notin Ids(kept)
      BY <1>5, <1>7
    <3>2. /\ Listed(new, TimeEntries) /\ Ids(new) = Ids(kept) \cup {entry.keyid}
          /\ Entry(new, entry.keyid) = entry
          /\ \A j \in Ids(kept) : Entry(new, j) = Entry(kept, j)
      BY <1>4, <1>7, <2>1, <3>1, PushedFront
    <3> QED
      BY <1>7, <3>2
  <2>3. TimeTable(new) = Tables!Added(k, gone)
    <3>1. DOMAIN TimeTable(L) = Ids(L)
      BY DEF TimeTable
    <3>2. Tables!Added(k, gone)
          = [j \in (Ids(L) \ gone) \cup {k} |->
               IF j = k THEN [access_time |-> get_current_time,
                              timeout |-> KeyAuths[k].min_seconds]
               ELSE TimeTable(L)[j]]
      BY <3>1, SameClock DEF Tables!Added
    <3>3. TimeTable(new) = [j \in (Ids(L) \ gone) \cup {k} |->
                              [access_time |-> Entry(new, j).access_time,
                               timeout |-> Entry(new, j).timeout]]
      BY <1>5, <2>2 DEF TimeTable
    <3>4. ASSUME NEW j \in Ids(L) \ gone
          PROVE  TimeTable(L)[j] = [access_time |-> Entry(new, j).access_time,
                                    timeout |-> Entry(new, j).timeout]
      <4>1. TimeTable(kept)[j] = TimeTable(L)[j]
        BY <1>5, <3>1 DEF Tables!Without
      <4>2. TimeTable(kept)[j] = [access_time |-> Entry(kept, j).access_time,
                                  timeout |-> Entry(kept, j).timeout]
        BY <1>5 DEF TimeTable
      <4>3. Entry(new, j) = Entry(kept, j)
        BY <1>5, <2>2
      <4> QED
        BY <4>1, <4>2, <4>3
    <3>5. \A j \in (Ids(L) \ gone) \cup {k} :
             [access_time |-> Entry(new, j).access_time, timeout |-> Entry(new, j).timeout]
             = IF j = k THEN [access_time |-> get_current_time,
                              timeout |-> KeyAuths[k].min_seconds]
               ELSE TimeTable(L)[j]
      BY <1>7, <2>2, <3>4
    <3> QED
      BY <3>2, <3>3, <3>5
  <2> QED
    BY <1>9, <2>2, <2>3 DEF full, new, gone
<1> QED
  BY <1>8, <1>9

\* Counting a use changes the table as Enforcement does, unless there is no room for it.
LEMMA UseCounted ==
    ASSUME ListInv, NEW k \in Keys
    PROVE  LET full == /\ k \notin Ids(access_count_list)
                       /\ Cardinality(Ids(access_count_list)) >= MaxAccessCountMapSize
               new == IncrementKeyAccessCount(k)
               old == CountTable(access_count_list)
           IN  /\ Listed(new, CountEntries)
               /\ full => new = access_count_list
               /\ ~full => /\ k \in Ids(new)
                           /\ CountTable(new) =
                                 IF k \in Ids(access_count_list)
                                 THEN [old EXCEPT ![k] = @ + 1]
                                 ELSE [j \in Ids(access_count_list) \cup {k} |->
                                          IF j = k THEN 1 ELSE old[j]]
<1> DEFINE L == access_count_list
           full == k \notin Ids(L) /\ Cardinality(Ids(L)) >= MaxAccessCountMapSize
           new == IncrementKeyAccessCount(k)
<1>1. Listed(L, CountEntries)
  BY DEF ListInv
<1>2. Cardinality(DOMAIN L) = Cardinality(Ids(L))
  BY <1>1, LengthIsSize
<1>3. CASE full
  BY <1>1, <1>2, <1>3 DEF IncrementKeyAccessCount
<1>4. CASE k \in Ids(L)
  <2> DEFINE at == Position(L, k)
             entry == [L[at] EXCEPT !.access_count = @ + 1]
  <2>1. at \in DOMAIN L /\ L[at].keyid = k /\ Entry(L, k) = L[at]
    <3>1. PICK n \in DOMAIN L : L[n].keyid = k
      BY <1>4 DEF Ids
    <3>2. at = n
      BY <1>1, <3>1, OnlyNode
    <3> QED
      BY <3>1, <3>2 DEF Entry
  <2>2. new = [L EXCEPT ![at] = entry]
    BY <1>4 DEF IncrementKeyAccessCount
  <2>3. L \in [DOMAIN L -> CountEntries]
    BY <1>1 DEF Listed
  <2>4. entry \in CountEntries /\ entry.keyid = k /\ entry.access_count = L[at].access_count + 1
    BY <2>1, <2>3 DEF CountEntries
  <2> HIDE DEF at, entry, new
  <2>5. /\ new \in [DOMAIN L -> CountEntries] /\ new[at] = entry
        /\ \A n \in DOMAIN L : n # at => new[n] = L[n]
    BY <2>1, <2>2, <2>3, <2>4
  <2>6. /\ Listed(new, CountEntries) /\ Ids(new) = Ids(L) /\ Entry(new, k) = entry
        /\ \A j \in Ids(L) \ {k} : Entry(new, j) = Entry(L, j)
    <3>1. entry.keyid = L[at].keyid
      BY <2>1, <2>4
    <3>2. /\ Listed(new, CountEntries) /\ Ids(new) = Ids(L) /\ Entry(new, entry.keyid) = entry
          /\ \A j \in Ids(L) \ {entry.keyid} : Entry(new, j) = Entry(L, j)
      BY ONLY <1>1, <2>1, <2>4, <2>5, <3>1, Changed
    <3> QED
      BY <2>4, <3>2
  <2>7. CountTable(new) = [CountTable(L) EXCEPT ![k] = @ + 1]
    <3>1. \A j \in Ids(L) : Entry(new, j).access_count
                            = IF j = k THEN CountTable(L)[k] + 1 ELSE CountTable(L)[j]
      BY <1>4, <2>1, <2>4, <2>6 DEF CountTable
    <3>2. CountTable(new) = [j \in Ids(L) |-> Entry(new, j).access_count]
      BY <2>6 DEF CountTable
    <3>3. DOMAIN CountTable(L) = Ids(L) /\ CountTable(L) = [j \in Ids(L) |-> CountTable(L)[j]]
      BY DEF CountTable
    <3> QED
      BY <1>4, <3>1, <3>2, <3>3
  <2> QED
    BY <1>4, <2>6, <2>7 DEF new
<1>5. CASE ~full /\ k \notin Ids(L)
  <2> DEFINE entry == [keyid |-> k, access_count |-> 1]
  <2>1. new = push_front(L, entry)
    BY <1>2, <1>5 DEF IncrementKeyAccessCount
  <2>2. entry \in CountEntries /\ entry.keyid = k /\ entry.access_count = 1
    BY DEF CountEntries
  <2> HIDE DEF entry, new
  <2>3. /\ Listed(new, CountEntries) /\ Ids(new) = Ids(L) \cup {k} /\ Entry(new, k) = entry
        /\ \A j \in Ids(L) : Entry(new, j) = Entry(L, j)
    <3>1. /\ Listed(new, CountEntries) /\ Ids(new) = Ids(L) \cup {entry.keyid}
          /\ Entry(new, entry.keyid) = entry
          /\ \A j \in Ids(L) : Entry(new, j) = Entry(L, j)
      BY <1>1, <1>5, <2>1, <2>2, PushedFront
    <3> QED
      BY <2>2, <3>1
  <2>4. CountTable(new) = [j \in Ids(L) \cup {k} |-> IF j = k THEN 1 ELSE CountTable(L)[j]]
    BY <1>5, <2>2, <2>3 DEF CountTable
  <2> QED
    BY <1>5, <2>3, <2>4 DEF new
<1> QED
  BY <1>3, <1>4, <1>5

(***************************************************************************)
(* The steps.                                                              *)
(***************************************************************************)

\* A begin that asks for nothing but the limits of its key.
Plain == [token |-> NoToken, nonce |-> FALSE]

\* The two modules count alike.
LEMMA SameCardinality == ASSUME NEW S PROVE Tables!Cardinality(S) = Cardinality(S)
BY DEF Tables!Cardinality, Cardinality

\* The limits of a key, as Enforcement sees them.
LEMMA SameLimits ==
    ASSUME ListInv, NEW k \in Keys
    PROVE  /\ Tables!RateLimited(k) <=> RateLimited(k)
           /\ Tables!CountLimited(k) <=> CountLimited(k)
           /\ Tables!MinTimeBetweenOpsPassed(k) <=> MinTimeBetweenOpsPassed(k)
           /\ Tables!MaxUsesPerBootNotExceeded(k) <=> MaxUsesPerBootNotExceeded(k)
           /\ Tables!TimeTableFull(k) <=>
                 /\ Tables!RateLimited(k) /\ k \notin Ids(last_access_list)
                 /\ Cardinality(Ids(last_access_list) \ Tables!Expired) >= MaxAccessTimeMapSize
           /\ Tables!CountTableFull(k) <=>
                 /\ Tables!CountLimited(k) /\ k \notin Ids(access_count_list)
                 /\ Cardinality(Ids(access_count_list)) >= MaxAccessCountMapSize
<1>1. DOMAIN TimeTable(last_access_list) = Ids(last_access_list)
  BY DEF TimeTable
<1>2. DOMAIN CountTable(access_count_list) = Ids(access_count_list)
  BY DEF CountTable
<1>3. /\ Tables!RateLimited(k) <=> RateLimited(k)
      /\ Tables!CountLimited(k) <=> CountLimited(k)
  BY DEF Tables!RateLimited, RateLimited, Tables!CountLimited, CountLimited,
         Tables!NoLimit, NoLimit
<1>4. Tables!MinTimeBetweenOpsPassed(k) <=> MinTimeBetweenOpsPassed(k)
  <2>1. k \in Ids(last_access_list)
        => TimeTable(last_access_list)[k].access_time = Entry(last_access_list, k).access_time
    BY DEF TimeTable
  <2> QED
    BY <1>1, <2>1, SameClock DEF Tables!MinTimeBetweenOpsPassed, MinTimeBetweenOpsPassed
<1>5. Tables!MaxUsesPerBootNotExceeded(k) <=> MaxUsesPerBootNotExceeded(k)
  <2>1. k \in Ids(access_count_list)
        => CountTable(access_count_list)[k] = Entry(access_count_list, k).access_count
    BY DEF CountTable
  <2> QED
    BY <1>2, <2>1 DEF Tables!MaxUsesPerBootNotExceeded, MaxUsesPerBootNotExceeded
<1>6. Tables!TimeTableFull(k) <=>
         /\ Tables!RateLimited(k) /\ k \notin Ids(last_access_list)
         /\ Cardinality(Ids(last_access_list) \ Tables!Expired) >= MaxAccessTimeMapSize
  BY <1>1, SameCardinality DEF Tables!TimeTableFull
<1>7. Tables!CountTableFull(k) <=>
         /\ Tables!CountLimited(k) /\ k \notin Ids(access_count_list)
         /\ Cardinality(Ids(access_count_list)) >= MaxAccessCountMapSize
  BY <1>2, SameCardinality DEF Tables!CountTableFull
<1> QED
  BY <1>3, <1>4, <1>5, <1>6, <1>7

\* Nothing but its limits refuses a plain begin.
LEMMA OnlyLimitsRefuse ==
    ASSUME ListAssumption, ListInv, NEW k \in Keys
    PROVE  /\ ~Tables!IsPublicKeyOperation(k, "SIGN")
           /\ ~Refused(k) => Tables!Refusals(k, "SIGN", Plain) = {}
           /\ Refused(k) => \E e \in Tables!Refusals(k, "SIGN", Plain) :
                               e \notin {"OK", "TOO_MANY_OPERATIONS"}
<1> DEFINE rate == RateLimited(k) /\ ~MinTimeBetweenOpsPassed(k)
           count == CountLimited(k) /\ ~MaxUsesPerBootNotExceeded(k)
           Errors == Tables!TagErrors(k, Plain)
<1>1. /\ KeyAuths[k].sids = {} /\ ~KeyAuths[k].forbidden /\ "SIGN" \in KeyAuths[k].purposes
  BY DEF ListAssumption
<1>2. /\ Tables!authorized_purpose("SIGN", k) = "OK"
      /\ ~Tables!Unauthenticated(k, Plain) /\ ~Tables!NonceProhibited(k, "SIGN", Plain)
      /\ ~Tables!IsPublicKeyOperation(k, "SIGN")
  BY <1>1 DEF Tables!authorized_purpose, Tables!Unauthenticated, Tables!NonceProhibited,
              Tables!IsPublicKeyOperation, Plain
<1>3. Errors \subseteq {"KEY_RATE_LIMIT_EXCEEDED", "KEY_MAX_OPS_EXCEEDED"}
  <2>1. Errors \subseteq {"KEY_RATE_LIMIT_EXCEEDED", "KEY_MAX_OPS_EXCEEDED", "DEVICE_LOCKED",
                          "INVALID_KEY_BLOB", "EARLY_BOOT_ENDED"}
    BY DEF Tables!TagErrors
  <2>2. "DEVICE_LOCKED" \notin Errors
    BY DEF Tables!TagErrors
  <2>3. "INVALID_KEY_BLOB" \notin Errors
    BY <1>1 DEF Tables!TagErrors
  <2>4. "EARLY_BOOT_ENDED" \notin Errors
    BY Zenon DEF Tables!TagErrors
  <2> QED
    BY <2>1, <2>2, <2>3, <2>4
<1>4. /\ "KEY_RATE_LIMIT_EXCEEDED" \in Errors <=> rate
      /\ "KEY_MAX_OPS_EXCEEDED" \in Errors <=> count
  BY SameLimits, Zenon DEF Tables!TagErrors
<1>5. Tables!Refusals(k, "SIGN", Plain) = Errors
  BY <1>2 DEF Tables!Refusals
<1> HIDE DEF rate, count, Errors
<1>6. ~(rate \/ count) => Errors = {}
  BY <1>3, <1>4
<1>7. rate \/ count => \E e \in Errors : e \notin {"OK", "TOO_MANY_OPERATIONS"}
  BY <1>4
<1> QED
  BY <1>2, <1>5, <1>6, <1>7 DEF rate, count, Refused

\* The step of the access times is one of Enforcement.
LEMMA TimeStep ==
    ASSUME ListAssumption, ListInv, NEW k \in Keys, Tables!RateLimited(k),
           last_access_list' = UpdateKeyAccessTime(k)
    PROVE  /\ Listed(last_access_list', TimeEntries)
           /\ Tables!UpdateKeyAccessTime(k)
           /\ k \in Ids(last_access_list') <=> ~Tables!TimeTableFull(k)
<1> DEFINE L == last_access_list
           new == UpdateKeyAccessTime(k)
<1>1. DOMAIN TimeTable(L) = Ids(L)
  BY DEF TimeTable
<1>2. TimeTable(last_access_list)' = TimeTable(new)
  BY DEF TimeTable, Ids, Entry, Position
<1> HIDE DEF new
<1>3. CASE k \in Ids(L)
  <2>1. /\ Listed(new, TimeEntries) /\ k \in Ids(new)
        /\ \E gone \in SUBSET (Tables!Expired \ {k}) : TimeTable(new) = Tables!Touched(k, gone)
    BY <1>3, WalkMeets DEF new
  <2>2. Tables!UpdateKeyAccessTime(k)
    BY <1>1, <1>2, <1>3, <2>1 DEF Tables!UpdateKeyAccessTime
  <2>3. ~Tables!TimeTableFull(k)
    BY <1>3, SameLimits
  <2> QED
    BY <2>1, <2>2, <2>3 DEF new
<1>4. CASE k \notin Ids(L)
  <2>1. /\ Listed(new, TimeEntries)
        /\ Tables!TimeTableFull(k)
              => k \notin Ids(new) /\ TimeTable(new) = Tables!Without(Tables!Expired)
        /\ ~Tables!TimeTableFull(k)
              => k \in Ids(new) /\ TimeTable(new) = Tables!Added(k, Tables!Expired)
    BY <1>4, SameLimits, WalkMisses DEF new
  <2>2. Tables!UpdateKeyAccessTime(k)
    BY <1>1, <1>2, <1>4, <2>1 DEF Tables!UpdateKeyAccessTime
  <2> QED
    BY <2>1, <2>2 DEF new
<1> QED
  BY <1>3, <1>4

\* The step of the counts is one of Enforcement, or there is no room.
LEMMA CountStep ==
    ASSUME ListInv, NEW k \in Keys, Tables!CountLimited(k),
           access_count_list' = IncrementKeyAccessCount(k)
    PROVE  /\ Listed(access_count_list', CountEntries)
           /\ k \in Ids(access_count_list') <=> ~Tables!CountTableFull(k)
           /\ Tables!CountTableFull(k) => access_count_list' = access_count_list
           /\ ~Tables!CountTableFull(k) => Tables!IncrementKeyAccessCount(k)
<1> DEFINE C == access_count_list
           old == CountTable(C)
           new == IncrementKeyAccessCount(k)
<1>1. DOMAIN old = Ids(C)
  BY DEF CountTable
<1>2. CountTable(access_count_list)' = CountTable(new)
  BY DEF CountTable, Ids, Entry, Position
<1>3. /\ Listed(new, CountEntries)
      /\ Tables!CountTableFull(k) => new = C /\ k \notin Ids(C)
      /\ ~Tables!CountTableFull(k) =>
            /\ k \in Ids(new)
            /\ CountTable(new) = IF k \in Ids(C) THEN [old EXCEPT ![k] = @ + 1]
                                 ELSE [j \in Ids(C) \cup {k} |-> IF j = k THEN 1 ELSE old[j]]
  BY SameLimits, UseCounted, Zenon
<1> HIDE DEF new, old
<1>4. ~Tables!CountTableFull(k) => Tables!IncrementKeyAccessCount(k)
  BY <1>1, <1>2, <1>3 DEF Tables!IncrementKeyAccessCount, old
<1> QED
  BY <1>3, <1>4 DEF new

\* Where a list stays, its table does.
LEMMA SameTables ==
    /\ last_access_list' = last_access_list
          => TimeTable(last_access_list)' = TimeTable(last_access_list)
    /\ access_count_list' = access_count_list
          => CountTable(access_count_list)' = CountTable(access_count_list)
<1>1. ASSUME last_access_list' = last_access_list
      PROVE  TimeTable(last_access_list)' = TimeTable(last_access_list)
  BY <1>1 DEF TimeTable, Ids, Entry, Position
<1>2. ASSUME access_count_list' = access_count_list
      PROVE  CountTable(access_count_list)' = CountTable(access_count_list)
  BY <1>2 DEF CountTable, Ids, Entry, Position
<1> QED
  BY <1>1, <1>2

\* The maps in a step of AuthorizeBegin: how they answer, and what that makes of the lists
\* and of the history.
LEMMA BeginLists ==
    ASSUME ListAssumption, ListInv, NEW k \in Keys, AuthorizeBegin(k)
    PROVE  LET full == Tables!TimeTableFull(k) \/ Tables!CountTableFull(k)
           IN  /\ ListInv' /\ now' = now
               /\ IF ~Refused(k) /\ RateLimited(k) THEN Tables!UpdateKeyAccessTime(k)
                  ELSE UNCHANGED last_access_list
               /\ IF ~Refused(k) /\ ~full /\ CountLimited(k)
                  THEN Tables!IncrementKeyAccessCount(k) ELSE UNCHANGED access_count_list
               /\ IF ~Refused(k) /\ ~full THEN Tables!RecordGrant(k, Plain)
                  ELSE Tables!RecordNoGrant
<1> DEFINE timefull == Tables!TimeTableFull(k)
           countfull == Tables!CountTableFull(k)
           blocked == \/ Refused(k)
                      \/ RateLimited(k) /\ k \notin Ids(last_access_list')
                      \/ CountLimited(k) /\ k \notin Ids(access_count_list')
<1>1. /\ RateLimited(k) <=> Tables!RateLimited(k)
      /\ CountLimited(k) <=> Tables!CountLimited(k)
      /\ timefull => RateLimited(k)
      /\ countfull => CountLimited(k) /\ k \notin Ids(access_count_list)
  BY SameLimits
<1>2. /\ last_access_list' = IF RateLimited(k) /\ ~Refused(k) THEN UpdateKeyAccessTime(k)
                             ELSE last_access_list
      /\ access_count_list'
            = IF CountLimited(k) /\ ~Refused(k) /\ (RateLimited(k) => k \in Ids(last_access_list'))
              THEN IncrementKeyAccessCount(k) ELSE access_count_list
      /\ now' = now
  BY DEF AuthorizeBegin
<1>3. /\ blocked => grant' = NoGrant /\ last_grant' = last_grant /\ uses' = uses
      /\ ~blocked =>
           /\ grant' = [key |-> k, token |-> NoToken,
                        since_last |-> IF last_grant[k] = -1 THEN -1
                                       ELSE get_current_time - last_grant[k]]
           /\ last_grant' = IF RateLimited(k) THEN [last_grant EXCEPT ![k] = get_current_time]
                            ELSE last_grant
           /\ uses' = IF CountLimited(k) THEN [uses EXCEPT ![k] = @ + 1] ELSE uses
  BY DEF AuthorizeBegin
<1> HIDE DEF timefull, countfull, blocked
<1>4. /\ RateLimited(k) /\ ~Refused(k) => /\ Listed(last_access_list', TimeEntries)
                                          /\ Tables!UpdateKeyAccessTime(k)
                                          /\ k \in Ids(last_access_list') <=> ~timefull
      /\ ~(RateLimited(k) /\ ~Refused(k)) => last_access_list' = last_access_list
  BY <1>1, <1>2, TimeStep DEF timefull
<1>5. ASSUME CountLimited(k), ~Refused(k), ~timefull
      PROVE  /\ Listed(access_count_list', CountEntries)
             /\ k \in Ids(access_count_list') <=> ~countfull
             /\ countfull => access_count_list' = access_count_list
             /\ ~countfull => Tables!IncrementKeyAccessCount(k)
  <2>1. access_count_list' = IncrementKeyAccessCount(k)
    BY <1>2, <1>4, <1>5
  <2> QED
    BY <1>1, <1>5, <2>1, CountStep DEF countfull
<1>6. ~CountLimited(k) \/ Refused(k) \/ timefull => access_count_list' = access_count_list
  BY <1>1, <1>2, <1>4
<1>7. Listed(last_access_list', TimeEntries) /\ Listed(access_count_list', CountEntries)
  <2>1. Listed(last_access_list, TimeEntries) /\ Listed(access_count_list, CountEntries)
    BY DEF ListInv
  <2> QED
    BY <2>1, <1>4, <1>5, <1>6
<1>8. ListInv'
  BY <1>2, <1>7 DEF ListInv, Listed, TimeEntries, CountEntries
<1>9. blocked <=> Refused(k) \/ timefull \/ countfull
  BY <1>1, <1>4, <1>5, <1>6 DEF blocked
<1>10. IF ~Refused(k) /\ RateLimited(k) THEN Tables!UpdateKeyAccessTime(k)
       ELSE UNCHANGED last_access_list
  BY <1>4
<1>11. IF ~Refused(k) /\ ~(timefull \/ countfull) /\ CountLimited(k)
       THEN Tables!IncrementKeyAccessCount(k) ELSE UNCHANGED access_count_list
  BY <1>1, <1>5, <1>6
<1>12. blocked => Tables!RecordNoGrant
  BY <1>3 DEF Tables!RecordNoGrant
<1>13. ~blocked => Tables!RecordGrant(k, Plain)
  <2>1. Plain.token = NoToken
    BY DEF Plain
  <2> QED
    BY <1>1, <1>3, <2>1, SameClock DEF Tables!RecordGrant
<1> QED
  BY <1>2, <1>8, <1>9, <1>10, <1>11, <1>12, <1>13 DEF timefull, countfull

\* A begin of the lists is a begin of Enforcement.
LEMMA BeginStep ==
    ASSUME ListAssumption, ListInv, NEW k \in Keys, AuthorizeBegin(k)
    PROVE  ListInv' /\ Tables!Begin(k, "SIGN", Plain)
<1> DEFINE full == Tables!TimeTableFull(k) \/ Tables!CountTableFull(k)
           Answers == Tables!BeginAnswers(k, "SIGN", Plain)
<1>1. /\ ListInv' /\ now' = now
      /\ IF ~Refused(k) /\ RateLimited(k) THEN Tables!UpdateKeyAccessTime(k)
         ELSE UNCHANGED last_access_list
      /\ IF ~Refused(k) /\ ~full /\ CountLimited(k)
         THEN Tables!IncrementKeyAccessCount(k) ELSE UNCHANGED access_count_list
      /\ IF ~Refused(k) /\ ~full THEN Tables!RecordGrant(k, Plain) ELSE Tables!RecordNoGrant
  BY BeginLists
<1>2. /\ UNCHANGED last_access_list => UNCHANGED TimeTable(last_access_list)
      /\ UNCHANGED access_count_list => UNCHANGED CountTable(access_count_list)
  BY SameTables
<1>3. (Tables!RateLimited(k) <=> RateLimited(k)) /\ (Tables!CountLimited(k) <=> CountLimited(k))
  BY SameLimits
<1> HIDE DEF full
<1>4. \E error \in Answers : Tables!AuthorizeBegin(k, "SIGN", Plain, error)
  <2>1. CASE Refused(k)
    <3>1. PICK e \in Tables!Refusals(k, "SIGN", Plain) : e \notin {"OK", "TOO_MANY_OPERATIONS"}
      BY <2>1, OnlyLimitsRefuse
    <3>2. e \in Answers
      BY DEF Tables!BeginAnswers
    <3>3. Tables!AuthorizeBegin(k, "SIGN", Plain, e)
      BY <1>1, <1>2, <2>1, <3>1, <3>2 DEF Tables!AuthorizeBegin
    <3> QED
      BY <3>2, <3>3
  <2>2. CASE ~Refused(k) /\ full
    <3>1. "TOO_MANY_OPERATIONS" \in Answers
      BY <2>2, OnlyLimitsRefuse DEF Tables!BeginAnswers, full
    <3>2. Tables!AuthorizeBegin(k, "SIGN", Plain, "TOO_MANY_OPERATIONS")
      BY <1>1, <1>2, <1>3, <2>2, <3>1 DEF Tables!AuthorizeBegin
    <3> QED
      BY <3>1, <3>2
  <2>3. CASE ~Refused(k) /\ ~full
    <3>1. "OK" \in Answers
      BY <2>3, OnlyLimitsRefuse DEF Tables!BeginAnswers, full
    <3>2. Tables!AuthorizeBegin(k, "SIGN", Plain, "OK")
      BY <1>1, <1>2, <1>3, <2>3, <3>1, SMTT(20) DEF Tables!AuthorizeBegin
    <3> QED
      BY <3>1, <3>2
  <2> QED
    BY <2>1, <2>2, <2>3
<1>5. \E error \in Tables!OperationAnswers(k, "SIGN", Plain) :
         Tables!AuthorizeOperation(k, "SIGN", Plain, error)
  BY <1>4, OnlyLimitsRefuse, Zenon DEF Tables!OperationAnswers, Tables!AuthorizeOperation
<1>6. Tables!Begin(k, "SIGN", Plain)
  BY <1>1, <1>5 DEF Tables!Begin, Tables!lockState
<1> QED
  BY <1>1, <1>6

\* Every step of the lists is one of Enforcement.
LEMMA ListStep ==
    ASSUME ListAssumption, ListInv, [ListNext]_listVars
    PROVE  ListInv' /\ [Tables!EnforcementNext]_(Tables!enforcementVars)
<1>1. ASSUME NEW k \in Keys, AuthorizeBegin(k) PROVE ListInv' /\ Tables!EnforcementNext
  <2>1. Plain \in Tables!HeldParams
    BY DEF Plain, Tables!HeldParams
  <2>2. "SIGN" \in Purposes
    BY DEF ListAssumption
  <2>3. ListInv' /\ Tables!Begin(k, "SIGN", Plain)
    BY <1>1, BeginStep
  <2> QED
    BY <2>1, <2>2, <2>3 DEF Tables!EnforcementNext
<1>2. ASSUME ListTick PROVE ListInv' /\ Tables!EnforcementNext
  <2>1. /\ last_access_list' = last_access_list /\ access_count_list' = access_count_list
        /\ grant' = NoGrant /\ last_grant' = last_grant /\ uses' = uses
        /\ \E d \in Ticks : now' = now + d
        /\ now' <= MaxTime
    BY <1>2 DEF ListTick
  <2>2. /\ TimeTable(last_access_list)' = TimeTable(last_access_list)
        /\ CountTable(access_count_list)' = CountTable(access_count_list)
    BY <2>1, SameTables
  <2>3. Tables!Tick
    BY <2>1, <2>2 DEF Tables!Tick, Tables!RecordNoGrant, Tables!tables, Tables!lockState
  <2>4. now' \in Nat
    BY <2>1 DEF ListInv, ListAssumption
  <2>5. ListInv'
    BY <2>1, <2>4 DEF ListInv, Listed, TimeEntries, CountEntries
  <2> QED
    BY <2>3, <2>5 DEF Tables!EnforcementNext
<1>3. ASSUME UNCHANGED listVars PROVE ListInv' /\ UNCHANGED Tables!enforcementVars
  <2>1. /\ last_access_list' = last_access_list /\ access_count_list' = access_count_list
        /\ grant' = grant /\ last_grant' = last_grant /\ uses' = uses /\ now' = now
    BY <1>3 DEF listVars
  <2>2. /\ TimeTable(last_access_list)' = TimeTable(last_access_list)
        /\ CountTable(access_count_list)' = CountTable(access_count_list)
    BY <2>1, SameTables
  <2>3. ListInv'
    BY <2>1 DEF ListInv, Listed, TimeEntries, CountEntries
  <2> QED
    BY <2>1, <2>2, <2>3 DEF Tables!enforcementVars
<1> QED
  BY <1>1, <1>2, <1>3 DEF ListNext

\* Empty lists are empty tables.
LEMMA ListStart ==
    ASSUME ListAssumption, ListInit
    PROVE  ListInv /\ Tables!EnforcementInit
<1>1. /\ DOMAIN last_access_list = {} /\ DOMAIN access_count_list = {}
      /\ last_access_list \in [{} -> TimeEntries] /\ access_count_list \in [{} -> CountEntries]
  BY DEF ListInit
<1>2. now \in Nat
  BY DEF ListInit, ListAssumption
<1>3. {} \subseteq 0 .. 0 /\ 0 \in Nat
  OBVIOUS
<1>4. ListInv
  BY <1>1, <1>2, <1>3 DEF ListInv, Listed
<1>5. Ids(last_access_list) = {} /\ Ids(access_count_list) = {}
  BY <1>1 DEF Ids
<1>6. TimeTable(last_access_list) = [k \in {} |-> 0] /\ CountTable(access_count_list) = [k \in {} |-> 0]
  BY <1>5 DEF TimeTable, CountTable
<1>7. Tables!EnforcementInit
  BY <1>6 DEF ListInit, Tables!EnforcementInit
<1> QED
  BY <1>4, <1>7

\* The lists of AccessTimeMap and AccessCountMap implement the tables of Enforcement,
\* whatever their order and wherever the walks stop, for keys that nothing but their limits
\* refuses: what is proved of the tables holds of the lists.
THEOREM ListsAreTables ==
    ASSUME ListAssumption
    PROVE  ListSpec => ListsImplementTables /\ Tables!EnforcementSpec
<1>1. ListInit => ListInv /\ Tables!EnforcementInit
  BY ListStart
<1>2. ListInv /\ [ListNext]_listVars
      => ListInv' /\ [Tables!EnforcementNext]_(Tables!enforcementVars)
  BY ListStep
<1>3. [Tables!EnforcementNext]_(Tables!enforcementVars)
      => [UNCHANGED listVars \/ Tables!EnforcementNext]_(Tables!enforcementVars)
  OBVIOUS
<1> QED
  BY <1>1, <1>2, <1>3, PTL DEF ListSpec, ListsImplementTables, Tables!EnforcementSpec
=============================================================================
