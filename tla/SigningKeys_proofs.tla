-------------------------- MODULE SigningKeys_proofs --------------------------
(***************************************************************************)
(* Proofs about SigningKeys, for any number of keys and any length of page. *)
(***************************************************************************)
EXTENDS SigningKeys, FiniteSetTheorems, TLAPS

Entry == [key : Keys, status : StatusSet \ {"unknown"}]

\* Every registered key has one place in the list, and no status goes back.
StoreInv ==
  /\ store \in Seq(Keys)
  /\ \A i, j \in 1..Len(store) : store[i] = store[j] => i = j
  /\ status \in [Keys -> StatusSet]
  /\ before \in [Keys -> StatusSet]
  /\ paged \in BOOLEAN
  /\ \A k \in Keys : status[k] # "unknown" <=> \E i \in 1..Len(store) : store[i] = k
  /\ \A k \in Keys : Rank(before[k]) <= Rank(status[k])

\* What lies before the page asked for, in the list as it is now.
Seen == (page - 1) * PerPage

Collected(k) == \E j \in 1..Len(all) : all[j].key = k

\* No entry is ahead of the API, and no later one behind an earlier of its key.
NotAhead == \A i \in 1..Len(all) : Rank(all[i].status) <= Rank(status[all[i].key])

InOrder ==
  \A i, j \in 1..Len(all) :
    i < j /\ all[i].key = all[j].key => Rank(all[i].status) <= Rank(all[j].status)

Listed == {all[i].key : i \in 1..Len(all)}
Came   == {k \in Keys : before[k] = "unknown" /\ status[k] # "unknown"}

FewRepeats == Len(all) - Cardinality(Listed) <= Cardinality(Came)

\* New keys push the old ones back only: those of the first pages are collected.
ListInv ==
  /\ pc \in {"idle", "page", "ok", "failed"}
  /\ page \in 1..Pages(Cardinality(Keys))
  /\ all \in Seq(Entry)
  /\ ~paged => page = 1
  /\ pc = "page" =>
       /\ \A i \in 1..Len(store) :
            i <= Seen /\ before[store[i]] # "unknown" => Collected(store[i])
       /\ Len(all) = Seen /\ Seen <= Len(store)
  /\ EveryKeyListed
  /\ NewestFirst
  /\ NotAhead
  /\ InOrder
  /\ FewRepeats

-----------------------------------------------------------------------------
(* Statuses and pages.                                                       *)

LEMMA Ranks ==
  /\ Rank("unknown") = 1 /\ Rank("pending") = 2 /\ Rank("usable") = 3
  /\ Rank("retired") = 4 /\ Rank("revoked") = 5
  /\ StatusSet = {"unknown", "pending", "usable", "retired", "revoked"}
<1>1. /\ DOMAIN Statuses = 1..5
      /\ Statuses[1] = "unknown" /\ Statuses[2] = "pending" /\ Statuses[3] = "usable"
      /\ Statuses[4] = "retired" /\ Statuses[5] = "revoked"
  BY DEF Statuses
<1>2. \A i \in 1..5 : Rank(Statuses[i]) = i
  <2> SUFFICES ASSUME NEW i \in 1..5 PROVE Rank(Statuses[i]) = i
    OBVIOUS
  <2>1. \A j \in 1..5 : Statuses[j] = Statuses[i] => j = i
    BY <1>1
  <2>2. (CHOOSE j \in 1..5 : Statuses[j] = Statuses[i]) = i
    BY <2>1
  <2> QED
    BY <1>1, <2>2 DEF Rank
<1>3. StatusSet = {Statuses[1], Statuses[2], Statuses[3], Statuses[4], Statuses[5]}
  BY <1>1 DEF StatusSet
<1> QED
  BY <1>1, <1>2, <1>3

LEMMA RankOrder ==
  /\ \A s \in StatusSet : Rank(s) \in 1..5
  /\ \A s \in StatusSet : Rank(s) = 1 <=> s = "unknown"
BY Ranks

LEMMA PagesType ==
  ASSUME NEW n \in Nat
  PROVE  Pages(n) \in Nat \ {0}
BY KeysAssumption DEF Pages

LEMMA PagesCover ==
  ASSUME NEW n \in Nat, NEW p \in Nat
  PROVE  p >= Pages(n) => p * PerPage >= n
BY KeysAssumption DEF Pages

LEMMA PagesFull ==
  ASSUME NEW n \in Nat, NEW p \in Nat, p < Pages(n)
  PROVE  p * PerPage <= n
<1>1. CASE n = 0
  <2>1. p = 0
    BY <1>1 DEF Pages
  <2> QED
    BY <1>1, <2>1, KeysAssumption
<1>2. CASE n # 0
  <2> DEFINE q == Pages(n)
  <2>1. q \in Nat /\ PerPage \in Nat \ {0} /\ p + 1 <= q
    BY PagesType, KeysAssumption
  <2>2. q * PerPage <= n + PerPage - 1
    BY <1>2, KeysAssumption DEF Pages
  <2> HIDE DEF q
  <2>3. (p + 1) * PerPage <= q * PerPage
    BY <2>1
  <2>4. (p + 1) * PerPage = p * PerPage + PerPage /\ p * PerPage \in Nat /\ q * PerPage \in Nat
    BY <2>1
  <2> QED
    BY <2>1, <2>2, <2>3, <2>4
<1> QED
  BY <1>1, <1>2

LEMMA PagesMonotone ==
  ASSUME NEW m \in Nat, NEW n \in Nat, m <= n
  PROVE  Pages(m) <= Pages(n)
BY KeysAssumption DEF Pages

\* The list is no longer than there are keys.
LEMMA StoreBounded ==
  ASSUME StoreInv
  PROVE  /\ Cardinality(Keys) \in Nat
         /\ Len(store) <= Cardinality(Keys)
<1>1. Len(store) \in Nat /\ store \in [1..Len(store) -> Keys]
  BY DEF StoreInv
<1>2. store \in Injection(1..Len(store), Keys)
  BY <1>1 DEF StoreInv, Injection, IsInjective
<1>3. Cardinality(1..Len(store)) <= Cardinality(Keys)
  BY <1>2, FS_Injection, KeysAssumption
<1> QED
  BY <1>1, <1>3, FS_Interval, FS_CardinalityType, KeysAssumption

-----------------------------------------------------------------------------
(* The entries of one answer.                                                *)

Page == Answered(page)

\* They are the list's from the first one not seen, up to the page's length.
LEMMA PageIs ==
  ASSUME StoreInv, page \in Nat \ {0}, ~paged => page = 1
  PROVE  /\ Page \in Seq(Entry)
         /\ Seen \in Nat
         /\ \A i \in 1..Len(Page) :
              /\ Seen + i \in 1..Len(store)
              /\ Page[i].key = store[Seen + i]
              /\ Page[i].status = status[store[Seen + i]]
         /\ \A q \in 1..Len(store) :
              q > Seen /\ (paged => q <= page * PerPage) => \E x \in 1..Len(Page) : q = Seen + x
<1> DEFINE last == Least(page * PerPage, Len(store))
           keys == IF paged THEN SubSeq(store, Seen + 1, last) ELSE store
<1>1. /\ PerPage \in Nat \ {0} /\ Seen \in Nat /\ page * PerPage \in Nat
      /\ page * PerPage = Seen + PerPage
      /\ Len(store) \in Nat /\ store \in Seq(Keys)
  BY KeysAssumption DEF StoreInv, Seen
<1>2. Page = Entries(keys)
  BY <1>1 DEF Page, Answered, Seen
<1>3. /\ keys \in Seq(Keys)
      /\ \A i \in 1..Len(keys) : Seen + i \in 1..Len(store) /\ keys[i] = store[Seen + i]
      /\ \A q \in 1..Len(store) :
           q > Seen /\ (paged => q <= page * PerPage) => \E x \in 1..Len(keys) : q = Seen + x
  <2>1. CASE paged
    <3>1. last \in Nat /\ last <= Len(store) /\ last <= page * PerPage
          /\ (last = Len(store) \/ last = page * PerPage)
      BY <1>1 DEF Least
    <3>2. keys = SubSeq(store, Seen + 1, last)
      BY <2>1
    <3> HIDE DEF last, keys
    <3>3. /\ keys \in Seq(Keys)
          /\ Len(keys) = IF Seen + 1 <= last THEN last - Seen ELSE 0
          /\ \A i \in 1..Len(keys) : keys[i] = store[Seen + i]
      BY <1>1, <3>1, <3>2
    <3>4. Len(keys) \in Nat /\ \A i \in 1..Len(keys) : Seen + i \in 1..Len(store)
      BY <1>1, <3>1, <3>3
    <3>5. ASSUME NEW q \in 1..Len(store), q > Seen, q <= page * PerPage
          PROVE  \E x \in 1..Len(keys) : q = Seen + x
      <4>1. q <= last
        BY <3>1, <3>5
      <4>2. q - Seen \in 1..Len(keys) /\ q = Seen + (q - Seen)
        BY <1>1, <3>1, <3>3, <3>5, <4>1
      <4> QED
        BY <4>2
    <3>6. \A q \in 1..Len(store) :
            q > Seen /\ (paged => q <= page * PerPage) => \E x \in 1..Len(keys) : q = Seen + x
      BY <2>1, <3>5, Zenon
    <3> QED
      BY <3>3, <3>4, <3>6
  <2>2. CASE ~paged
    <3>1. keys = store /\ Seen = 0
      BY <2>2, <1>1 DEF Seen
    <3> HIDE DEF last, keys
    <3>2. \A q \in 1..Len(store) : q \in 1..Len(keys) /\ q = Seen + q
      BY <1>1, <3>1
    <3>3. \A i \in 1..Len(keys) : Seen + i \in 1..Len(store) /\ keys[i] = store[Seen + i]
      BY <1>1, <3>1
    <3> QED
      BY <1>1, <3>1, <3>2, <3>3
  <2> QED
    BY <2>1, <2>2
<1> HIDE DEF keys
<1>4. /\ Page = [i \in 1..Len(keys) |-> [key |-> keys[i], status |-> status[keys[i]]]]
      /\ Len(keys) \in Nat
  BY <1>2, <1>3 DEF Entries
<1>5. \A i \in 1..Len(keys) : [key |-> keys[i], status |-> status[keys[i]]] \in Entry
  <2> SUFFICES ASSUME NEW i \in 1..Len(keys)
               PROVE  [key |-> keys[i], status |-> status[keys[i]]] \in Entry
    OBVIOUS
  <2>1. keys[i] \in Keys /\ status[keys[i]] # "unknown"
    BY <1>3 DEF StoreInv
  <2> QED
    BY <2>1 DEF StoreInv, Entry
<1>6. Page \in Seq(Entry) /\ Len(Page) = Len(keys)
  BY <1>4, <1>5
<1> QED
  BY <1>1, <1>3, <1>4, <1>6

\* Before the last page each is full.
LEMMA PageLength ==
  ASSUME StoreInv, page \in Nat \ {0}, paged, page * PerPage <= Len(store)
  PROVE  Len(Page) = PerPage
<1>1. /\ PerPage \in Nat \ {0} /\ page * PerPage \in Nat /\ Len(store) \in Nat
      /\ (page - 1) * PerPage + 1 = page * PerPage - PerPage + 1
      /\ page * PerPage - PerPage \in Nat
  BY KeysAssumption DEF StoreInv
<1>2. Least(page * PerPage, Len(store)) = page * PerPage
  BY <1>1 DEF Least
<1> DEFINE keys == SubSeq(store, page * PerPage - PerPage + 1, page * PerPage)
<1>3. Len(keys) = PerPage
  BY <1>1 DEF StoreInv
<1>4. Page = Entries(keys)
  BY <1>1, <1>2 DEF Page, Answered
<1>5. DOMAIN keys = 1..PerPage
  BY <1>1, <1>3 DEF StoreInv
<1> HIDE DEF keys
<1>6. Page = [i \in 1..PerPage |-> [key |-> keys[i], status |-> status[keys[i]]]]
  BY <1>4, <1>5 DEF Entries
<1> QED
  BY <1>1, <1>6

\* A turn of the loop: what was seen stays collected, and the page is.
LEMMA PageJoined ==
  ASSUME StoreInv, ListInv, pc = "page", all' = Join(all, Page), UNCHANGED <<server, before>>
  PROVE  /\ all' \in Seq(Entry)
         /\ Len(all') = Len(all) + Len(Page)
         /\ NotAhead'
         /\ InOrder'
         /\ NewestFirst'
         /\ \A i \in 1..Len(store) :
              /\ before[store[i]] # "unknown"
              /\ i <= Seen \/ \E x \in 1..Len(Page) : i = Seen + x
              => Collected(store[i])'
<1>1. /\ page \in Nat \ {0} /\ (~paged => page = 1)
      /\ all \in Seq(Entry) /\ UNCHANGED <<store, status, before>>
  <2>1. Pages(Cardinality(Keys)) \in Nat
    BY StoreBounded, PagesType
  <2> QED
    BY <2>1 DEF ListInv, server
<1>2. /\ Page \in Seq(Entry) /\ Seen \in Nat
      /\ \A i \in 1..Len(Page) :
           /\ Seen + i \in 1..Len(store)
           /\ Page[i].key = store[Seen + i]
           /\ Page[i].status = status[store[Seen + i]]
  BY <1>1, PageIs
<1>3. /\ all' \in Seq(Entry) /\ Len(all') = Len(all) + Len(Page)
      /\ \A i \in 1..Len(all) : all'[i] = all[i]
      /\ \A i \in 1..Len(Page) : all'[Len(all) + i] = Page[i]
      /\ Len(all) \in Nat /\ Len(Page) \in Nat
  BY <1>1, <1>2 DEF Join
<1>4. \A i \in 1..Len(all') :
        i \in 1..Len(all) \/ \E x \in 1..Len(Page) : i = Len(all) + x
  <2> SUFFICES ASSUME NEW i \in 1..Len(all'), i \notin 1..Len(all)
               PROVE  i - Len(all) \in 1..Len(Page) /\ i = Len(all) + (i - Len(all))
    OBVIOUS
  <2> QED
    BY <1>3
<1>5. NotAhead' /\ InOrder'
  <2>1. ASSUME NEW i \in 1..Len(all'), i \notin 1..Len(all)
        PROVE  all'[i].key \in Keys /\ all'[i].status = status[all'[i].key]
    <3>1. PICK x \in 1..Len(Page) : i = Len(all) + x
      BY <1>4, <2>1
    <3>2. all'[i] = Page[x] /\ Seen + x \in 1..Len(store)
      BY <1>2, <1>3, <3>1
    <3>3. store[Seen + x] \in Keys
      BY <3>2 DEF StoreInv
    <3> QED
      BY <1>2, <3>2, <3>3
  <2>2. \A k \in Keys : Rank(status[k]) \in Int
    BY RankOrder DEF StoreInv
  <2>3. ASSUME NEW i \in 1..Len(all')
        PROVE  Rank(all'[i].status) <= Rank(status[all'[i].key])
    <3>1. CASE i \in 1..Len(all)
      BY <1>3, <3>1 DEF ListInv, NotAhead
    <3>2. CASE i \notin 1..Len(all)
      BY <2>1, <2>2, <3>2
    <3> QED
      BY <3>1, <3>2
  <2>4. ASSUME NEW i \in 1..Len(all'), NEW j \in 1..Len(all'), i < j, all'[i].key = all'[j].key
        PROVE  Rank(all'[i].status) <= Rank(all'[j].status)
    <3>1. CASE j \in 1..Len(all)
      <4>1. i \in 1..Len(all) /\ all'[i] = all[i] /\ all'[j] = all[j]
        BY <1>3, <2>4, <3>1
      <4> QED
        BY <2>4, <3>1, <4>1 DEF ListInv, InOrder
    <3>2. CASE j \notin 1..Len(all)
      BY <2>1, <2>3, <2>4, <3>2
    <3> QED
      BY <3>1, <3>2
  <2> QED
    BY <1>1, <1>3, <2>3, <2>4 DEF NotAhead, InOrder
<1>6. ASSUME NEW i \in 1..Len(store), before[store[i]] # "unknown", i <= Seen
      PROVE  \E j \in 1..Len(all) : all[j].key = store[i]
  BY <1>6 DEF ListInv, Collected
<1>7. ASSUME NEW i \in 1..Len(store), before[store[i]] # "unknown",
             i <= Seen \/ \E x \in 1..Len(Page) : i = Seen + x
      PROVE  Collected(store[i])'
  <2>1. CASE i <= Seen
    BY <1>1, <1>3, <1>6, <1>7, <2>1 DEF Collected
  <2>2. CASE \E x \in 1..Len(Page) : i = Seen + x
    <3>1. PICK x \in 1..Len(Page) : i = Seen + x
      BY <2>2
    <3>2. all'[Len(all) + x] = Page[x] /\ Page[x].key = store[i]
      BY <1>2, <1>3, <3>1
    <3>3. Len(all) + x \in 1..Len(all')
      BY <1>3
    <3> QED
      BY <1>1, <3>2, <3>3 DEF Collected
  <2> QED
    BY <1>7, <2>1, <2>2
<1>8. ASSUME NEW i \in 1..Len(all'), NEW p \in 1..Len(store), NEW q \in 1..Len(store),
             p < q, store[q] = all'[i].key,
             before[store[p]] # "unknown", before[store[q]] # "unknown"
      PROVE  \E j \in 1..(i - 1) : all'[j].key = store[p]
  <2>1. CASE i \in 1..Len(all)
    <3>1. /\ i \in DOMAIN all /\ p \in DOMAIN store /\ q \in DOMAIN store
          /\ store[q] = all[i].key
      BY <1>1, <1>3, <1>8, <2>1 DEF StoreInv
    <3>2. PICK j \in 1..(i - 1) : all[j].key = store[p]
      BY <1>8, <3>1 DEF ListInv, NewestFirst
    <3>3. all'[j] = all[j]
      BY <1>3, <2>1
    <3> QED
      BY <3>2, <3>3
  <2>2. CASE \E x \in 1..Len(Page) : i = Len(all) + x
    <3>1. PICK x \in 1..Len(Page) : i = Len(all) + x
      BY <2>2
    <3>2. store[q] = store[Seen + x] /\ Seen + x \in 1..Len(store)
      BY <1>2, <1>3, <1>8, <3>1
    <3>3. q = Seen + x
      BY <3>2 DEF StoreInv
    <3>4. CASE p <= Seen
      <4>1. PICK j \in 1..Len(all) : all[j].key = store[p]
        BY <1>6, <1>8, <3>4
      <4>2. all'[j] = all[j] /\ j \in 1..(i - 1)
        BY <1>3, <3>1
      <4> QED
        BY <4>1, <4>2
    <3>5. CASE p > Seen
      <4>1. PICK y \in 1..Len(Page) : p = Seen + y /\ y < x
        <5>1. p - Seen \in 1..Len(Page) /\ p - Seen < x /\ p = Seen + (p - Seen)
          BY <1>2, <1>3, <1>8, <3>1, <3>3, <3>5
        <5> QED
          BY <5>1
      <4>2. all'[Len(all) + y].key = store[p] /\ Len(all) + y \in 1..(i - 1)
        <5>1. all'[Len(all) + y] = Page[y] /\ Page[y].key = store[p]
          BY <1>2, <1>3, <4>1
        <5>2. Len(all) + y \in 1..(i - 1)
          BY <1>3, <3>1, <4>1
        <5> QED
          BY <5>1, <5>2
      <4> QED
        BY <4>2
    <3> QED
      BY <1>2, <3>4, <3>5
  <2> QED
    BY <1>4, <2>1, <2>2
<1>9. NewestFirst'
  <2>1. /\ DOMAIN all' = 1..Len(all') /\ DOMAIN store' = 1..Len(store)
        /\ store' = store /\ before' = before
    BY <1>1, <1>3 DEF StoreInv
  <2> QED
    BY <1>8, <2>1 DEF NewestFirst
<1> QED
  BY <1>3, <1>5, <1>7, <1>9

\* The places of the list that a listing has seen hold as many keys as it has entries;
\* those it did not collect came since.
LEMMA RepeatsCount ==
  ASSUME NEW n \in Nat, NEW l \in Seq(Entry), NEW s \in Seq(Keys), NEW came \in SUBSET Keys,
         Len(l) = n, n <= Len(s),
         \A i, j \in 1..n : s[i] = s[j] => i = j,
         \A i \in 1..n : s[i] \in came \/ \E j \in 1..n : l[j].key = s[i]
  PROVE  n - Cardinality({l[i].key : i \in 1..n}) <= Cardinality(came)
<1> DEFINE listed == {l[i].key : i \in 1..n}
           f == [i \in 1..n |-> s[i]]
<1>1. listed \subseteq Keys
  <2>1. \A i \in 1..n : l[i] \in Entry
    OBVIOUS
  <2> QED
    BY <2>1 DEF Entry
<1>2. IsFiniteSet(listed) /\ IsFiniteSet(came) /\ IsFiniteSet(listed \cup came)
  BY <1>1, FS_Subset, FS_Union, KeysAssumption
<1>3. f \in Injection(1..n, listed \cup came)
  BY DEF Injection, IsInjective
<1> HIDE DEF listed, f
<1>4. n <= Cardinality(listed \cup came)
  <2>1. Cardinality(1..n) = n
    BY FS_Interval
  <2> QED
    BY <1>2, <1>3, <2>1, FS_Injection
<1>5. Cardinality(listed \cup came) =
        Cardinality(listed) + Cardinality(came) - Cardinality(listed \cap came)
  BY <1>2, FS_Union
<1>6. /\ Cardinality(listed) \in Nat /\ Cardinality(came) \in Nat
      /\ Cardinality(listed \cap came) \in Nat /\ Cardinality(listed \cup came) \in Nat
  <2>1. IsFiniteSet(listed \cap came)
    BY <1>2, FS_Subset
  <2> QED
    BY <1>2, <2>1, FS_CardinalityType
<1> QED
  BY <1>4, <1>5, <1>6 DEF listed

-----------------------------------------------------------------------------
(* Every step keeps the invariants.                                          *)

LEMMA StoreInvInit == Init => StoreInv
BY Ranks DEF Init, StoreInv

LEMMA StoreInvNext == StoreInv /\ [Next]_vars => StoreInv'
<1> SUFFICES ASSUME StoreInv, [Next]_vars PROVE StoreInv'
  OBVIOUS
<1>1. CASE UNCHANGED <<server, before>>
  BY <1>1 DEF server, StoreInv
<1>2. CASE KeyList
  BY <1>2, RankOrder DEF KeyList, server, StoreInv
<1>3. ASSUME NEW k \in Keys, Approve(k) \/ KeyRevoke(k) \/ KeyRetire(k) PROVE StoreInv'
  <2>1. PICK s \in StatusSet \ {"unknown"} : status' = [status EXCEPT ![k] = s] /\ Rank(status[k]) <= Rank(s)
    BY <1>3, Ranks DEF Approve, KeyRevoke, KeyRetire, StoreInv
  <2>2. UNCHANGED <<store, paged, before>> /\ status[k] # "unknown"
    BY <1>3 DEF Approve, KeyRevoke, KeyRetire, listing
  <2>3. \A l \in Keys : Rank(before[l]) <= Rank(status'[l])
    BY <2>1, RankOrder DEF StoreInv
  <2>4. \A l \in Keys : status'[l] = "unknown" <=> status[l] = "unknown"
    BY <2>1, <2>2 DEF StoreInv
  <2> QED
    BY <2>1, <2>2, <2>3, <2>4 DEF StoreInv
<1>4. ASSUME NEW k \in Keys, KeyRegister(k) PROVE StoreInv'
  <2>1. PICK s \in {"pending", "usable"} : status' = [status EXCEPT ![k] = s]
    BY <1>4 DEF KeyRegister
  <2>2. /\ UNCHANGED <<paged, before>> /\ status[k] = "unknown"
        /\ store' = <<k>> \o store
    BY <1>4 DEF KeyRegister, listing
  <2>3. /\ store' \in Seq(Keys) /\ Len(store') = Len(store) + 1 /\ Len(store) \in Nat
        /\ store'[1] = k /\ \A i \in 1..Len(store) : store'[i + 1] = store[i]
        /\ \A i \in 2..Len(store') : i - 1 \in 1..Len(store) /\ store'[i] = store[i - 1]
    BY <2>2 DEF StoreInv
  <2>4. \A i \in 1..Len(store) : store[i] # k
    BY <2>2 DEF StoreInv
  <2>5. \A i, j \in 1..Len(store') : store'[i] = store'[j] => i = j
    <3> SUFFICES ASSUME NEW i \in 1..Len(store'), NEW j \in 1..Len(store'), store'[i] = store'[j]
                 PROVE  i = j
      OBVIOUS
    <3>1. CASE i = 1 \/ j = 1
      <4>1. \A l \in 1..Len(store') : store'[l] = k => l = 1
        <5> SUFFICES ASSUME NEW l \in 2..Len(store') PROVE store'[l] # k
          BY <2>3
        <5> QED
          BY <2>3, <2>4
      <4> QED
        BY <2>3, <3>1, <4>1
    <3>2. CASE i # 1 /\ j # 1
      <4>1. store[i - 1] = store[j - 1] /\ i - 1 \in 1..Len(store) /\ j - 1 \in 1..Len(store)
        BY <2>3, <3>2
      <4>2. i - 1 = j - 1
        BY <4>1 DEF StoreInv
      <4> QED
        BY <4>2
    <3> QED
      BY <3>1, <3>2
  <2>6. ASSUME NEW l \in Keys
        PROVE  status'[l] # "unknown" <=> \E i \in 1..Len(store') : store'[i] = l
    <3>1. CASE l = k
      <4>1. status'[l] # "unknown"
        BY <2>1, <3>1 DEF StoreInv
      <4>2. 1 \in 1..Len(store') /\ store'[1] = l
        BY <2>3, <3>1
      <4> QED
        BY <4>1, <4>2
    <3>2. CASE l # k
      <4>1. status'[l] = status[l]
        BY <2>1, <3>2 DEF StoreInv
      <4>2. ASSUME NEW i \in 1..Len(store), store[i] = l
            PROVE  i + 1 \in 1..Len(store') /\ store'[i + 1] = l
        BY <2>3, <4>2
      <4>3. ASSUME NEW i \in 1..Len(store'), store'[i] = l
            PROVE  i - 1 \in 1..Len(store) /\ store[i - 1] = l
        BY <2>3, <3>2, <4>3
      <4>4. status[l] # "unknown" <=> \E i \in 1..Len(store) : store[i] = l
        BY DEF StoreInv
      <4> QED
        BY <4>1, <4>2, <4>3, <4>4
    <3> QED
      BY <3>1, <3>2
  <2>7. \A l \in Keys : Rank(before[l]) <= Rank(status'[l])
    <3>1. Rank(before[k]) <= 1 /\ before[k] \in StatusSet
      BY <2>2, Ranks DEF StoreInv
    <3>2. Rank(status'[k]) >= 2 /\ Rank(status'[k]) \in Int
      BY <2>1, Ranks DEF StoreInv
    <3>3. \A l \in Keys \ {k} : status'[l] = status[l]
      BY <2>1 DEF StoreInv
    <3>4. Rank(before[k]) \in Int
      BY <3>1, RankOrder
    <3> QED
      BY <3>1, <3>2, <3>3, <3>4 DEF StoreInv
  <2>8. status' \in [Keys -> StatusSet]
    BY <2>1, Ranks DEF StoreInv
  <2> QED
    BY <2>2, <2>3, <2>5, <2>6, <2>7, <2>8 DEF StoreInv
<1>5. CASE NextPage \/ Finish \/ Fail \/ UNCHANGED vars
  BY <1>1, <1>5 DEF NextPage, Finish, Fail, vars, server
<1> QED
  BY <1>2, <1>3, <1>4, <1>5 DEF Next

LEMMA NothingRepeats ==
  ASSUME NEW came \in SUBSET Keys
  PROVE  0 - Cardinality({}) <= Cardinality(came)
<1>1. Cardinality(came) \in Nat /\ Cardinality({}) = 0
  BY KeysAssumption, FS_Subset, FS_CardinalityType, FS_EmptySet
<1> QED
  BY <1>1

\* While nothing is read, only more keys come.
LEMMA RepeatsStay ==
  ASSUME StoreInv, ListInv, UNCHANGED <<all, before>>, StoreInv',
         \A k \in Keys : Rank(status[k]) <= Rank(status'[k])
  PROVE  NotAhead' /\ InOrder' /\ FewRepeats'
<1>1. ASSUME NEW k \in Keys
      PROVE  /\ Rank(status[k]) \in 1..5 /\ Rank(status'[k]) \in 1..5
             /\ status[k] # "unknown" => status'[k] # "unknown"
  BY RankOrder DEF StoreInv
<1>2. NotAhead'
  <2> SUFFICES ASSUME NEW i \in 1..Len(all)
               PROVE  Rank(all[i].status) <= Rank(status'[all[i].key])
    BY DEF NotAhead
  <2>1. all[i] \in Entry
    BY DEF ListInv
  <2>2. all[i].key \in Keys /\ all[i].status \in StatusSet
    BY <2>1 DEF Entry
  <2>3. Rank(all[i].status) <= Rank(status[all[i].key])
    BY DEF ListInv, NotAhead
  <2>4. Rank(all[i].status) \in Int
    BY <2>2, RankOrder
  <2> QED
    BY <1>1, <2>2, <2>3, <2>4
<1>3. InOrder'
  BY DEF ListInv, InOrder
<1>4. FewRepeats'
  <2>1. Came \subseteq Came' /\ IsFiniteSet(Came') /\ IsFiniteSet(Came)
    <3>1. Came \subseteq Came' /\ Came' \subseteq Keys
      BY <1>1 DEF Came
    <3> QED
      BY <3>1, KeysAssumption, FS_Subset
  <2>2. Cardinality(Came) <= Cardinality(Came') /\ Cardinality(Came) \in Nat
        /\ Cardinality(Came') \in Nat
    BY <2>1, FS_Subset, FS_CardinalityType
  <2>3. Listed \subseteq Keys
    <3>1. \A i \in 1..Len(all) : all[i] \in Entry
      BY DEF ListInv
    <3> QED
      BY <3>1 DEF Listed, Entry
  <2>4. Cardinality(Listed) \in Nat /\ Len(all) \in Nat
    BY <2>3, KeysAssumption, FS_Subset, FS_CardinalityType DEF ListInv
  <2>5. Listed' = Listed
    BY DEF Listed
  <2> QED
    BY <2>2, <2>4, <2>5 DEF ListInv, FewRepeats
<1> QED
  BY <1>2, <1>3, <1>4

LEMMA ListInvInit == Init => ListInv
<1> SUFFICES ASSUME Init PROVE ListInv
  OBVIOUS
<1>1. Cardinality(Keys) \in Nat /\ Pages(Cardinality(Keys)) \in Nat \ {0}
  BY KeysAssumption, FS_CardinalityType, PagesType
<1>2. store = <<>> /\ all = <<>> /\ pc = "idle" /\ page = 1
  BY DEF Init
<1>3. EveryKeyListed /\ NewestFirst /\ NotAhead /\ InOrder
  BY <1>2 DEF EveryKeyListed, NewestFirst, NotAhead, InOrder
<1>4. FewRepeats
  <2>1. Listed = {} /\ Len(all) = 0 /\ Came \in SUBSET Keys
    BY <1>2 DEF Listed, Came
  <2> QED
    BY <2>1, NothingRepeats DEF FewRepeats
<1> QED
  BY <1>1, <1>2, <1>3, <1>4 DEF ListInv

\* What happens at the API while the list is read.
LEMMA ListInvRegister ==
  ASSUME StoreInv, ListInv, NEW k \in Keys, KeyRegister(k)
  PROVE  ListInv'
<1>1. /\ UNCHANGED <<paged, pc, page, all, before>>
      /\ status[k] = "unknown" /\ store' = <<k>> \o store
  BY DEF KeyRegister, listing
<1>2. before[k] = "unknown"
  BY <1>1, RankOrder, Ranks DEF StoreInv
<1>3. /\ Len(store') = Len(store) + 1 /\ Len(store) \in Nat
      /\ DOMAIN store = 1..Len(store) /\ DOMAIN store' = 1..Len(store')
      /\ store'[1] = k
      /\ \A i \in 2..Len(store') : i - 1 \in 1..Len(store) /\ store'[i] = store[i - 1]
  BY <1>1 DEF StoreInv
<1>4. Seen \in Int /\ Seen' = Seen
  <2>1. page \in Nat
    BY StoreBounded, PagesType DEF ListInv
  <2> QED
    BY <1>1, <2>1, KeysAssumption DEF Seen
<1>5. ASSUME NEW i \in 1..Len(store'), i <= Seen, before[store'[i]] # "unknown", pc = "page"
      PROVE  Collected(store'[i])
  <2>1. i - 1 \in 1..Len(store) /\ store'[i] = store[i - 1] /\ i - 1 <= Seen
    BY <1>2, <1>3, <1>4, <1>5
  <2>2. Collected(store[i - 1])
    BY <1>5, <2>1 DEF ListInv
  <2> QED
    BY <2>1, <2>2
<1>6. ASSUME NEW i \in DOMAIN all, NEW p \in DOMAIN store', NEW q \in DOMAIN store',
             p < q, store'[q] = all[i].key,
             before[store'[p]] # "unknown", before[store'[q]] # "unknown"
      PROVE  \E j \in 1..(i - 1) : all[j].key = store'[p]
  <2>1. /\ p - 1 \in DOMAIN store /\ store'[p] = store[p - 1]
        /\ q - 1 \in DOMAIN store /\ store'[q] = store[q - 1]
        /\ p - 1 < q - 1
    BY <1>2, <1>3, <1>6
  <2> QED
    BY <1>6, <2>1 DEF ListInv, NewestFirst
<1>7. NewestFirst'
  BY <1>1, <1>6 DEF NewestFirst
<1>8. EveryKeyListed' /\ NotAhead' /\ InOrder' /\ FewRepeats'
  <2>1. StoreInv'
    BY StoreInvNext DEF Next
  <2>2. \A l \in Keys : Rank(status[l]) <= Rank(status'[l])
    <3>1. \A l \in Keys : status'[l] = status[l] \/ status[l] = "unknown"
      BY <1>1 DEF KeyRegister, StoreInv
    <3>2. \A l \in Keys : status'[l] \in StatusSet
      BY <2>1 DEF StoreInv
    <3>3. \A l \in Keys : Rank(status'[l]) \in 1..5 /\ Rank("unknown") = 1
      BY <3>2, RankOrder, Ranks
    <3> QED
      BY <3>1, <3>3
  <2>3. NotAhead' /\ InOrder' /\ FewRepeats'
    BY <1>1, <2>1, <2>2, RepeatsStay
  <2> QED
    BY <1>1, <2>3 DEF ListInv, EveryKeyListed
<1>9. (pc = "page" =>
         /\ \A i \in 1..Len(store) :
              i <= Seen /\ before[store[i]] # "unknown" => Collected(store[i])
         /\ Len(all) = Seen /\ Seen <= Len(store))'
  <2>1. pc = "page" => Len(all') = Seen' /\ Seen' <= Len(store')
    BY <1>1, <1>3, <1>4 DEF ListInv
  <2> QED
    BY <1>1, <1>4, <1>5, <2>1 DEF Collected
<1>10. /\ pc' \in {"idle", "page", "ok", "failed"}
       /\ page' \in 1..Pages(Cardinality(Keys))
       /\ all' \in Seq(Entry)
       /\ ~paged' => page' = 1
  BY <1>1 DEF ListInv
<1> QED
  BY <1>7, <1>8, <1>9, <1>10 DEF ListInv

LEMMA ListInvNextPage ==
  ASSUME StoreInv, ListInv, NextPage
  PROVE  ListInv'
<1>1. /\ pc = "page" /\ paged /\ page < LastPage
      /\ all' = Join(all, Page) /\ page' = page + 1
      /\ UNCHANGED <<server, pc, before>> /\ UNCHANGED <<store, paged>>
  BY DEF NextPage, Page, server
<1>2. /\ Len(store) \in Nat /\ Cardinality(Keys) \in Nat
      /\ Len(store) <= Cardinality(Keys)
      /\ page \in Nat \ {0}
  <2>1. /\ Len(store) \in Nat /\ Cardinality(Keys) \in Nat
        /\ Len(store) <= Cardinality(Keys)
    BY StoreBounded DEF StoreInv
  <2>2. Pages(Cardinality(Keys)) \in Nat
    BY <2>1, PagesType
  <2> QED
    BY <2>1, <2>2 DEF ListInv
<1>3. page' \in 1..Pages(Cardinality(Keys))
  BY <1>1, <1>2, PagesMonotone, PagesType DEF LastPage
<1>4. /\ all' \in Seq(Entry) /\ NotAhead' /\ InOrder' /\ NewestFirst'
      /\ Len(all') = Len(all) + Len(Page)
      /\ \A i \in 1..Len(store) :
           /\ before[store[i]] # "unknown"
           /\ i <= Seen \/ \E x \in 1..Len(Page) : i = Seen + x
           => Collected(store[i])'
  BY <1>1, PageJoined
<1>5. Seen' = page * PerPage /\ Seen \in Int
  BY <1>1, <1>2, KeysAssumption DEF Seen
<1>6. ASSUME NEW i \in 1..Len(store), i <= Seen', before[store[i]] # "unknown"
      PROVE  Collected(store[i])'
  <2>1. i <= Seen \/ \E x \in 1..Len(Page) : i = Seen + x
    BY <1>1, <1>2, <1>5, <1>6, PageIs
  <2> QED
    BY <1>4, <1>6, <2>1
<1>7. EveryKeyListed'
  BY <1>1 DEF EveryKeyListed
<1>8. Len(all') = Seen' /\ Seen' <= Len(store)
  <2>1. page * PerPage \in Nat /\ Seen = page * PerPage - PerPage
    BY <1>2, KeysAssumption DEF Seen
  <2>2. page * PerPage <= Len(store)
    BY <1>1, <1>2, PagesFull DEF LastPage
  <2>3. Len(Page) = PerPage
    BY <1>1, <1>2, <2>2, PageLength
  <2>4. Len(all) = Seen
    BY <1>1 DEF ListInv
  <2> QED
    BY <1>4, <1>5, <2>1, <2>2, <2>3, <2>4, KeysAssumption
<1>9. FewRepeats'
  <2>1. Came \in SUBSET Keys /\ Came' = Came
    BY <1>1 DEF Came, server
  <2>2. Listed' = {all'[i].key : i \in 1..Len(all')}
    BY DEF Listed
  <2>3. \A i \in 1..Len(all') : store[i] \in Came \/ \E j \in 1..Len(all') : all'[j].key = store[i]
    <3> SUFFICES ASSUME NEW i \in 1..Len(all'), store[i] \notin Came
                 PROVE  Collected(store[i])'
      BY <1>1 DEF Collected
    <3>1. i \in 1..Len(store) /\ i <= Seen'
      BY <1>2, <1>5, <1>8
    <3>2. store[i] \in Keys /\ status[store[i]] # "unknown"
      BY <3>1 DEF StoreInv
    <3>3. before[store[i]] # "unknown"
      BY <3>2 DEF Came
    <3> QED
      BY <1>6, <3>1, <3>3
  <2>4. /\ store \in Seq(Keys) /\ Len(all') \in Nat /\ Len(all') <= Len(store)
        /\ \A i, j \in 1..Len(all') : store[i] = store[j] => i = j
    BY <1>2, <1>4, <1>8 DEF StoreInv
  <2> QED
    BY <1>4, <2>1, <2>2, <2>3, <2>4, RepeatsCount DEF FewRepeats
<1> QED
  BY <1>1, <1>3, <1>4, <1>6, <1>7, <1>8, <1>9 DEF ListInv, Collected

LEMMA ListInvFinish ==
  ASSUME StoreInv, ListInv, Finish
  PROVE  ListInv'
<1>1. /\ pc = "page" /\ (~paged \/ page >= LastPage)
      /\ all' = Join(all, Page) /\ pc' = "ok"
      /\ UNCHANGED <<server, page, before>> /\ UNCHANGED <<store, paged>>
  BY DEF Finish, Page, server
<1>2. Len(store) \in Nat /\ page \in Nat \ {0}
  <2>1. Len(store) \in Nat /\ Cardinality(Keys) \in Nat
    BY StoreBounded DEF StoreInv
  <2>2. Pages(Cardinality(Keys)) \in Nat
    BY <2>1, PagesType
  <2> QED
    BY <2>1, <2>2 DEF ListInv
<1>3. /\ all' \in Seq(Entry) /\ NotAhead' /\ InOrder' /\ NewestFirst'
      /\ Len(all') = Len(all) + Len(Page)
      /\ \A i \in 1..Len(store) :
           /\ before[store[i]] # "unknown"
           /\ i <= Seen \/ \E x \in 1..Len(Page) : i = Seen + x
           => Collected(store[i])'
  BY <1>1, PageJoined
<1>4. paged => page * PerPage >= Len(store)
  BY <1>1, <1>2, PagesCover DEF LastPage
<1>5. Seen \in Int
  BY <1>2, KeysAssumption DEF Seen
<1>6. ASSUME NEW k \in Keys, before[k] # "unknown"
      PROVE  \E i \in DOMAIN all' : all'[i].key = k
  <2>1. status[k] # "unknown"
    BY <1>6, RankOrder, Ranks DEF StoreInv
  <2>2. PICK i \in 1..Len(store) : store[i] = k
    BY <2>1 DEF StoreInv
  <2>3. paged => i <= page * PerPage
    BY <1>2, <1>4, <2>2, KeysAssumption
  <2>4. i <= Seen \/ \E x \in 1..Len(Page) : i = Seen + x
    BY <1>2, <1>5, <2>3, PageIs DEF ListInv
  <2>5. Collected(store[i])'
    BY <1>3, <1>6, <2>2, <2>4
  <2> QED
    BY <1>1, <1>3, <2>2, <2>5 DEF Collected
<1>7. EveryKeyListed'
  BY <1>1, <1>6 DEF EveryKeyListed
<1>8. Len(all') <= Len(store)
  <2>1. /\ Len(Page) \in Nat /\ Seen \in Nat
        /\ \A x \in 1..Len(Page) : Seen + x \in 1..Len(store)
    BY <1>1, <1>2, PageIs DEF ListInv
  <2>2. Len(all) = Seen /\ Seen <= Len(store)
    BY <1>1 DEF ListInv
  <2>3. Len(Page) = 0 \/ Seen + Len(Page) \in 1..Len(store)
    BY <2>1
  <2> QED
    BY <1>2, <1>3, <2>1, <2>2, <2>3
<1>9. FewRepeats'
  <2>1. Came \in SUBSET Keys /\ Came' = Came
    BY <1>1 DEF Came, server
  <2>2. Listed' = {all'[i].key : i \in 1..Len(all')}
    BY DEF Listed
  <2>3. \A i \in 1..Len(all') : store[i] \in Came \/ \E j \in 1..Len(all') : all'[j].key = store[i]
    <3> SUFFICES ASSUME NEW i \in 1..Len(all'), store[i] \notin Came
                 PROVE  \E j \in DOMAIN all' : all'[j].key = store[i]
      BY <1>3
    <3>1. i \in 1..Len(store)
      BY <1>2, <1>3, <1>8
    <3>2. store[i] \in Keys /\ status[store[i]] # "unknown"
      BY <3>1 DEF StoreInv
    <3>3. before[store[i]] # "unknown"
      BY <3>2 DEF Came
    <3> QED
      BY <1>6, <3>2, <3>3
  <2>4. /\ store \in Seq(Keys) /\ Len(all') \in Nat
        /\ \A i, j \in 1..Len(all') : store[i] = store[j] => i = j
    BY <1>2, <1>3, <1>8 DEF StoreInv
  <2> QED
    BY <1>3, <1>8, <2>1, <2>2, <2>3, <2>4, RepeatsCount DEF FewRepeats
<1> QED
  BY <1>1, <1>3, <1>7, <1>9 DEF ListInv

LEMMA ListInvNext == StoreInv /\ ListInv /\ [Next]_vars => ListInv'
<1> SUFFICES ASSUME StoreInv, ListInv, [Next]_vars PROVE ListInv'
  OBVIOUS
<1> StoreInv'
  BY StoreInvNext
<1>1. ASSUME UNCHANGED <<store, paged, listing>>,
             \A k \in Keys : Rank(status[k]) <= Rank(status'[k])
      PROVE  ListInv'
  <2>1. NotAhead' /\ InOrder' /\ FewRepeats'
    BY <1>1, RepeatsStay DEF listing
  <2>2. UNCHANGED <<store, paged, pc, page, all, before>>
    BY <1>1 DEF listing
  <2> QED
    BY <2>1, <2>2 DEF ListInv, Collected, Seen, EveryKeyListed, NewestFirst
<1>2. CASE UNCHANGED vars
  <2>1. \A k \in Keys : status'[k] = status[k] /\ Rank(status[k]) \in Int
    BY <1>2, RankOrder DEF vars, StoreInv
  <2> QED
    BY <1>1, <1>2, <2>1 DEF vars, listing
<1>3. ASSUME NEW k \in Keys, Approve(k) \/ KeyRevoke(k) \/ KeyRetire(k) PROVE ListInv'
  <2>1. PICK s \in StatusSet : status' = [status EXCEPT ![k] = s] /\ Rank(status[k]) <= Rank(s)
    BY <1>3, Ranks DEF Approve, KeyRevoke, KeyRetire, StoreInv
  <2>2. \A l \in Keys : Rank(status[l]) \in Int
    BY RankOrder DEF StoreInv
  <2>3. \A l \in Keys : Rank(status[l]) <= Rank(status'[l])
    BY <2>1, <2>2 DEF StoreInv
  <2> QED
    BY <1>1, <1>3, <2>3 DEF Approve, KeyRevoke, KeyRetire
<1>4. ASSUME NEW k \in Keys, KeyRegister(k) PROVE ListInv'
  BY <1>4, ListInvRegister
<1>5. CASE KeyList \/ Fail
  <2>1. /\ UNCHANGED <<store, paged>> /\ all' = <<>>
        /\ pc' \in {"page", "failed"} /\ page' \in {1, page}
        /\ pc' = "page" => page' = 1
    BY <1>5 DEF KeyList, Fail, server
  <2>2. Pages(Cardinality(Keys)) \in Nat \ {0}
    BY StoreBounded, PagesType
  <2>3. pc' = "page" => Seen' = 0
    BY <2>1, KeysAssumption DEF Seen
  <2>4. EveryKeyListed' /\ NewestFirst' /\ NotAhead' /\ InOrder'
    BY <2>1 DEF EveryKeyListed, NewestFirst, NotAhead, InOrder
  <2>5. FewRepeats'
    <3>1. Listed' = {} /\ Len(all') = 0 /\ Came' \in SUBSET Keys
      BY <2>1 DEF Listed, Came
    <3> QED
      BY <3>1, NothingRepeats DEF FewRepeats
  <2>6. Len(all') = 0 /\ (pc' = "page" => Seen' <= Len(store'))
    BY <2>1, <2>3 DEF StoreInv
  <2> QED
    BY <2>1, <2>2, <2>3, <2>4, <2>5, <2>6 DEF ListInv
<1>6. CASE NextPage
  BY <1>6, ListInvNextPage
<1>7. CASE Finish
  BY <1>7, ListInvFinish
<1> QED
  BY <1>2, <1>3, <1>4, <1>5, <1>6, <1>7 DEF Next

-----------------------------------------------------------------------------
(* The theorems.                                                             *)

LEMMA KeysInvHolds == Spec => [](StoreInv /\ ListInv)
<1>1. Init => StoreInv /\ ListInv
  BY StoreInvInit, ListInvInit
<1>2. StoreInv /\ ListInv /\ [Next]_vars => StoreInv' /\ ListInv'
  BY StoreInvNext, ListInvNext
<1> QED
  BY <1>1, <1>2, PTL DEF Spec

\* The list, the statuses and the progress of a listing stay in their ranges; no
\* listing asks for a page beyond the last there can be.
THEOREM KeysTypeCorrect == Spec => []TypeOK
<1>1. StoreInv /\ ListInv => TypeOK
  BY DEF StoreInv, ListInv, TypeOK, Entry
<1> QED
  BY <1>1, KeysInvHolds, PTL

\* Whatever is registered between two pages, a listing that succeeds has every key
\* there was when it began (ListSigningKeys, client.go:278).
THEOREM NoKeyMissed == Spec => []EveryKeyListed
<1>1. ListInv => EveryKeyListed
  BY DEF ListInv
<1> QED
  BY <1>1, KeysInvHolds, PTL

\* Those keys come newest first (types.go:368).
THEOREM OrderKept == Spec => []NewestFirst
<1>1. ListInv => NewestFirst
  BY DEF ListInv
<1> QED
  BY <1>1, KeysInvHolds, PTL

\* Where keys come twice, as many were registered meanwhile as there are repeats, and
\* their later entries have not the older status (ListSigningKeys, client.go:278).
THEOREM RepeatsAreExplained == Spec => []RepeatsExplained
<1>1. ListInv => RepeatsExplained
  <2> SUFFICES ASSUME ListInv PROVE RepeatsExplained
    OBVIOUS
  <2>1. DOMAIN all = 1..Len(all)
    BY DEF ListInv
  <2>2. FewRepeats /\ InOrder
    BY DEF ListInv
  <2> QED
    BY <2>1, <2>2 DEF FewRepeats, InOrder, Listed, Came, RepeatsExplained
<1> QED
  BY <1>1, KeysInvHolds, PTL

-----------------------------------------------------------------------------
(* How far a listing has to go: what ListingEnds rests on beside fairness.   *)

\* The pages there can be, were every key registered while it runs.
PagesLeft == IF pc = "page" THEN Pages(Cardinality(Keys)) - page + 1 ELSE 0

PagesLeftFalls ==
  /\ NextPage \/ Finish \/ Fail => PagesLeft' < PagesLeft
  /\ ~KeyList => PagesLeft' <= PagesLeft

LEMMA PagesLeftType ==
  ASSUME ListInv
  PROVE  PagesLeft \in Nat /\ (pc = "page" => PagesLeft # 0)
<1>1. Pages(Cardinality(Keys)) \in Nat
  BY KeysAssumption, FS_CardinalityType, PagesType
<1> QED
  BY <1>1 DEF ListInv, PagesLeft

\* Keys that are registered between two pages do not keep a listing going: it asks
\* for no more pages than all keys can fill, each once, and only a new request
\* starts over (ListSigningKeys, client.go:278).
THEOREM ListingComesToAnEnd == Spec => [](PagesLeft \in Nat) /\ [][PagesLeftFalls]_vars
<1>1. ListInv => PagesLeft \in Nat
  BY PagesLeftType
<1>2. StoreInv /\ ListInv /\ [Next]_vars => [PagesLeftFalls]_vars
  <2> SUFFICES ASSUME ListInv, Next PROVE PagesLeftFalls
    OBVIOUS
  <2>1. PagesLeft \in Nat /\ (pc = "page" => PagesLeft # 0)
    BY PagesLeftType
  <2>2. Pages(Cardinality(Keys)) \in Nat /\ (pc = "page" => page \in Nat)
    BY KeysAssumption, FS_CardinalityType, PagesType DEF ListInv
  <2>3. NextPage => PagesLeft' < PagesLeft
    BY <2>2 DEF NextPage, PagesLeft
  <2>4. Finish \/ Fail => PagesLeft' < PagesLeft
    BY <2>1 DEF Finish, Fail, PagesLeft
  <2>5. ASSUME NEW k \in Keys, Approve(k) \/ KeyRegister(k) \/ KeyRevoke(k) \/ KeyRetire(k)
        PROVE  PagesLeft' = PagesLeft
    BY <2>5 DEF Approve, KeyRegister, KeyRevoke, KeyRetire, listing, PagesLeft
  <2>6. CASE NextPage
    <3>1. PagesLeft' = PagesLeft - 1
      BY <2>2, <2>6 DEF NextPage, PagesLeft
    <3> QED
      BY <2>1, <2>3, <2>6, <3>1 DEF PagesLeftFalls
  <2>7. CASE Finish \/ Fail
    <3>1. PagesLeft' = 0
      BY <2>7 DEF Finish, Fail, PagesLeft
    <3> QED
      BY <2>1, <2>4, <2>7, <3>1 DEF PagesLeftFalls
  <2> QED
    BY <2>1, <2>3, <2>4, <2>5, <2>6, <2>7 DEF Next, PagesLeftFalls
<1> QED
  BY <1>1, <1>2, KeysInvHolds, PTL DEF Spec
=============================================================================
