------------------------- MODULE StatusStoreProofs -------------------------
(***************************************************************************)
(* The status store keeps its rings in shape, implements the sliding       *)
(* window, marks just the checks that are down and reports every budget    *)
(* that fails, for every capacity, set of checks and threshold.            *)
(***************************************************************************)
EXTENDS StatusStore, SequenceTheorems, FiniteSetTheorems, WellFoundedInduction, TLAPS

(* The wrap-around of head without the modulus. *)
LEMMA NextHead ==
    ASSUME NEW h \in Nat, h < MaxHistory
    PROVE  (h + 1) % MaxHistory = IF h + 1 = MaxHistory THEN 0 ELSE h + 1
<1> USE MaxHistoryPositive
<1>1. CASE h + 1 = MaxHistory
  <2>1. \A n \in Nat \ {0} : n % n = 0 OBVIOUS
  <2> QED BY <1>1, <2>1
<1>2. CASE h + 1 # MaxHistory
  <2>1. \A n \in Nat \ {0}, k \in Nat : k < n => k % n = k OBVIOUS
  <2> QED BY <1>2, <2>1
<1> QED BY <1>1, <1>2

(* The entries of a ring from oldest to newest, by position: what ordered  *)
(* computes with two copies.                                               *)
LEMMA OrderedByPosition ==
    ASSUME NEW r, RingShape(r)
    PROVE  /\ Ordered(r) \in Seq(Entries)
           /\ Len(Ordered(r)) = Len(r.entries)
           /\ \A i \in 1 .. Len(r.entries) :
                Ordered(r)[i] = IF i + r.head <= Len(r.entries)
                                  THEN r.entries[i + r.head]
                                  ELSE r.entries[i + r.head - Len(r.entries)]
<1> USE MaxHistoryPositive
<1>1. r.entries \in Seq(Entries) /\ r.head \in Int BY DEF RingShape, Rings
<1>2. CASE ~r.full \/ r.head = 0
  BY <1>1, <1>2 DEF Ordered, RingShape
<1>3. CASE r.full /\ r.head # 0
  <2> DEFINE n == Len(r.entries)
             h == r.head
             a == SubSeq(r.entries, h + 1, n)
             b == SubSeq(r.entries, 1, h)
  <2>1. h \in 1 .. n - 1 /\ n \in Nat BY <1>1, <1>3 DEF RingShape
  <2>2. a \in Seq(Entries) /\ Len(a) = n - h
        /\ \A i \in 1 .. n - h : a[i] = r.entries[h + i]
    <3>1. \A i \in h + 1 .. n : r.entries[i] \in Entries BY <1>1, <2>1
    <3>2. h + 1 \in Int /\ n \in Int BY <2>1
    <3>3. /\ a \in Seq(Entries)
          /\ Len(a) = IF h + 1 <= n THEN n - (h + 1) + 1 ELSE 0
          /\ \A i \in 1 .. n - (h + 1) + 1 : a[i] = r.entries[(h + 1) + i - 1]
      BY <3>1, <3>2, SubSeqProperties
    <3> HIDE DEF a
    <3> QED BY <2>1, <3>3
  <2>3. b \in Seq(Entries) /\ Len(b) = h
        /\ \A i \in 1 .. h : b[i] = r.entries[i]
    BY <1>1, <2>1
  <2>4. Ordered(r) = a \o b BY <1>3 DEF Ordered
  <2> HIDE DEF a, b
  <2>5. a \o b \in Seq(Entries) /\ Len(a \o b) = n
    <3>1. a \o b \in Seq(Entries) /\ Len(a \o b) = Len(a) + Len(b)
      BY <2>2, <2>3, ConcatProperties
    <3> QED BY <2>1, <2>2, <2>3, <3>1
  <2>6. ASSUME NEW i \in 1 .. n
        PROVE  (a \o b)[i] = IF i + h <= n THEN r.entries[i + h]
                                            ELSE r.entries[i + h - n]
    <3>1. (a \o b)[i] = IF i <= Len(a) THEN a[i] ELSE b[i - Len(a)]
      BY <2>1, <2>2, <2>3
    <3>2. CASE i + h <= n
      <4>1. i \in 1 .. n - h BY <2>1, <3>2
      <4> QED BY <2>1, <2>2, <3>1, <3>2, <4>1
    <3>3. CASE ~(i + h <= n)
      <4>1. i - (n - h) \in 1 .. h /\ i - (n - h) = i + h - n BY <2>1, <3>3
      <4>2. ~(i <= Len(a)) BY <2>1, <2>2, <3>3
      <4> QED BY <2>2, <2>3, <3>1, <3>3, <4>1, <4>2
    <3> QED BY <3>2, <3>3
  <2> QED BY <2>4, <2>5, <2>6
<1> QED BY <1>2, <1>3

(* push keeps the shape of the ring. *)
LEMMA PushKeepsShape ==
    ASSUME NEW r, RingShape(r), NEW e \in Entries
    PROVE  RingShape(RingPush(r, e))
<1> USE MaxHistoryPositive DEF RingShape, Rings
<1>1. CASE Len(r.entries) < MaxHistory
  <2>1. RingPush(r, e) = [entries |-> Append(r.entries, e),
                          head |-> r.head, full |-> r.full]
    BY <1>1 DEF RingPush
  <2>2. /\ Append(r.entries, e) \in Seq(Entries)
        /\ Len(Append(r.entries, e)) = Len(r.entries) + 1
    OBVIOUS
  <2>3. Len(r.entries) \in Nat OBVIOUS
  <2> QED BY <1>1, <2>1, <2>2, <2>3
<1>2. CASE Len(r.entries) = MaxHistory
  <2> DEFINE h == (r.head + 1) % MaxHistory
             x == [r.entries EXCEPT ![r.head + 1] = e]
  <2>1. RingPush(r, e) = [entries |-> x, head |-> h, full |-> TRUE]
    BY <1>2 DEF RingPush
  <2>2. x \in Seq(Entries) /\ Len(x) = Len(r.entries)
    BY <1>2
  <2>3. h \in Int /\ h >= 0 /\ h < MaxHistory
    BY NextHead
  <2> HIDE DEF h, x
  <2> QED BY <1>2, <2>1, <2>2, <2>3
<1>3. Len(r.entries) \in Nat OBVIOUS
<1> QED BY <1>1, <1>2, <1>3

(* push slides the ordered view by one entry. *)
LEMMA PushSlides ==
    ASSUME NEW r, RingShape(r), NEW e \in Entries
    PROVE  Ordered(RingPush(r, e)) = H!Slide(Ordered(r), e)
<1> USE MaxHistoryPositive
<1> DEFINE p == RingPush(r, e)
           n == Len(r.entries)
           o == Ordered(r)
           s == H!Slide(o, e)
<1>1. RingShape(p) BY PushKeepsShape
<1>2. /\ r.entries \in Seq(Entries) /\ r.head \in Nat /\ r.head < MaxHistory
      /\ n \in Nat /\ n <= MaxHistory
  BY DEF RingShape, Rings
<1>3. /\ o \in Seq(Entries) /\ Len(o) = n
      /\ \A i \in 1 .. n : o[i] = IF i + r.head <= n
                                   THEN r.entries[i + r.head]
                                   ELSE r.entries[i + r.head - n]
  BY OrderedByPosition
<1>4. /\ Ordered(p) \in Seq(Entries) /\ Len(Ordered(p)) = Len(p.entries)
      /\ \A i \in 1 .. Len(p.entries) :
            Ordered(p)[i] = IF i + p.head <= Len(p.entries)
                              THEN p.entries[i + p.head]
                              ELSE p.entries[i + p.head - Len(p.entries)]
  BY <1>1, OrderedByPosition
<1>5. CASE n < MaxHistory
  <2>1. p = [entries |-> Append(r.entries, e), head |-> r.head, full |-> r.full]
    BY <1>5 DEF RingPush, RingShape, Rings
  <2>2. r.full = FALSE /\ r.head = 0 BY <1>2, <1>5 DEF RingShape, Rings
  <2>3. Ordered(p) = Append(r.entries, e) BY <2>1, <2>2 DEF Ordered
  <2>4. o = r.entries BY <2>2 DEF Ordered
  <2>5. s = Append(o, e) BY <1>3, <1>5 DEF H!Slide
  <2> QED BY <2>3, <2>4, <2>5
<1>6. CASE n = MaxHistory
  <2> DEFINE x == [r.entries EXCEPT ![r.head + 1] = e]
  <2>1. /\ p.entries = x /\ p.head = IF r.head + 1 = n THEN 0 ELSE r.head + 1
    BY <1>2, <1>6, NextHead DEF RingPush
  <2>2. /\ x \in Seq(Entries) /\ Len(x) = n
        /\ x[r.head + 1] = e
        /\ \A i \in 1 .. n : i # r.head + 1 => x[i] = r.entries[i]
    BY <1>2, <1>6
  <2>3. s = Append(Tail(o), e) BY <1>3, <1>6 DEF H!Slide
  <2>4. /\ Tail(o) \in Seq(Entries) /\ Len(Tail(o)) = n - 1
        /\ \A i \in 1 .. n - 1 : Tail(o)[i] = o[i + 1]
    BY <1>2, <1>3, <1>6
  <2>5. /\ s \in Seq(Entries) /\ Len(s) = n
        /\ \A i \in 1 .. n : s[i] = IF i < n THEN o[i + 1] ELSE e
    <3>1. /\ s \in Seq(Entries) /\ Len(s) = Len(Tail(o)) + 1
          /\ \A i \in 1 .. Len(s) : s[i] = IF i <= Len(Tail(o)) THEN Tail(o)[i] ELSE e
      BY <2>3, <2>4, AppendProperties
    <3> HIDE DEF s, o
    <3> QED BY <1>2, <2>4, <3>1
  <2> HIDE DEF x, o, s, p
  <2>6. ASSUME NEW i \in 1 .. n PROVE Ordered(p)[i] = s[i]
    <3>1. Ordered(p)[i] = IF i + p.head <= n THEN x[i + p.head]
                                             ELSE x[i + p.head - n]
      BY <1>4, <2>1, <2>2
    <3>2. CASE i = n
      <4>1. Ordered(p)[i] = x[r.head + 1]
        BY <1>2, <2>1, <3>1, <3>2
      <4> QED BY <1>2, <2>2, <2>5, <3>2, <4>1
    <3>3. CASE i < n
      <4>1. s[i] = IF i + 1 + r.head <= n THEN r.entries[i + 1 + r.head]
                                          ELSE r.entries[i + 1 + r.head - n]
        <5>1. i + 1 \in 1 .. n /\ (i + 1) + r.head = i + 1 + r.head
          BY <1>2, <3>3
        <5>2. s[i] = o[i + 1] BY <2>5, <3>3
        <5> DEFINE j == i + 1
        <5>3. j \in 1 .. n BY <5>1
        <5> HIDE DEF j
        <5>4. o[j] = IF j + r.head <= n THEN r.entries[j + r.head]
                                        ELSE r.entries[j + r.head - n]
          BY <1>3, <5>3
        <5> QED BY <5>2, <5>4 DEF j
      <4>2. CASE i + 1 + r.head <= n
        <5>1. i + 1 + r.head \in 1 .. n /\ i + 1 + r.head # r.head + 1
          BY <1>2, <4>2
        <5>2. Ordered(p)[i] = x[i + 1 + r.head]
          <6>1. p.head = r.head + 1 BY <1>2, <2>1, <4>2
          <6>2. i + p.head = i + 1 + r.head BY <1>2, <6>1
          <6> QED BY <3>1, <4>2, <6>2
        <5> QED BY <2>2, <4>1, <4>2, <5>1, <5>2
      <4>3. CASE ~(i + 1 + r.head <= n)
        <5>1. i + 1 + r.head - n \in 1 .. n /\ i + 1 + r.head - n # r.head + 1
          BY <1>2, <1>6, <3>3, <4>3
        <5>2. Ordered(p)[i] = x[i + 1 + r.head - n]
          <6>1. CASE r.head + 1 = n
            <7>1. p.head = 0 BY <1>2, <2>1, <6>1
            <7>2. i + p.head <= n /\ i + p.head = i + 1 + r.head - n
              BY <1>2, <3>3, <6>1, <7>1
            <7> QED BY <3>1, <7>2
          <6>2. CASE r.head + 1 # n
            <7>1. p.head = r.head + 1 BY <1>2, <2>1, <6>2
            <7>2. ~(i + p.head <= n) /\ i + p.head - n = i + 1 + r.head - n
              BY <1>2, <4>3, <7>1
            <7> QED BY <3>1, <7>2
          <6> QED BY <6>1, <6>2
        <5> QED BY <2>2, <4>1, <4>3, <5>1, <5>2
      <4> QED BY <4>2, <4>3
    <3> QED BY <1>2, <3>2, <3>3
  <2>7. Len(Ordered(p)) = n BY <1>4, <2>1, <2>2
  <2> QED BY <1>4, <2>5, <2>6, <2>7, SeqEqual DEF p, s, o
<1> QED BY <1>2, <1>5, <1>6

(* A restart rebuilds a well-shaped ring with the history that was saved. *)
LEMMA ReloadKeepsView ==
    ASSUME NEW s \in Seq(Entries), Len(s) <= MaxHistory
    PROVE  RingShape(Reloaded(s)) /\ Ordered(Reloaded(s)) = s
<1> USE MaxHistoryPositive
<1>1. Ordered(Reloaded(s)) = s BY DEF Reloaded, Ordered
<1>2. RingShape(Reloaded(s)) BY DEF Reloaded, RingShape, Rings
<1> QED BY <1>1, <1>2

(* An empty ring is a ring. *)
LEMMA EmptyRingShape == RingShape(EmptyRing) /\ Ordered(EmptyRing) = <<>>
BY MaxHistoryPositive DEF EmptyRing, RingShape, Rings, Ordered

-----------------------------------------------------------------------------
(* The invariant the theorems share: the types of what is in memory, of    *)
(* what a save is writing and of what is on disk.                          *)

Histories == {h \in Seq(Entries) : Len(h) <= MaxHistory}

IsImage(x) ==
    /\ x = [known |-> x.known, order |-> x.order, entries |-> x.entries, down |-> x.down,
            count |-> x.count]
    /\ x.known \subseteq Keys
    /\ x.entries \in [Keys -> Histories]
    /\ x.count \in [Names -> Nat]

Storage ==
    /\ known \subseteq Keys
    /\ rings \in [Keys -> Rings] /\ RingsOK
    /\ count \in [Names -> Nat] /\ busy \in Names
    /\ IsImage(image) /\ IsImage(disk)

(* Every view is a history. *)
LEMMA ViewIsHistory ==
    ASSUME Storage, NEW k \in Keys
    PROVE  View(k) \in Histories /\ Len(View(k)) = Len(rings[k].entries)
<1>1. RingShape(rings[k]) BY DEF Storage, RingsOK
<1> QED BY <1>1, OrderedByPosition DEF View, Histories, RingShape

LEMMA NoImageIsImage == IsImage(NoImage)
<1>1. <<>> \in Histories BY MaxHistoryPositive DEF Histories
<1> QED BY <1>1 DEF NoImage, IsImage

(* A push under a save leaves an image, whichever element the save sees. *)
LEMMA PushKeepsImage ==
    ASSUME Storage, NEW k \in Keys, NEW e \in Entries, Push(k, e)
    PROVE  /\ IsImage(image')
           /\ image'.known = image.known /\ image'.down = image.down
           /\ image'.order = image.order
           /\ \A j \in Keys \ {k} : image'.entries[j] = image.entries[j]
           /\ Len(image'.entries[k]) = Len(image.entries[k])
           /\ image'.entries[k] # image.entries[k] =>
                 /\ Overwrites(k)
                 /\ \A i \in 1 .. Len(image.entries[k]) :
                       i # rings[k].head + 1 => image'.entries[k][i] = image.entries[k][i]
<1>1. CASE image' = image BY <1>1 DEF Storage
<1>2. CASE /\ Overwrites(k)
           /\ image' = [image EXCEPT !.entries[k][rings[k].head + 1] = e]
  <2> DEFINE h == image.entries[k]
             g == [h EXCEPT ![rings[k].head + 1] = e]
  <2>1. IsImage(image) /\ h \in Seq(Entries) /\ Len(h) <= MaxHistory
    BY DEF Storage, IsImage, Histories
  <2>2. rings[k].head \in Nat /\ rings[k].head + 1 \in 1 .. Len(h)
    BY <1>2, <2>1 DEF Overwrites, Storage, RingsOK, RingShape, Rings
  <2>3. /\ g \in Seq(Entries) /\ Len(g) = Len(h)
        /\ \A i \in 1 .. Len(h) : i # rings[k].head + 1 => g[i] = h[i]
    BY <2>1, <2>2
  <2>4. g \in Histories BY <2>1, <2>3 DEF Histories
  <2>5. /\ image'.entries = [image.entries EXCEPT ![k] = g]
        /\ image'.known = image.known /\ image'.order = image.order
        /\ image'.down = image.down /\ image'.count = image.count
        /\ image' = [known |-> image.known, order |-> image.order,
                     entries |-> [image.entries EXCEPT ![k] = g], down |-> image.down,
                     count |-> image.count]
    BY <1>2, <2>1 DEF IsImage
  <2> HIDE DEF g
  <2>6. image'.entries \in [Keys -> Histories] BY <2>1, <2>4, <2>5 DEF IsImage
  <2>7. IsImage(image') BY <2>1, <2>5, <2>6 DEF IsImage
  <2>8. image'.entries[k] = g /\ \A j \in Keys \ {k} : image'.entries[j] = image.entries[j]
    BY <2>1, <2>5 DEF IsImage
  <2> QED BY <1>2, <2>3, <2>5, <2>7, <2>8
<1> QED BY <1>1, <1>2 DEF Push

LEMMA StorageInit == Init => Storage
<1> SUFFICES ASSUME Init PROVE Storage OBVIOUS
<1>1. rings = [k \in Keys |-> EmptyRing] BY DEF Init
<1>2. EmptyRing \in Rings BY EmptyRingShape DEF RingShape
<1>3. rings \in [Keys -> Rings] /\ RingsOK BY <1>1, <1>2, EmptyRingShape DEF RingsOK
<1>4. IsImage(image) /\ IsImage(disk) BY NoImageIsImage DEF Init
<1>5. count \in [Names -> Nat] BY DEF Init
<1> QED BY <1>3, <1>4, <1>5 DEF Init, Storage

LEMMA PushKeepsStorage ==
    ASSUME Storage, NEW k \in Keys, NEW e \in Entries, Push(k, e)
    PROVE  Storage'
<1>1. RingShape(RingPush(rings[k], e)) BY PushKeepsShape DEF Storage, RingsOK
<1>2. rings' = [rings EXCEPT ![k] = RingPush(rings[k], e)] BY DEF Push
<1>3. rings' \in [Keys -> Rings] BY <1>1, <1>2 DEF Storage, RingShape
<1>4. RingsOK' BY <1>1, <1>2 DEF Storage, RingsOK
<1>5. IsImage(image)' BY PushKeepsImage
<1>6. IsImage(disk)' BY DEF Storage, Push
<1>7. known' \subseteq Keys /\ busy' \in Names /\ count' \in [Names -> Nat]
  BY DEF Push, Storage, Names
<1> QED BY <1>3, <1>4, <1>5, <1>6, <1>7 DEF Storage

LEMMA SaveKeepsStorage ==
    ASSUME Storage, SaveRings \/ SaveBudgets \/ SaveEnds
    PROVE  Storage'
<1>1. UNCHANGED <<known, rings, count, busy>> BY DEF SaveRings, SaveBudgets, SaveEnds, store
<1>2. IsImage(image') /\ IsImage(disk')
  <2>1. CASE SaveRings
    <3>1. /\ image' = [known |-> known, order |-> order, entries |-> [k \in Keys |-> View(k)],
                       down |-> down, count |-> [n \in Names |-> 0]]
          /\ disk' = disk
      BY <2>1 DEF SaveRings
    <3>2. [k \in Keys |-> View(k)] \in [Keys -> Histories] BY ViewIsHistory
    <3> QED BY <3>1, <3>2 DEF Storage, IsImage
  <2>2. CASE SaveBudgets
    <3>1. image' = [image EXCEPT !.count = count] /\ disk' = disk BY <2>2 DEF SaveBudgets
    <3> QED BY <3>1 DEF Storage, IsImage
  <2>3. CASE SaveEnds
    <3>1. disk' \in {disk, image} /\ image' = NoImage BY <2>3 DEF SaveEnds
    <3> QED BY <3>1, NoImageIsImage DEF Storage
  <2> QED BY <2>1, <2>2, <2>3
<1> QED BY <1>1, <1>2 DEF Storage, RingsOK

LEMMA RestartKeepsStorage ==
    ASSUME Storage, Restart
    PROVE  Storage'
<1> PICK active \in Active : Reconcile(active) BY DEF Restart
<1> DEFINE gone == {disk.order[i] : i \in DOMAIN disk.order} \ active
<1>1. ASSUME NEW k \in Keys
      PROVE  RingShape(IF k \in disk.known \ gone
                         THEN Reloaded(disk.entries[k]) ELSE EmptyRing)
  <2>1. disk.entries[k] \in Seq(Entries) /\ Len(disk.entries[k]) <= MaxHistory
    BY DEF Storage, IsImage, Histories
  <2> QED BY <2>1, ReloadKeepsView, EmptyRingShape
<1>2. rings' = [k \in Keys |-> IF k \in disk.known \ gone
                                 THEN Reloaded(disk.entries[k]) ELSE EmptyRing]
  BY DEF Reconcile
<1>3. \A k \in Keys : RingShape(rings'[k]) BY <1>1, <1>2
<1>4. rings' \in [Keys -> Rings] BY <1>1, <1>2 DEF RingShape
<1>5. known' \subseteq Keys BY DEF Reconcile, Storage, IsImage
<1>6. count' \in [Names -> Nat] BY DEF Reconcile, Storage, IsImage
<1>7. busy' = busy /\ image' = NoImage /\ disk' = disk BY DEF Restart
<1> QED BY <1>3, <1>4, <1>5, <1>6, <1>7, NoImageIsImage DEF Storage, RingsOK

LEMMA StorageStep == Storage /\ [Next]_vars => Storage'
<1> SUFFICES ASSUME Storage, [Next]_vars PROVE Storage' OBVIOUS
<1>1. ASSUME NEW k \in Keys, NEW e \in Entries, Push(k, e) PROVE Storage'
  BY <1>1, PushKeepsStorage
<1>2. CASE RecordBudgetCheck
  <2>1. UNCHANGED <<known, rings, busy, image, disk>>
    BY <1>2 DEF RecordBudgetCheck, saving
  <2>2. count' \in [Names -> Nat] BY <1>2 DEF RecordBudgetCheck, Storage
  <2> QED BY <2>1, <2>2 DEF Storage, RingsOK
<1>3. CASE Announce
  BY <1>3 DEF Announce, store, saving, Storage, RingsOK
<1>4. ASSUME NEW r \in Readers, Snapshot(r) \/ SnapshotStore(r) PROVE Storage'
  BY <1>4 DEF Snapshot, SnapshotStore, store, saving, Storage, RingsOK
<1>5. CASE SnapshotExpires
  BY <1>5 DEF SnapshotExpires, store, saving, Storage, RingsOK
<1>6. CASE SaveRings \/ SaveBudgets \/ SaveEnds BY <1>6, SaveKeepsStorage
<1>7. CASE Restart BY <1>7, RestartKeepsStorage
<1>8. CASE UNCHANGED vars BY <1>8 DEF vars, store, saving, Storage, RingsOK
<1> QED BY <1>1, <1>2, <1>3, <1>4, <1>5, <1>6, <1>7, <1>8 DEF Next

(* Memory, the image of a save and the file stay well-formed. *)
THEOREM StorageInvariant == Spec => []Storage
BY StorageInit, StorageStep, PTL DEF Spec

(* No index into a ring is ever out of bounds: rings keep their shape      *)
(* through pushes, saves and restarts (store.go 185-206).                  *)
THEOREM RingsInvariant == Spec => []RingsOK
<1>1. Storage => RingsOK BY DEF Storage
<1> QED BY <1>1, StorageInvariant, PTL

-----------------------------------------------------------------------------

(* Between two starts, the ordered histories of the store are the sliding  *)
(* windows of what was pushed (store.go 185-206, 293-345).                 *)
THEOREM StoreImplementsWindow == Spec => ImplementsWindow
<1>1. Init => H!Init
  BY EmptyRingShape DEF Init, H!Init, View
<1>2. Storage /\ Storage' /\ [Next]_vars =>
         [H!Next]_<<[k \in Keys |-> View(k)], restarts>>
  <2> SUFFICES ASSUME Storage, Storage', [Next]_vars
               PROVE  [H!Next]_<<[k \in Keys |-> View(k)], restarts>>
    OBVIOUS
  <2>1. ASSUME NEW k \in Keys, NEW e \in Entries, Push(k, e) PROVE H!Next
    <3>1. rings' = [rings EXCEPT ![k] = RingPush(rings[k], e)] /\ restarts' = restarts
      BY <2>1 DEF Push
    <3>2. View(k)' = H!Slide(View(k), e)
      BY <3>1, PushSlides DEF Storage, RingsOK, View
    <3>3. \A j \in Keys \ {k} : View(j)' = View(j) BY <3>1 DEF Storage, View
    <3>4. [j \in Keys |-> View(j)]'
             = [[j \in Keys |-> View(j)] EXCEPT ![k] = H!Slide([j \in Keys |-> View(j)][k], e)]
      BY <3>2, <3>3
    <3> QED BY <3>1, <3>4 DEF H!Next, H!Push
  <2>2. CASE Restart
    <3>1. restarts' = restarts + 1 BY <2>2 DEF Restart
    <3>2. \A k \in Keys : Len(View(k)') <= MaxHistory
      <4>1. ASSUME NEW k \in Keys PROVE Len(View(k)') <= MaxHistory
        <5>1. RingShape(rings'[k]) BY DEF Storage, RingsOK
        <5>2. Len(Ordered(rings'[k])) = Len(rings'[k].entries) BY <5>1, OrderedByPosition
        <5> QED BY <5>1, <5>2 DEF View, RingShape
      <4> QED BY <4>1
    <3>3. DOMAIN [k \in Keys |-> View(k)]' = Keys OBVIOUS
    <3>4. \A k \in Keys : Len([j \in Keys |-> View(j)]'[k]) <= MaxHistory BY <3>2
    <3> QED BY <3>1, <3>3, <3>4 DEF H!Next, H!Restart
  <2>3. ASSUME UNCHANGED <<rings, restarts>>
        PROVE  UNCHANGED <<[k \in Keys |-> View(k)], restarts>>
    BY <2>3 DEF View
  <2>4. \/ \E k \in Keys, e \in Entries : Push(k, e)
        \/ Restart
        \/ UNCHANGED <<rings, restarts>>
    BY DEF Next, RecordBudgetCheck, Announce, Snapshot, SnapshotStore, SnapshotExpires,
           SaveRings, SaveBudgets, SaveEnds, vars, store
  <2> QED BY <2>1, <2>2, <2>3, <2>4
<1> QED BY <1>1, <1>2, StorageInvariant, PTL DEF Spec, ImplementsWindow, H!Spec

-----------------------------------------------------------------------------

LEMMA ReportedStep == Storage /\ FailReported /\ [Next]_vars => FailReported'
<1> SUFFICES ASSUME Storage, FailReported, [Next]_vars PROVE FailReported' OBVIOUS
<1>1. ASSUME NEW k \in Keys, NEW e \in Entries, Push(k, e) PROVE FailReported'
  BY <1>1 DEF Push, FailReported
<1>2. CASE RecordBudgetCheck
  <2>1. PICK violated \in BOOLEAN :
          LET m == IF violated THEN count[busy] + 1 ELSE 0
          IN  /\ count' = [count EXCEPT ![busy] = m]
              /\ drain' = IF m = Threshold THEN "announce" ELSE "result"
              /\ reported' = IF violated THEN reported ELSE reported \ {busy}
    BY <1>2 DEF RecordBudgetCheck
  <2>2. busy' = busy /\ drain = "budget" BY <1>2 DEF RecordBudgetCheck
  <2>3. count \in [Names -> Nat] /\ busy \in Names /\ count[busy] \in Nat BY DEF Storage
  <2>4. ASSUME NEW n \in Names, count'[n] >= Threshold
        PROVE  n \in reported' \/ (drain' = "announce" /\ busy' = n)
    <3>1. CASE n # busy
      <4>1. count'[n] = count[n] /\ (n \in reported => n \in reported') BY <2>1, <2>3, <3>1
      <4> QED BY <2>2, <2>4, <4>1 DEF FailReported
    <3>2. CASE n = busy
      <4>1. violated /\ count'[n] = count[n] + 1 /\ reported' = reported
        BY <2>1, <2>3, <2>4, <3>2, ThresholdPositive
      <4>2. CASE count[n] + 1 = Threshold BY <2>1, <2>2, <3>2, <4>1, <4>2
      <4>3. CASE count[n] + 1 # Threshold
        <5>1. count[n] >= Threshold BY <2>3, <2>4, <3>2, <4>1, <4>3, ThresholdPositive
        <5> QED BY <2>2, <4>1, <5>1 DEF FailReported
      <4> QED BY <4>2, <4>3
    <3> QED BY <3>1, <3>2
  <2> QED BY <2>4 DEF FailReported
<1>3. CASE Announce
  <2>1. reported' = reported \cup {busy} /\ count' = count /\ busy' = busy
    BY <1>3 DEF Announce, store
  <2> QED BY <2>1 DEF FailReported
<1>4. CASE Restart
  <2>1. reported' = {n \in Names : count'[n] >= Threshold}
    BY <1>4 DEF Restart
  <2> QED BY <2>1 DEF FailReported
<1>5. CASE UNCHANGED <<count, reported, drain, busy>> BY <1>5 DEF FailReported
<1>6. \/ \E k \in Keys, e \in Entries : Push(k, e)
      \/ RecordBudgetCheck \/ Announce \/ Restart
      \/ UNCHANGED <<count, reported, drain, busy>>
  BY DEF Next, Snapshot, SnapshotStore, SnapshotExpires, SaveRings, SaveBudgets, SaveEnds,
         vars, store
<1> QED BY <1>1, <1>2, <1>3, <1>4, <1>5, <1>6

(* Every crossing of the threshold is reported to the notifier or comes    *)
(* from the file, for every threshold and however many checks share the    *)
(* counter (worker.go 186-191, store.go 345-367).  The notifier sends only *)
(* the first one of a metric, since nobody tells it of a recovery.         *)
THEOREM FailReportedInvariant == Spec => []FailReported
<1>1. Init => FailReported BY ThresholdPositive DEF Init, FailReported
<1> QED BY <1>1, ReportedStep, StorageInvariant, PTL DEF Spec

-----------------------------------------------------------------------------
(* Down marks: memory, image and file agree with their own histories.  The *)
(* image shares its array with a ring, and stays right because fewer than  *)
(* MaxHistory results come during a save: they overwrite older elements of *)
(* the array before they reach the newest one of the image.                *)

LastDown(h) == h # <<>> /\ h[Len(h)] = "down"

Marked(x) == \A k \in x.known : k \in x.down <=> LastDown(x.entries[k])

Tracked(k) ==
    /\ Len(image.entries[k]) <= Len(rings[k].entries)
    /\ Len(rings[k].entries) - Len(image.entries[k]) + rings[k].head <= racing

Marks ==
    /\ DownMarked /\ Marked(image) /\ Marked(disk)
    /\ live \subseteq Keys /\ racing \in Nat
    /\ saver # "idle" => \A k \in live : Tracked(k)

(* The newest element of a slid window is the one that was pushed. *)
LEMMA SlideLast ==
    ASSUME NEW w \in Seq(Entries), NEW e \in Entries
    PROVE  LastDown(H!Slide(w, e)) <=> e = "down"
<1> DEFINE v == IF Len(w) < MaxHistory THEN w ELSE Tail(w)
<1>1. v \in Seq(Entries)
  <2>1. CASE w = <<>> 
    <3>1. Len(w) = 0 BY <2>1
    <3> QED BY <2>1, <3>1, MaxHistoryPositive
  <2>2. CASE w # <<>> BY <2>2
  <2> QED BY <2>1, <2>2
<1>2. H!Slide(w, e) = Append(v, e) BY DEF H!Slide
<1> HIDE DEF v
<1>3. Append(v, e) # <<>> /\ Append(v, e)[Len(Append(v, e))] = e BY <1>1
<1> QED BY <1>2, <1>3 DEF LastDown

(* One more result, in the arithmetic of Tracked. *)
LEMMA OneMore ==
    ASSUME NEW a \in Nat, NEW b \in Nat, NEW h \in Nat, NEW r \in Nat, a - b + h <= r
    PROVE  /\ a - b + h <= r + 1
           /\ (a + 1) - b + h <= r + 1
           /\ a - b + (h + 1) <= r + 1
OBVIOUS

(* A push during a save moves the ring on by one. *)
LEMMA PushTracks ==
    ASSUME Storage, Marks, NEW k \in Keys, NEW e \in Entries, Push(k, e), saver # "idle",
           NEW j \in live
    PROVE  Tracked(j)'
<1> USE MaxHistoryPositive
<1>1. j \in Keys /\ Tracked(j) /\ racing \in Nat /\ racing' = racing + 1
      /\ racing + 1 < MaxHistory
  BY DEF Marks, Push
<1>2. rings' = [rings EXCEPT ![k] = RingPush(rings[k], e)] BY DEF Push
<1>3. /\ image.entries[j] \in Seq(Entries) /\ rings[j].entries \in Seq(Entries)
      /\ rings[j].head \in Nat /\ rings[j].head < MaxHistory
      /\ Len(rings[j].entries) <= MaxHistory
  BY <1>1 DEF Storage, IsImage, Histories, RingsOK, RingShape, Rings
<1>4. Len(image.entries[j]) \in Nat /\ Len(rings[j].entries) \in Nat BY <1>3
<1>5. Len(image'.entries[j]) = Len(image.entries[j])
  <2>1. CASE j = k BY <2>1, PushKeepsImage
  <2>2. CASE j # k BY <1>1, <2>2, PushKeepsImage
  <2> QED BY <2>1, <2>2
<1>6. /\ Len(image.entries[j]) <= Len(rings[j].entries)
      /\ Len(rings[j].entries) - Len(image.entries[j]) + rings[j].head <= racing + 1
      /\ (Len(rings[j].entries) + 1) - Len(image.entries[j]) + rings[j].head <= racing + 1
      /\ Len(rings[j].entries) - Len(image.entries[j]) + (rings[j].head + 1) <= racing + 1
  BY <1>1, <1>3, <1>4, OneMore DEF Tracked
<1>7. CASE j # k
  <2>1. rings'[j] = rings[j] BY <1>1, <1>2, <1>7 DEF Storage
  <2> QED BY <1>1, <1>5, <1>6, <2>1 DEF Tracked
<1>8. CASE j = k
  <2>1. rings'[j] = RingPush(rings[j], e) BY <1>1, <1>2, <1>8 DEF Storage
  <2>2. CASE Len(rings[j].entries) < MaxHistory
    <3>1. rings'[j] = [rings[j] EXCEPT !.entries = Append(@, e)] BY <2>1, <2>2 DEF RingPush
    <3>2. rings'[j].entries = Append(rings[j].entries, e) /\ rings'[j].head = rings[j].head
      BY <1>1, <3>1 DEF Storage, Rings
    <3>3. Len(rings'[j].entries) = Len(rings[j].entries) + 1 BY <1>3, <3>2
    <3>4. Len(image'.entries[j]) <= Len(rings'[j].entries)
      BY <1>4, <1>5, <1>6, <3>3
    <3>5. Len(rings'[j].entries) - Len(image'.entries[j]) + rings'[j].head <= racing'
      BY <1>1, <1>5, <1>6, <3>2, <3>3
    <3> QED BY <3>4, <3>5 DEF Tracked
  <2>3. CASE Len(rings[j].entries) = MaxHistory
    <3>1. rings[j].head + 1 < MaxHistory
      BY <1>1, <1>3, <1>4, <2>3 DEF Tracked
    <3>2. rings'[j] = [entries |-> [rings[j].entries EXCEPT ![rings[j].head + 1] = e],
                       head |-> (rings[j].head + 1) % MaxHistory, full |-> TRUE]
      BY <2>1, <2>3 DEF RingPush
    <3>3. (rings[j].head + 1) % MaxHistory = rings[j].head + 1
      BY <1>3, <3>1, NextHead
    <3>4. rings'[j].head = rings[j].head + 1 BY <3>2, <3>3
    <3>5. Len(rings'[j].entries) = MaxHistory BY <1>3, <2>3, <3>2
    <3>6. Len(image'.entries[j]) <= Len(rings'[j].entries)
      BY <1>5, <1>6, <2>3, <3>5
    <3>7. Len(rings'[j].entries) - Len(image'.entries[j]) + rings'[j].head <= racing'
      BY <1>1, <1>5, <1>6, <2>3, <3>4, <3>5
    <3> QED BY <3>6, <3>7 DEF Tracked
  <2> QED BY <1>3, <1>4, <2>2, <2>3
<1> QED BY <1>7, <1>8

(* ... and does not touch the newest element of the image. *)
LEMMA PushKeepsImageMarked ==
    ASSUME Storage, Marks, NEW k \in Keys, NEW e \in Entries, Push(k, e)
    PROVE  Marked(image')
<1> USE MaxHistoryPositive
<1> DEFINE h == image.entries[k]
           g == image'.entries[k]
<1>1. Marked(image) /\ image.known \subseteq Keys BY DEF Marks, Storage, IsImage
<1>2. h \in Seq(Entries) /\ g \in Seq(Entries) /\ Len(g) = Len(h)
  BY PushKeepsImage DEF Storage, IsImage, Histories
<1>3. LastDown(g) <=> LastDown(h)
  <2>1. CASE g = h BY <2>1
  <2>2. CASE g # h
    <3>1. Overwrites(k) /\ \A i \in 1 .. Len(h) : i # rings[k].head + 1 => g[i] = h[i]
      BY <2>2, PushKeepsImage
    <3>2. saver # "idle" /\ k \in live /\ racing + 1 < MaxHistory
      BY <3>1 DEF Overwrites, Push
    <3>3. Tracked(k) /\ racing \in Nat BY <3>2 DEF Marks
    <3>4. rings[k].head \in Nat BY DEF Storage, RingsOK, RingShape, Rings
    <3>5. Len(h) \in Nat /\ Len(rings[k].entries) = MaxHistory
      BY <1>2, <3>1 DEF Overwrites
    <3>6. Len(h) # rings[k].head + 1 BY <3>2, <3>3, <3>4, <3>5 DEF Tracked
    <3>7. Len(h) > 0 BY <3>1, <3>4, <3>5 DEF Overwrites
    <3>8. g[Len(h)] = h[Len(h)] BY <3>1, <3>5, <3>6, <3>7
    <3>9. g # <<>> /\ h # <<>> BY <1>2, <3>7
    <3> HIDE DEF g, h
    <3> QED BY <1>2, <3>8, <3>9 DEF LastDown
  <2> QED BY <2>1, <2>2
<1>4. \A j \in Keys : LastDown(image'.entries[j]) <=> LastDown(image.entries[j])
  BY <1>3, PushKeepsImage
<1>5. image'.known = image.known /\ image'.down = image.down BY PushKeepsImage
<1> QED BY <1>1, <1>4, <1>5 DEF Marked

LEMMA PushKeepsMarks ==
    ASSUME Storage, Marks, NEW k \in Keys, NEW e \in Entries, Push(k, e)
    PROVE  Marks'
<1>1. Marked(image)' BY PushKeepsImageMarked DEF Marked
<1>2. Marked(disk)' BY DEF Push, Marks, Marked
<1>3. live' = live /\ saver' = saver /\ racing' \in Nat BY DEF Push, Marks
<1>4. saver' # "idle" => \A j \in live' : Tracked(j)' BY <1>3, PushTracks
<1>5. DownMarked'
  <2>1. rings' = [rings EXCEPT ![k] = RingPush(rings[k], e)]
        /\ known' = known \cup {k}
        /\ down' = IF e = "down" THEN down \cup {k} ELSE down \ {k}
    BY DEF Push
  <2>2. View(k)' = H!Slide(View(k), e)
    BY <2>1, PushSlides DEF Storage, RingsOK, View
  <2>3. LastDown(View(k)') <=> e = "down"
    BY <2>2, SlideLast, ViewIsHistory DEF Histories
  <2>4. ASSUME NEW j \in known', j # k
        PROVE  j \in down' <=> LastDown(View(j)')
    <3>1. j \in known /\ j \in Keys BY <2>1, <2>4 DEF Storage
    <3>2. View(j)' = View(j) BY <2>1, <2>4, <3>1 DEF Storage, View
    <3> QED BY <2>1, <2>4, <3>1, <3>2 DEF Marks, DownMarked, LastDown
  <2>5. k \in down' <=> LastDown(View(k)') BY <2>1, <2>3
  <2>6. \A j \in known' : j \in down' <=> LastDown(View(j)') BY <2>4, <2>5
  <2> QED BY <2>6 DEF DownMarked, LastDown
<1> QED BY <1>1, <1>2, <1>3, <1>4, <1>5 DEF Marks

LEMMA MarksInit == Init => Marks
BY DEF Init, Marks, DownMarked, Marked, NoImage

LEMMA SaveRingsKeepsMarks ==
    ASSUME Storage, Marks, SaveRings
    PROVE  Marks'
<1>1. /\ image' = [known |-> known, order |-> order, entries |-> [k \in Keys |-> View(k)],
                   down |-> down, count |-> [n \in Names |-> 0]]
      /\ live' = {k \in known : Aliased(rings[k])} /\ racing' = 0
      /\ UNCHANGED <<known, rings, down, disk>>
  BY DEF SaveRings, store
<1>2. DownMarked' /\ Marked(disk)' BY <1>1 DEF Marks, DownMarked, Marked, View
<1>3. Marked(image)'
  BY <1>1 DEF Marks, DownMarked, Marked, LastDown, Storage
<1>4. live' \subseteq Keys BY <1>1 DEF Storage
<1>5. ASSUME NEW k \in live' PROVE Tracked(k)'
  <2>1. k \in Keys /\ Aliased(rings[k]) BY <1>1, <1>4
  <2>2. RingShape(rings[k]) BY <2>1 DEF Storage, RingsOK
  <2>3. rings[k].head = 0 BY <2>1, <2>2 DEF Aliased, RingShape
  <2>4. image'.entries[k] = View(k) /\ rings' = rings BY <1>1, <2>1
  <2>5. Len(View(k)) = Len(rings[k].entries) /\ Len(rings[k].entries) \in Nat
    BY <2>1, <2>2, ViewIsHistory DEF RingShape, Rings
  <2> QED BY <1>1, <2>3, <2>4, <2>5 DEF Tracked
<1> QED BY <1>1, <1>2, <1>3, <1>4, <1>5 DEF Marks

LEMMA RestartKeepsMarks ==
    ASSUME Storage, Marks, Restart
    PROVE  Marks'
<1> PICK active \in Active : Reconcile(active) BY DEF Restart
<1> DEFINE gone == {disk.order[i] : i \in DOMAIN disk.order} \ active
<1>1. /\ saver' = "idle" /\ image' = NoImage /\ live' = {} /\ racing' = 0 /\ disk' = disk
      /\ known' = disk.known \ gone /\ down' = disk.down \ gone
  BY DEF Restart, Reconcile
<1>2. ASSUME NEW k \in known' PROVE k \in down' <=> LastDown(View(k)')
  <2>1. k \in disk.known \ gone /\ k \in Keys BY <1>1 DEF Storage, IsImage
  <2>2. rings'[k] = Reloaded(disk.entries[k]) BY <2>1 DEF Reconcile
  <2>3. disk.entries[k] \in Seq(Entries) /\ Len(disk.entries[k]) <= MaxHistory
    BY <2>1 DEF Storage, IsImage, Histories
  <2>4. View(k)' = disk.entries[k] BY <2>2, <2>3, ReloadKeepsView DEF View
  <2> QED BY <1>1, <2>1, <2>4 DEF Marks, Marked
<1>3. DownMarked' BY <1>2 DEF DownMarked, LastDown
<1>4. Marked(image)' /\ Marked(disk)' BY <1>1 DEF Marked, NoImage, Marks
<1> QED BY <1>1, <1>3, <1>4 DEF Marks

LEMMA MarksStep == Storage /\ Marks /\ [Next]_vars => Marks'
<1> SUFFICES ASSUME Storage, Marks, [Next]_vars PROVE Marks' OBVIOUS
<1>1. ASSUME NEW k \in Keys, NEW e \in Entries, Push(k, e) PROVE Marks'
  BY <1>1, PushKeepsMarks
<1>2. CASE SaveRings BY <1>2, SaveRingsKeepsMarks
<1>3. CASE SaveBudgets
  <2>1. /\ image' = [image EXCEPT !.count = count]
        /\ UNCHANGED <<known, rings, down, live, racing, disk>>
        /\ saver # "idle"
    BY <1>3 DEF SaveBudgets, store
  <2>2. /\ image'.known = image.known /\ image'.down = image.down
        /\ image'.entries = image.entries
    BY <2>1 DEF Storage, IsImage
  <2>3. Marked(image)' /\ Marked(disk)' BY <2>1, <2>2 DEF Marks, Marked
  <2>4. DownMarked' BY <2>1 DEF Marks, DownMarked, View
  <2>5. \A k \in live' : Tracked(k)' BY <2>1, <2>2 DEF Marks, Tracked
  <2> QED BY <2>1, <2>3, <2>4, <2>5 DEF Marks
<1>4. CASE SaveEnds
  <2>1. /\ disk' \in {disk, image} /\ saver' = "idle" /\ image' = NoImage
        /\ live' = {} /\ racing' = 0 /\ UNCHANGED <<known, rings, down>>
    BY <1>4 DEF SaveEnds, store
  <2>2. Marked(image)' /\ Marked(disk)' BY <2>1 DEF Marks, Marked, NoImage
  <2>3. DownMarked' BY <2>1 DEF Marks, DownMarked, View
  <2> QED BY <2>1, <2>2, <2>3 DEF Marks
<1>5. CASE Restart BY <1>5, RestartKeepsMarks
<1>6. CASE UNCHANGED <<known, rings, down, saver, image, live, racing, disk>>
  BY <1>6 DEF Marks, DownMarked, Marked, View, Tracked
<1>7. \/ \E k \in Keys, e \in Entries : Push(k, e)
      \/ SaveRings \/ SaveBudgets \/ SaveEnds \/ Restart
      \/ UNCHANGED <<known, rings, down, saver, image, live, racing, disk>>
  BY DEF Next, RecordBudgetCheck, Announce, Snapshot, SnapshotStore, SnapshotExpires, vars,
         store, saving
<1> QED BY <1>1, <1>2, <1>3, <1>4, <1>5, <1>6, <1>7

(* A check is marked as down just if its latest result was a failure of    *)
(* the target, through restarts from a file that was written while results *)
(* came in (store.go 331-336, 660-722, 877-909).                           *)
THEOREM DownMarkedInvariant == Spec => []DownMarked
<1>1. Marks => DownMarked BY DEF Marks
<1> QED BY <1>1, MarksInit, MarksStep, StorageInvariant, PTL DEF Spec

-----------------------------------------------------------------------------

(* Banner, group badges and domain badges agree in every state (store.go   *)
(* 470-479, handler.go 103-123, 199-218).                                  *)
THEOREM SummariesInvariant == Spec => []SummariesAgree
<1>1. Storage => SummariesAgree
  <2> SUFFICES ASSUME Storage PROVE SummariesAgree OBVIOUS
  <2> DEFINE snap == computeSnapshot
             downs == With(snap, "down")
  <2>1. ASSUME NEW S \in SUBSET known PROVE groupStatus(snap, S) = domainStatus(snap, S)
    <3> DEFINE d == S \cap With(snap, "down")
               x == S \cap With(snap, "error")
    <3> HIDE DEF d, x
    <3>1. groupStatus(snap, S) =
            CASE d = {} /\ x = {} -> "up" [] d = {} /\ x # {} -> "error"
              [] d # {} /\ d = S -> "down" [] OTHER -> "degraded"
      BY DEF groupStatus, d, x
    <3>2. domainStatus(snap, S) =
            CASE d # {} -> IF d = S THEN "down" ELSE "degraded"
              [] d = {} /\ x # {} -> "error" [] OTHER -> "up"
      BY DEF domainStatus, d, x
    <3> QED BY <3>1, <3>2
  <2>2. downs \subseteq known
    BY DEF With, computeSnapshot, Status, Storage
  <2>3. Overall(snap) \in {"down", "degraded"} <=> downs # {}
    BY DEF Overall
  <2>4. \A S \in SUBSET known :
           groupStatus(snap, S) \in {"down", "degraded"} => S \cap downs # {}
    BY DEF groupStatus
  <2>5. downs # {} => groupStatus(snap, downs) \in {"down", "degraded"}
    BY DEF groupStatus
  <2> HIDE DEF snap, downs
  <2>6. Overall(snap) \in {"down", "degraded"} <=>
           \E S \in SUBSET known : groupStatus(snap, S) \in {"down", "degraded"}
    BY <2>2, <2>3, <2>4, <2>5
  <2> QED BY <2>1, <2>6 DEF SummariesAgree, snap
<1> QED BY <1>1, StorageInvariant, PTL

-----------------------------------------------------------------------------
(* s.order as an index of s.checks. *)

(* Induction over the naturals with a set in place of a predicate. *)
LEMMA LeastNatural ==
    ASSUME NEW T \in SUBSET Nat, T # {}
    PROVE  \E m \in T : \A n \in T : m <= n
<1> DEFINE R == OpToRel(<, Nat)
<1>1. PICK m \in T : \A n \in T : ~(<<n, m>> \in R)
  BY NatLessThanWellFounded, WFMin
<1>2. R = {p \in Nat \X Nat : p[1] < p[2]} BY DEF OpToRel
<1> HIDE DEF R
<1>3. \A n \in T : ~(<<n, m>> \in {p \in Nat \X Nat : p[1] < p[2]}) BY <1>1, <1>2
<1>4. \A n \in T : ~(n < m) BY <1>3
<1> QED BY <1>1, <1>4

LEMMA SetInduction ==
    ASSUME NEW S, 0 \in S, \A n \in Nat : n \in S => n + 1 \in S
    PROVE  Nat \subseteq S
<1> SUFFICES ASSUME Nat \ S # {} PROVE FALSE OBVIOUS
<1>1. PICK m \in Nat \ S : \A n \in Nat \ S : m <= n BY LeastNatural
<1>2. m - 1 \in Nat BY <1>1
<1> QED BY <1>1, <1>2

(* A sequence that lists every element of a set exactly once. *)
Lists(s, S) ==
    /\ s \in Seq(S)
    /\ {s[i] : i \in DOMAIN s} = S
    /\ \A i, j \in DOMAIN s : s[i] = s[j] => i = j

LEMMA ListsCount ==
    ASSUME NEW s, NEW S, Lists(s, S)
    PROVE  Len(s) = Cardinality(S)
<1>1. Len(s) \in Nat /\ s \in [1 .. Len(s) -> S] /\ DOMAIN s = 1 .. Len(s) BY DEF Lists
<1>2. s \in Bijection(1 .. Len(s), S)
  BY <1>1 DEF Lists, Bijection, Injection, Surjection, IsInjective
<1>3. ExistsBijection(1 .. Len(s), S) BY <1>2 DEF ExistsBijection
<1>4. IsFiniteSet(1 .. Len(s)) /\ Cardinality(1 .. Len(s)) = Len(s)
  BY <1>1, FS_Interval
<1> QED BY <1>3, <1>4, FS_Bijection

LEMMA ListsAppend ==
    ASSUME NEW s, NEW S, Lists(s, S), NEW x, x \notin S
    PROVE  Lists(Append(s, x), S \cup {x})
<1> DEFINE t == Append(s, x)
           n == Len(s)
<1>1. s \in Seq(S) /\ n \in Nat /\ DOMAIN s = 1 .. n BY DEF Lists
<1>2. s \in Seq(S \cup {x}) BY <1>1
<1>3. t \in Seq(S \cup {x}) /\ DOMAIN t = 1 .. n + 1 BY <1>1, <1>2
<1>4. t[n + 1] = x /\ \A i \in 1 .. n : t[i] = s[i] BY <1>1
<1> HIDE DEF t, n
<1>5. {t[i] : i \in DOMAIN t} = S \cup {x}
  <2>1. {s[i] : i \in 1 .. n} = S BY <1>1 DEF Lists
  <2>2. 1 .. n + 1 = (1 .. n) \cup {n + 1} BY <1>1
  <2> QED BY <1>3, <1>4, <2>1, <2>2
<1>6. ASSUME NEW i \in DOMAIN t, NEW j \in DOMAIN t, t[i] = t[j] PROVE i = j
  <2>1. \A h \in 1 .. n : s[h] \in S BY <1>1
  <2>2. i \in (1 .. n) \cup {n + 1} /\ j \in (1 .. n) \cup {n + 1} BY <1>1, <1>3
  <2> QED BY <1>1, <1>4, <1>6, <2>1, <2>2 DEF Lists
<1>7. Lists(t, S \cup {x}) BY <1>3, <1>5, <1>6 DEF Lists
<1> QED BY <1>7 DEF t

(* What the loop of Reconcile has collected after i of the keys. *)
KeptSteps(f, keys, active, n) ==
    f = [i \in 0 .. n |->
          CASE i = 0 -> <<>>
            [] i > 0 /\ keys[i] \in active -> Append(f[i - 1], keys[i])
            [] OTHER -> f[i - 1]]

LEMMA KeptAt ==
    ASSUME NEW f, NEW keys, NEW active, NEW n \in Nat, KeptSteps(f, keys, active, n),
           NEW i \in 0 .. n
    PROVE  /\ i = 0 => f[i] = <<>>
           /\ i > 0 => f[i] = IF keys[i] \in active THEN Append(f[i - 1], keys[i])
                                                   ELSE f[i - 1]
<1>1. f[i] = CASE i = 0 -> <<>>
               [] i > 0 /\ keys[i] \in active -> Append(f[i - 1], keys[i])
               [] OTHER -> f[i - 1]
  BY DEF KeptSteps
<1>2. CASE i = 0 BY <1>1, <1>2
<1>3. CASE i # 0 BY <1>1, <1>3
<1> QED BY <1>2, <1>3

LEMMA KeptExists ==
    ASSUME NEW keys, NEW active
    PROVE  \A n \in Nat : \E f : KeptSteps(f, keys, active, n)
<1> DEFINE P == {n \in Nat : \E f : KeptSteps(f, keys, active, n)}
<1>1. 0 \in P
  <2>1. KeptSteps([i \in {0} |-> <<>>], keys, active, 0) BY DEF KeptSteps
  <2> QED BY <2>1
<1>2. ASSUME NEW n \in Nat, n \in P PROVE n + 1 \in P
  <2>1. PICK f : KeptSteps(f, keys, active, n) BY <1>2
  <2> DEFINE g == [i \in 0 .. n + 1 |->
                     IF i <= n THEN f[i]
                     ELSE IF keys[i] \in active THEN Append(f[n], keys[i]) ELSE f[n]]
  <2>2. \A i \in 0 .. n : f[i] = CASE i = 0 -> <<>>
                              [] i > 0 /\ keys[i] \in active -> Append(f[i - 1], keys[i])
                              [] OTHER -> f[i - 1]
     BY <2>1 DEF KeptSteps
  <2>3. KeptSteps(g, keys, active, n + 1) BY <2>2 DEF KeptSteps
  <2> QED BY <2>3
<1> HIDE DEF P
<1>3. Nat \subseteq P BY <1>1, <1>2, SetInduction
<1> QED BY <1>3 DEF P

LEMMA KeptIs ==
    ASSUME NEW keys, NEW active, Len(keys) \in Nat
    PROVE  \E f : Kept(keys, active) = f[Len(keys)] /\ KeptSteps(f, keys, active, Len(keys))
<1>1. \E f : KeptSteps(f, keys, active, Len(keys)) BY KeptExists
<1> QED BY <1>1 DEF Kept, KeptSteps

LEMMA KeptLists ==
    ASSUME NEW S, NEW keys, NEW active, Lists(keys, S)
    PROVE  Lists(Kept(keys, active), S \cap active)
<1>1. Len(keys) \in Nat /\ DOMAIN keys = 1 .. Len(keys) BY DEF Lists
<1>2. PICK f : Kept(keys, active) = f[Len(keys)] /\ KeptSteps(f, keys, active, Len(keys))
  BY <1>1, KeptIs
<1> DEFINE First(n) == {keys[i] : i \in 1 .. n} \cap active
           P == {n \in Nat : n <= Len(keys) => Lists(f[n], First(n))}
<1>3. 0 \in P
  <2>1. f[0] = <<>> BY <1>1, <1>2 DEF KeptSteps
  <2>2. First(0) = {} OBVIOUS
  <2>3. Lists(<<>>, {}) BY DEF Lists
  <2> QED BY <2>1, <2>2, <2>3
<1>4. ASSUME NEW n \in Nat, n \in P PROVE n + 1 \in P
  <2> SUFFICES ASSUME n + 1 <= Len(keys) PROVE Lists(f[n + 1], First(n + 1)) OBVIOUS
  <2>1. Lists(f[n], First(n)) BY <1>1, <1>4
  <2>2. f[n + 1] = IF keys[n + 1] \in active THEN Append(f[n], keys[n + 1]) ELSE f[n]
    <3>1. n + 1 \in 0 .. Len(keys) /\ n + 1 # 0 /\ n + 1 > 0 /\ n + 1 - 1 = n BY <1>1
    <3> QED BY <1>1, <1>2, <3>1, KeptAt
  <2>3. CASE keys[n + 1] \in active
    <3> DEFINE k == keys[n + 1]
    <3>1. First(n + 1) = First(n) \cup {k} BY <2>3
    <3>2. k \notin First(n) BY <1>1 DEF Lists
    <3> HIDE DEF First, k
    <3>3. Lists(Append(f[n], k), First(n) \cup {k}) BY <2>1, <3>2, ListsAppend
    <3> QED BY <2>2, <2>3, <3>1, <3>3 DEF k
  <2>4. CASE keys[n + 1] \notin active
    <3>1. First(n + 1) = First(n) BY <2>4
    <3> QED BY <2>1, <2>2, <2>4, <3>1
  <2> QED BY <2>3, <2>4
<1> HIDE DEF P
<1>5. Nat \subseteq P BY <1>3, <1>4, SetInduction
<1>6. Lists(f[Len(keys)], First(Len(keys)))
  <2>1. Len(keys) \in P BY <1>1, <1>5
  <2>2. Len(keys) <= Len(keys) BY <1>1
  <2> QED BY <2>1, <2>2 DEF P
<1>7. First(Len(keys)) = S \cap active BY <1>1 DEF Lists
<1> QED BY <1>2, <1>6, <1>7

(* In memory, in the image of a save and in the file. *)
Indexed ==
    /\ Lists(order, known)
    /\ Lists(image.order, image.known)
    /\ Lists(disk.order, disk.known)

LEMMA NoImageIndexed == Lists(NoImage.order, NoImage.known)
BY DEF NoImage, Lists

LEMMA RestartKeepsIndexed ==
    ASSUME Indexed, Restart
    PROVE  Indexed'
<1> PICK active \in Active : Reconcile(active) BY DEF Restart
<1> DEFINE gone == {disk.order[i] : i \in DOMAIN disk.order} \ active
<1>1. known' = disk.known \ gone /\ order' = Kept(disk.order, active) BY DEF Reconcile
<1>2. disk.known \ gone = disk.known \cap active BY DEF Indexed, Lists
<1>3. Lists(order', known') BY <1>1, <1>2, KeptLists DEF Indexed
<1>4. image' = NoImage /\ disk' = disk BY DEF Restart
<1> QED BY <1>3, <1>4, NoImageIndexed DEF Indexed

LEMMA IndexedStep == Storage /\ Indexed /\ [Next]_vars => Indexed'
<1> SUFFICES ASSUME Storage, Indexed, [Next]_vars PROVE Indexed' OBVIOUS
<1>1. ASSUME NEW k \in Keys, NEW e \in Entries, Push(k, e) PROVE Indexed'
  <2>1. /\ known' = known \cup {k} /\ disk' = disk
        /\ order' = IF k \in known THEN order ELSE Append(order, k)
    BY <1>1 DEF Push
  <2>2. image'.order = image.order /\ image'.known = image.known BY <1>1, PushKeepsImage
  <2>3. CASE k \in known
    <3>1. known' = known /\ order' = order BY <2>1, <2>3
    <3> QED BY <2>1, <2>2, <3>1 DEF Indexed
  <2>4. CASE k \notin known
    <3>1. Lists(order', known') BY <2>1, <2>4, ListsAppend DEF Indexed
    <3> QED BY <2>1, <2>2, <3>1 DEF Indexed
  <2> QED BY <2>3, <2>4
<1>2. CASE SaveRings
  <2>1. image'.known = known /\ image'.order = order BY <1>2 DEF SaveRings
  <2>2. UNCHANGED <<known, order, disk>> BY <1>2 DEF SaveRings, store
  <2> QED BY <2>1, <2>2 DEF Indexed
<1>3. CASE SaveBudgets
  <2>1. image' = [image EXCEPT !.count = count] /\ UNCHANGED <<known, order, disk>>
    BY <1>3 DEF SaveBudgets, store
  <2>2. image'.known = image.known /\ image'.order = image.order
    BY <2>1 DEF Storage, IsImage
  <2> QED BY <2>1, <2>2 DEF Indexed
<1>4. CASE SaveEnds
  <2>1. disk' \in {disk, image} /\ image' = NoImage /\ UNCHANGED <<known, order>>
    BY <1>4 DEF SaveEnds, store
  <2> QED BY <2>1, NoImageIndexed DEF Indexed
<1>5. CASE Restart BY <1>5, RestartKeepsIndexed
<1>6. CASE UNCHANGED <<known, order, image, disk>> BY <1>6 DEF Indexed
<1>7. \/ \E k \in Keys, e \in Entries : Push(k, e)
      \/ SaveRings \/ SaveBudgets \/ SaveEnds \/ Restart
      \/ UNCHANGED <<known, order, image, disk>>
  BY DEF Next, RecordBudgetCheck, Announce, Snapshot, SnapshotStore, SnapshotExpires,
         vars, store, saving
<1> QED BY <1>1, <1>2, <1>3, <1>4, <1>5, <1>6, <1>7

(* s.order lists every check of s.checks once, through pushes, saves that  *)
(* race them, and restarts that drop checks: no key of it is looked up in  *)
(* vain by computeSnapshot (store.go 247-288, 291-341, 413-414).  The file *)
(* is missing or what a save wrote: tryLoadData does not compare the two   *)
(* parts of a file that somebody edited.                                   *)
THEOREM OrderInvariant == Spec => []OrderIndexesChecks
<1>1. Init => Indexed
  <2> SUFFICES ASSUME Init PROVE Indexed OBVIOUS
  <2>1. order = <<>> /\ known = {} /\ image = NoImage /\ disk = NoImage BY DEF Init
  <2>2. Lists(<<>>, {}) BY DEF Lists
  <2> QED BY <2>1, <2>2, NoImageIndexed DEF Indexed
<1>2. Indexed => OrderIndexesChecks
  <2> SUFFICES ASSUME Indexed PROVE OrderIndexesChecks OBVIOUS
  <2>1. Lists(order, known) BY DEF Indexed
  <2>2. {order[i] : i \in DOMAIN order} = known BY <2>1 DEF Lists
  <2>3. Len(order) = Cardinality(known) BY <2>1, ListsCount
  <2> QED BY <2>2, <2>3 DEF OrderIndexesChecks
<1> QED BY <1>1, <1>2, IndexedStep, StorageInvariant, PTL DEF Spec

=============================================================================
