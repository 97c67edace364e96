---------------------------- MODULE InputsProofs -----------------------------
(***************************************************************************)
(* What a forecast is made from and by, and what is said of it: the        *)
(* actuals that people upload and accept (Actuals), the drivers behind the *)
(* lines (Drivers), the heuristics learnt from past errors (Heuristics),   *)
(* the hierarchy of the lines (Wiring), the contest of the models          *)
(* (ModelSelection), the anomalies found in a series (Anomalies), the      *)
(* figures a forecast is judged by (Accuracy) and what a company's own key *)
(* figures refer to (KpiReferences).                                       *)
(***************************************************************************)
EXTENDS Actuals, Drivers, Heuristics, Wiring, ModelSelection, Anomalies, Accuracy, KpiReferences,
        FiniteSetTheorems, SequenceTheorems, WellFoundedInduction, Sums, TLAPS

\* A nonempty set of numbers up to a bound has a largest one.
LEMMA LastExists ==
  ASSUME NEW b \in Nat, NEW S \in SUBSET (1 .. b), S # {}
  PROVE  \E m \in S : \A k \in S : k <= m
  <1> DEFINE T == {b - k : k \in S}
  <1>1. T \in SUBSET Nat /\ T # {}
    <2>1. \A k \in S : k \in 1 .. b /\ b - k \in Nat OBVIOUS
    <2> QED BY <2>1
  <1>2. PICK n \in T : \A k \in T : n <= k
    <2> HIDE DEF T
    <2> QED BY <1>1, LeastExists
  <1>3. PICK m \in S : n = b - m BY <1>2
  <1>4. ASSUME NEW k \in S PROVE k <= m
    <2>1. k \in 1 .. b /\ m \in 1 .. b /\ b - k \in T OBVIOUS
    <2>2. n <= b - k BY <1>2, <2>1
    <2> QED BY <1>3, <2>1, <2>2
  <1> QED BY <1>4

-----------------------------------------------------------------------------
DatasetRows == [company : Companies, content : Contents, pinned : BOOLEAN, at : Nat, live : BOOLEAN]
Landings    == {"upload", "pull", "sweep"}
ActRows     == [kind : Landings \cup {"unpin", "delete"}, company : Companies, dataset : Nat]

ActsShaped ==
    /\ dataset \in Seq(DatasetRows)
    /\ act \in Seq(ActRows) /\ Len(act) <= MaxActs

Since(i, d, kind) == \E j \in 1 .. Len(act) : j > i /\ act[j].dataset = d /\ act[j].kind = kind

\* The row of a dataset is what its last landing and the acts since made of it.
RowTold(d) ==
    /\ dataset[d].at \in 1 .. Len(act)
    /\ act[dataset[d].at].dataset = d /\ act[dataset[d].at].kind \in Landings
    /\ \A kind \in Landings : ~ Since(dataset[d].at, d, kind)
    /\ dataset[d].live <=> ~ Since(dataset[d].at, d, "delete")
    /\ dataset[d].pinned <=> act[dataset[d].at].kind = "upload" /\ ~ Since(dataset[d].at, d, "unpin")

ActFits(i) == act[i].dataset \in 1 .. Len(dataset) /\ act[i].company = dataset[act[i].dataset].company

\* What a sync lands is new.
SweepsFresh ==
    \A i, j \in 1 .. Len(act) : i < j /\ act[j].kind = "sweep" => act[i].dataset < act[j].dataset

ActsTold ==
    /\ ActsShaped
    /\ \A d \in 1 .. Len(dataset) : RowTold(d)
    /\ \A i \in 1 .. Len(act) : ActFits(i)
    /\ SweepsFresh

\* The shapes of the datasets and of what was done to them.
LEMMA ActsFacts ==
  ASSUME ActsShaped
  PROVE  /\ Datasets = 1 .. Len(dataset) /\ Len(dataset) \in Nat
         /\ DOMAIN act = 1 .. Len(act) /\ Len(act) \in Nat
         /\ \A d \in 1 .. Len(dataset) : dataset[d] \in DatasetRows
         /\ \A i \in 1 .. Len(act) : act[i] \in ActRows
  BY LenProperties, ElementOfSeq DEF ActsShaped, Datasets

\* What was done is only ever added to, one act at a time.
LEMMA ActAdded ==
  ASSUME ActsShaped, NEW kind \in Landings \cup {"unpin", "delete"}, NEW c \in Companies, NEW d \in Nat,
         Acted(kind, c, d)
  PROVE  /\ act' \in Seq(ActRows) /\ Len(act') = Len(act) + 1 /\ Len(act') <= MaxActs
         /\ \A i \in 1 .. Len(act) : act'[i] = act[i]
         /\ act'[Len(act) + 1].kind = kind /\ act'[Len(act) + 1].company = c /\ act'[Len(act) + 1].dataset = d
         /\ \A i \in 1 .. Len(act') : i \in 1 .. Len(act) \/ i = Len(act) + 1
  <1> DEFINE new == [kind |-> kind, company |-> c, dataset |-> d]
  <1>1. act' = Append(act, new) /\ Len(act) < MaxActs /\ Len(act) \in Nat BY ActsFacts DEF Acted
  <1>2. new \in ActRows BY DEF ActRows
  <1>3. new.kind = kind /\ new.company = c /\ new.dataset = d OBVIOUS
  <1> HIDE DEF new
  <1>4. act \in Seq(ActRows) BY DEF ActsShaped
  <1>5. /\ act' \in Seq(ActRows) /\ Len(act') = Len(act) + 1
        /\ \A i \in 1 .. Len(act) : act'[i] = act[i]
        /\ act'[Len(act) + 1] = new
    BY <1>1, <1>2, <1>4, AppendProperties
  <1> QED BY <1>1, <1>3, <1>5, ActualsAssumption

\* An act on one dataset leaves the story of the others as it was, and a story
\* told to the end is told again after an act that did not happen.
LEMMA OtherTold ==
  ASSUME ActsShaped, NEW kind \in Landings \cup {"unpin", "delete"}, NEW c \in Companies, NEW d \in Nat,
         Acted(kind, c, d), NEW e \in 1 .. Len(dataset), e # d, dataset'[e] = dataset[e], RowTold(e)
  PROVE  RowTold(e)'
  <1>1. /\ Len(act') = Len(act) + 1 /\ \A i \in 1 .. Len(act) : act'[i] = act[i]
        /\ act'[Len(act) + 1].dataset = d /\ \A i \in 1 .. Len(act') : i \in 1 .. Len(act) \/ i = Len(act) + 1
    BY ActAdded
  <1>2. Len(act) \in Nat BY ActsFacts
  <1>3. PICK i : i = dataset[e].at OBVIOUS
  <1>4. i \in 1 .. Len(act) /\ i \in 1 .. Len(act') /\ act'[i] = act[i] BY <1>1, <1>2, <1>3 DEF RowTold
  <1>5. ASSUME NEW k PROVE Since(i, e, k)' <=> Since(i, e, k)
    BY <1>1, <1>2 DEF Since
  <1>6. dataset'[e].at = i BY <1>3
  <1> QED BY <1>3, <1>4, <1>5, <1>6 DEF RowTold

\* The acts tell the rows when a dataset lands.
LEMMA LandedTold ==
  ASSUME ActsTold, NEW kind \in Landings, NEW c \in Companies, NEW x \in Contents, NEW pinned \in BOOLEAN,
         pinned <=> kind = "upload",
         Acted(kind, c, Len(dataset) + 1), dataset' = Landed(c, x, pinned)
  PROVE  /\ ActsTold' /\ Len(dataset') = Len(dataset) + 1
         /\ \A d \in 1 .. Len(dataset) : dataset'[d] = dataset[d]
         /\ dataset'[Len(dataset) + 1].company = c /\ dataset'[Len(dataset) + 1].content = x
  <1>0. ActsShaped BY DEF ActsTold
  <1>1. PICK d : d = Len(dataset) + 1 OBVIOUS
  <1>2. PICK n : n = Len(act) OBVIOUS
  <1>3. PICK r : r = [company |-> c, content |-> x, pinned |-> pinned, at |-> n + 1, live |-> TRUE] OBVIOUS
  <1>4. n \in Nat /\ d \in Nat /\ d - 1 \in Nat /\ d - 1 = Len(dataset) BY <1>0, <1>1, <1>2, ActsFacts
  <1>5. r \in DatasetRows /\ r.at = n + 1 /\ r.live /\ r.company = c /\ r.content = x
    <2>1. n + 1 \in Nat BY <1>4
    <2> QED BY <1>3, <2>1, Zenon DEF DatasetRows
  <1>6. r.pinned <=> kind = "upload" BY <1>3
  <1>7. dataset' = Append(dataset, r) BY <1>2, <1>3 DEF Landed
  <1>8. /\ dataset' \in Seq(DatasetRows) /\ Len(dataset') = d /\ dataset'[d] = r
        /\ \A e \in 1 .. Len(dataset) : dataset'[e] = dataset[e]
    BY <1>0, <1>1, <1>5, <1>7, AppendProperties DEF ActsShaped
  <1>9. /\ act' \in Seq(ActRows) /\ Len(act') = n + 1 /\ Len(act') <= MaxActs
        /\ \A i \in 1 .. n : act'[i] = act[i]
        /\ act'[n + 1].kind = kind /\ act'[n + 1].company = c /\ act'[n + 1].dataset = d
        /\ \A i \in 1 .. n + 1 : i \in 1 .. n \/ i = n + 1
    BY <1>0, <1>1, <1>2, <1>4, ActAdded
  <1>10. ASSUME NEW e \in 1 .. Len(dataset') PROVE RowTold(e)'
    <2>1. CASE e = d
      <3>1. ASSUME NEW k PROVE ~ Since(n + 1, d, k)'
        BY <1>4, <1>9 DEF Since
      <3>2. dataset'[e] = r /\ dataset'[e].at = n + 1 /\ n + 1 \in 1 .. Len(act') BY <1>4, <1>5, <1>8, <1>9, <2>1
      <3>3. act'[dataset'[e].at].kind = kind BY <1>9, <3>2
      <3>4. dataset'[e].live /\ (dataset'[e].pinned <=> kind = "upload") BY <1>5, <1>6, <3>2, Zenon
      <3> QED BY <1>9, <2>1, <3>1, <3>2, <3>3, <3>4 DEF RowTold
    <2>2. CASE e # d
      <3>1. e \in 1 .. Len(dataset) BY <1>1, <1>4, <1>8, <2>2
      <3>2. RowTold(e) BY <3>1 DEF ActsTold
      <3> QED BY <1>0, <1>1, <1>4, <1>8, <2>2, <3>1, <3>2, OtherTold
    <2> QED BY <2>1, <2>2
  <1>11. ASSUME NEW i \in 1 .. Len(act') PROVE ActFits(i)'
    <2>1. CASE i = n + 1
      <3>1. d \in 1 .. Len(dataset') BY <1>1, <1>4, <1>8
      <3> QED BY <1>5, <1>8, <1>9, <2>1, <3>1 DEF ActFits
    <2>2. CASE i \in 1 .. n
      <3>1. act[i].dataset \in 1 .. Len(dataset) /\ act[i].company = dataset[act[i].dataset].company
        BY <1>2, <2>2 DEF ActsTold, ActFits
      <3> QED BY <1>1, <1>4, <1>8, <1>9, <2>2, <3>1 DEF ActFits
    <2> QED BY <1>9, <2>1, <2>2
  <1>12. SweepsFresh'
    <2>1. \A i \in 1 .. n : act'[i].dataset < d BY <1>1, <1>2, <1>4, <1>9 DEF ActsTold, ActFits
    <2>2. ASSUME NEW i \in 1 .. n + 1, NEW j \in 1 .. n + 1, i < j, act'[j].kind = "sweep"
          PROVE  act'[i].dataset < act'[j].dataset
      <3>1. i \in 1 .. n BY <1>4, <2>2
      <3>2. CASE j = n + 1 BY <1>9, <2>1, <3>1, <3>2
      <3>3. CASE j \in 1 .. n BY <1>2, <1>9, <2>2, <3>1, <3>3 DEF ActsTold, SweepsFresh
      <3> QED BY <1>9, <3>2, <3>3
    <2> QED BY <1>9, <2>2 DEF SweepsFresh
  <1> QED BY <1>1, <1>5, <1>8, <1>9, <1>10, <1>11, <1>12 DEF ActsTold, ActsShaped

\* The acts tell the rows when one act changes one row as it tells.
LEMMA ChangedTold ==
  ASSUME ActsTold, NEW kind \in {"upload", "unpin", "delete"}, NEW d \in 1 .. Len(dataset), NEW r \in DatasetRows,
         r.company = dataset[d].company /\ r.content = dataset[d].content, Acted(kind, r.company, d), dataset' = [dataset EXCEPT ![d] = r],
         RowTold(d)'
  PROVE  /\ ActsTold' /\ Len(dataset') = Len(dataset)
         /\ \A e \in 1 .. Len(dataset) : dataset'[e].company = dataset[e].company /\ dataset'[e].content = dataset[e].content
  <1>0. ActsShaped BY DEF ActsTold
  <1>1. PICK n : n = Len(act) OBVIOUS
  <1>2. n \in Nat /\ d \in Nat /\ r.company \in Companies /\ kind \in Landings \cup {"unpin", "delete"}
    BY <1>0, <1>1, ActsFacts DEF DatasetRows, Landings
  <1>3. /\ dataset' \in Seq(DatasetRows) /\ Len(dataset') = Len(dataset)
        /\ \A e \in 1 .. Len(dataset) : dataset'[e] = IF e = d THEN r ELSE dataset[e]
    BY <1>0, ExceptSeq DEF ActsShaped
  <1>4. \A e \in 1 .. Len(dataset) : dataset'[e].company = dataset[e].company BY <1>3
  <1>5. /\ act' \in Seq(ActRows) /\ Len(act') = n + 1 /\ Len(act') <= MaxActs
        /\ \A i \in 1 .. n : act'[i] = act[i]
        /\ act'[n + 1].kind = kind /\ act'[n + 1].company = r.company /\ act'[n + 1].dataset = d
        /\ \A i \in 1 .. n + 1 : i \in 1 .. n \/ i = n + 1
    BY <1>0, <1>1, <1>2, ActAdded
  <1>6. ASSUME NEW e \in 1 .. Len(dataset) PROVE RowTold(e)'
    <2>1. CASE e # d
      <3>1. RowTold(e) BY DEF ActsTold
      <3> QED BY <1>0, <1>2, <1>3, <2>1, <3>1, OtherTold
    <2> QED BY <2>1
  <1>7. ASSUME NEW i \in 1 .. n + 1 PROVE ActFits(i)'
    <2>1. CASE i = n + 1 BY <1>3, <1>4, <1>5, <2>1 DEF ActFits
    <2>2. CASE i \in 1 .. n
      <3>1. act[i].dataset \in 1 .. Len(dataset) /\ act[i].company = dataset[act[i].dataset].company
        BY <1>1, <2>2 DEF ActsTold, ActFits
      <3> QED BY <1>3, <1>4, <1>5, <2>2, <3>1 DEF ActFits
    <2> QED BY <1>5, <2>1, <2>2
  <1>8. SweepsFresh'
    <2>1. ASSUME NEW i \in 1 .. n + 1, NEW j \in 1 .. n + 1, i < j, act'[j].kind = "sweep"
          PROVE  act'[i].dataset < act'[j].dataset
      <3>1. j \in 1 .. n /\ i \in 1 .. n BY <1>2, <1>5, <2>1
      <3> QED BY <1>1, <1>5, <2>1, <3>1 DEF ActsTold, SweepsFresh
    <2> QED BY <1>5, <2>1 DEF SweepsFresh
  <1> QED BY <1>3, <1>4, <1>5, <1>6, <1>7, <1>8 DEF ActsTold, ActsShaped

\* The acts tell the rows when the same content is uploaded again.
LEMMA RelandedTold ==
  ASSUME ActsTold, NEW d \in 1 .. Len(dataset), Acted("upload", dataset[d].company, d),
         dataset' = [dataset EXCEPT ![d] = Relanded(@)], dataset[d].live
  PROVE  /\ ActsTold' /\ Len(dataset') = Len(dataset)
         /\ \A e \in 1 .. Len(dataset) : dataset'[e].company = dataset[e].company /\ dataset'[e].content = dataset[e].content
  <1>0. ActsShaped BY DEF ActsTold
  <1>1. PICK n : n = Len(act) OBVIOUS
  <1>2. n \in Nat /\ n + 1 \in Nat /\ dataset[d] \in DatasetRows BY <1>0, <1>1, ActsFacts
  <1>3. PICK r : r = Relanded(dataset[d]) OBVIOUS
  <1>4. /\ r \in DatasetRows /\ r.company = dataset[d].company /\ r.content = dataset[d].content /\ r.at = n + 1
        /\ r.pinned = TRUE /\ r.live = dataset[d].live
    BY <1>1, <1>2, <1>3, Zenon DEF Relanded, DatasetRows
  <1>5. dataset' = [dataset EXCEPT ![d] = r] BY <1>3
  <1>6. dataset'[d] = r BY <1>0, <1>5, ActsFacts DEF Datasets
  <1>7. dataset[d].company \in Companies BY <1>2 DEF DatasetRows
  <1>8. /\ Len(act') = n + 1 /\ act'[n + 1].kind = "upload" /\ act'[n + 1].dataset = d
    BY <1>0, <1>1, <1>7, ActAdded DEF Landings
  <1>9. RowTold(d)'
    <2>1. ASSUME NEW k PROVE ~ Since(n + 1, d, k)' BY <1>2, <1>8 DEF Since
    <2>2. dataset'[d].live /\ dataset'[d].pinned BY <1>4, <1>6, Zenon
    <2>3. dataset'[d].at = n + 1 /\ n + 1 \in 1 .. Len(act') BY <1>2, <1>4, <1>6, <1>8
    <2> QED BY <1>8, <2>1, <2>2, <2>3 DEF RowTold, Landings
  <1> QED BY <1>4, <1>5, <1>9, ChangedTold

\* The acts tell the rows when a dataset is unpinned.
LEMMA UnpinnedTold ==
  ASSUME ActsTold, NEW d \in 1 .. MaxActs, Unpin(d)
  PROVE  /\ ActsTold' /\ Len(dataset') = Len(dataset)
         /\ \A e \in 1 .. Len(dataset) : dataset'[e].company = dataset[e].company /\ dataset'[e].content = dataset[e].content
  <1>0. ActsShaped /\ d \in 1 .. Len(dataset) BY ActsFacts DEF ActsTold, Unpin
  <1>1. PICK n : n = Len(act) OBVIOUS
  <1>2. n \in Nat /\ dataset[d] \in DatasetRows BY <1>0, <1>1, ActsFacts
  <1>3. PICK r : r = [dataset[d] EXCEPT !.pinned = FALSE] OBVIOUS
  <1>4. /\ r \in DatasetRows /\ r.company = dataset[d].company /\ r.content = dataset[d].content /\ r.at = dataset[d].at
        /\ r.pinned = FALSE /\ r.live = dataset[d].live
    BY <1>2, <1>3, Zenon DEF DatasetRows
  <1>5. dataset' = [dataset EXCEPT ![d] = r] BY <1>3 DEF Unpin
  <1>6. dataset'[d] = r BY <1>0, <1>5, ActsFacts DEF Datasets
  <1>7. dataset[d].company \in Companies BY <1>2 DEF DatasetRows
  <1>8. /\ Len(act') = n + 1 /\ act'[n + 1].kind = "unpin" /\ act'[n + 1].dataset = d
        /\ \A i \in 1 .. n : act'[i] = act[i]
        /\ \A i \in 1 .. n + 1 : i \in 1 .. n \/ i = n + 1
    <2>1. Acted("unpin", dataset[d].company, d) BY DEF Unpin
    <2>2. "unpin" \in Landings \cup {"unpin", "delete"} /\ d \in Nat BY <1>0, ActsFacts
    <2> QED BY <1>0, <1>1, <1>7, <2>1, <2>2, ActAdded
  <1>9. RowTold(d)'
    <2>1. RowTold(d) BY <1>0 DEF ActsTold
    <2>2. PICK i : i = dataset[d].at OBVIOUS
    <2>3. i \in 1 .. n /\ i \in 1 .. n + 1 /\ act'[i] = act[i] BY <1>1, <1>2, <1>8, <2>1, <2>2 DEF RowTold
    <2>4. ASSUME NEW k PROVE Since(i, d, k)' <=> Since(i, d, k) \/ k = "unpin"
      <3>1. n + 1 > i BY <1>2, <2>3
      <3> QED BY <1>1, <1>8, <3>1 DEF Since
    <2>5. dataset'[d].at = i BY <1>4, <1>6, <2>2
    <2>6. dataset'[d].live <=> ~ Since(i, d, "delete")'
      <3>1. dataset'[d].live = dataset[d].live BY <1>4, <1>6
      <3>2. dataset[d].live <=> ~ Since(i, d, "delete") BY <2>1, <2>2 DEF RowTold
      <3>3. Since(i, d, "delete")' <=> Since(i, d, "delete") BY <2>4
      <3> QED BY <3>1, <3>2, <3>3
    <2>7. ~ dataset'[d].pinned BY <1>4, <1>6, Zenon
    <2>8. Since(i, d, "unpin")' BY <2>4
    <2>9. \A k \in Landings : ~ Since(i, d, k)' BY <2>1, <2>2, <2>4 DEF RowTold, Landings
    <2>10. i \in 1 .. Len(act') BY <1>8, <2>3
    <2>11. act'[i].dataset = d /\ act'[i].kind \in Landings BY <2>1, <2>2, <2>3 DEF RowTold
    <2> QED BY <2>5, <2>6, <2>7, <2>8, <2>9, <2>10, <2>11 DEF RowTold
  <1>10. Acted("unpin", r.company, d) BY <1>4 DEF Unpin
  <1> QED BY <1>0, <1>4, <1>5, <1>9, <1>10, ChangedTold

\* The acts tell the rows when a dataset is deleted.
LEMMA DeletedTold ==
  ASSUME ActsTold, NEW d \in 1 .. MaxActs, Delete(d)
  PROVE  /\ ActsTold' /\ Len(dataset') = Len(dataset)
         /\ \A e \in 1 .. Len(dataset) : dataset'[e].company = dataset[e].company /\ dataset'[e].content = dataset[e].content
  <1>0. ActsShaped /\ d \in 1 .. Len(dataset) BY ActsFacts DEF ActsTold, Delete
  <1>1. PICK n : n = Len(act) OBVIOUS
  <1>2. n \in Nat /\ dataset[d] \in DatasetRows BY <1>0, <1>1, ActsFacts
  <1>3. PICK r : r = [dataset[d] EXCEPT !.live = FALSE] OBVIOUS
  <1>4. /\ r \in DatasetRows /\ r.company = dataset[d].company /\ r.content = dataset[d].content /\ r.at = dataset[d].at
        /\ r.live = FALSE /\ r.pinned = dataset[d].pinned
    BY <1>2, <1>3, Zenon DEF DatasetRows
  <1>5. dataset' = [dataset EXCEPT ![d] = r] BY <1>3 DEF Delete
  <1>6. dataset'[d] = r BY <1>0, <1>5, ActsFacts DEF Datasets
  <1>7. dataset[d].company \in Companies BY <1>2 DEF DatasetRows
  <1>8. /\ Len(act') = n + 1 /\ act'[n + 1].kind = "delete" /\ act'[n + 1].dataset = d
        /\ \A i \in 1 .. n : act'[i] = act[i]
        /\ \A i \in 1 .. n + 1 : i \in 1 .. n \/ i = n + 1
    <2>1. Acted("delete", dataset[d].company, d) BY DEF Delete
    <2>2. "delete" \in Landings \cup {"unpin", "delete"} /\ d \in Nat BY <1>0, ActsFacts
    <2> QED BY <1>0, <1>1, <1>7, <2>1, <2>2, ActAdded
  <1>9. RowTold(d)'
    <2>1. RowTold(d) BY <1>0 DEF ActsTold
    <2>2. PICK i : i = dataset[d].at OBVIOUS
    <2>3. i \in 1 .. n /\ i \in 1 .. n + 1 /\ act'[i] = act[i] BY <1>1, <1>2, <1>8, <2>1, <2>2 DEF RowTold
    <2>4. ASSUME NEW k PROVE Since(i, d, k)' <=> Since(i, d, k) \/ k = "delete"
      <3>1. n + 1 > i BY <1>2, <2>3
      <3> QED BY <1>1, <1>8, <3>1 DEF Since
    <2>5. dataset'[d].at = i BY <1>4, <1>6, <2>2
    <2>6. dataset'[d].pinned <=> act'[i].kind = "upload" /\ ~ Since(i, d, "unpin")'
      <3>1. dataset'[d].pinned = dataset[d].pinned BY <1>4, <1>6
      <3>2. dataset[d].pinned <=> act[i].kind = "upload" /\ ~ Since(i, d, "unpin") BY <2>1, <2>2 DEF RowTold
      <3>3. Since(i, d, "unpin")' <=> Since(i, d, "unpin") BY <2>4
      <3> QED BY <2>3, <3>1, <3>2, <3>3
    <2>7. ~ dataset'[d].live BY <1>4, <1>6, Zenon
    <2>8. Since(i, d, "delete")' BY <2>4
    <2>9. \A k \in Landings : ~ Since(i, d, k)' BY <2>1, <2>2, <2>4 DEF RowTold, Landings
    <2>10. i \in 1 .. Len(act') BY <1>8, <2>3
    <2>11. act'[i].dataset = d /\ act'[i].kind \in Landings BY <2>1, <2>2, <2>3 DEF RowTold
    <2> QED BY <2>5, <2>6, <2>7, <2>8, <2>9, <2>10, <2>11 DEF RowTold
  <1>10. Acted("delete", r.company, d) BY <1>4 DEF Delete
  <1> QED BY <1>0, <1>4, <1>5, <1>9, <1>10, ChangedTold

-----------------------------------------------------------------------------
SweepRows  == [phase : {"idle", "pull", "decide"}, number : Nat, todo : SUBSET Connections,
               rows : BOOLEAN, pulled : SUBSET Nat, lost : SUBSET Nat, auto : BOOLEAN, unasked : SUBSET Nat]
AnswerRows == [kind : {"queued", "refused", "notice", "built", "failed"}, company : Companies,
               ids : SUBSET Nat, at : Nat]
BuiltRows  == [company : Companies, dataset : Nat, asked : {"current", "by_id"}]

\* After its pulls a sync decides as long as something is left to decide on.
Placed(s) == s.phase # "pull" => (s.phase = "decide" <=> s.pulled # {})

SweepShaped ==
    /\ sweep \in SweepRows /\ sweep.pulled \cup sweep.lost \cup sweep.unasked \subseteq 1 .. Len(dataset)
    /\ Placed(sweep)
    /\ answer \subseteq AnswerRows
    /\ built \in Seq(BuiltRows) /\ \A i \in 1 .. Len(built) : built[i].dataset \in 1 .. Len(dataset)

SweptActs == {i \in 1 .. Len(act) : act[i].kind = "sweep"}

\* What a sync has still to decide on is, company by company, the latest it landed.
PulledLast ==
    /\ \A p \in sweep.pulled : \E i \in SweptActs : act[i].dataset = p
    /\ \A p \in sweep.pulled, i \in SweptActs :
          act[i].dataset \notin sweep.pulled /\ act[i].company = dataset[p].company => act[i].dataset < p

AnswersApart ==
    /\ sweep.pulled \cap sweep.lost = {}
    /\ \A a \in answer : a.ids \cap (sweep.pulled \cup sweep.lost) = {} /\ a.ids \subseteq 1 .. Len(dataset)
    /\ \A a, b \in answer : a.ids \cap b.ids # {} => a = b

SweptAnswered ==
    \A i \in SweptActs :
        \/ act[i].dataset \in sweep.lost \cup sweep.unasked \cup sweep.pulled
        \/ \E a \in answer : act[i].dataset \in a.ids

\* With regenerating switched on, only pulls without a row are passed over.
RowlessPassed ==
    /\ ~ sweep.rows => \A d \in sweep.pulled : dataset[d].content \in Rowless
    /\ sweep.auto => \A d \in sweep.unasked : dataset[d].content \in Rowless

Excused(a) ==
    \/ Standing(a.company, a.at) # {}
    \/ \E i \in 1 .. a.at :
          /\ act[i].company = a.company /\ act[i].kind \in {"upload", "pull", "delete"}
          /\ \E j \in 1 .. i - 1 : act[j].kind = "sweep" /\ act[j].dataset \in a.ids

NoticesExcused == \A a \in answer : a.at <= Len(act) /\ (a.kind = "notice" => Excused(a))

ActualsInv ==
    /\ ActsTold /\ SweepShaped
    /\ PulledLast /\ AnswersApart /\ SweptAnswered /\ NoticesExcused /\ RowlessPassed

\* An answer that was excused stays excused, whatever is done later.
LEMMA ExcuseStands ==
  ASSUME NEW a \in AnswerRows, a.at <= Len(act), Excused(a), Len(act) \in Nat, Len(act') \in Nat,
         \A i \in 1 .. Len(act) : act'[i] = act[i]
  PROVE  Excused(a)'
  <1>1. a.at \in Nat /\ \A i \in 1 .. a.at : act'[i] = act[i] BY DEF AnswerRows
  <1>2. Standing(a.company, a.at)' = Standing(a.company, a.at)
    <2>1. \A i \in 1 .. a.at : \A j \in (i + 1) .. a.at : act'[j] = act[j] BY <1>1
    <2> QED BY <1>1, <2>1 DEF Standing
  <1>3. CASE Standing(a.company, a.at) # {} BY <1>2, <1>3 DEF Excused
  <1>4. ASSUME NEW i \in 1 .. a.at, act[i].company = a.company, act[i].kind \in {"upload", "pull", "delete"},
               NEW j \in 1 .. i - 1, act[j].kind = "sweep", act[j].dataset \in a.ids
        PROVE  Excused(a)'
    <2>1. j \in 1 .. a.at BY <1>1
    <2> QED BY <1>1, <1>4, <2>1 DEF Excused
  <1> QED BY <1>3, <1>4 DEF Excused

\* What people do between the steps of a sync.
LEMMA OthersAct ==
  ASSUME ActualsInv, ActsTold', Len(dataset') \in Nat, Len(dataset) <= Len(dataset'),
         \A d \in 1 .. Len(dataset) : dataset'[d].company = dataset[d].company /\ dataset'[d].content = dataset[d].content,
         Len(act') = Len(act) + 1, \A i \in 1 .. Len(act) : act'[i] = act[i],
         act'[Len(act) + 1].kind # "sweep", UNCHANGED <<sweep, answer, built>>
  PROVE  ActualsInv'
  <1>1. Len(act) \in Nat /\ Len(dataset) \in Nat BY ActsFacts DEF ActualsInv, ActsTold
  <1>2. SweptActs' = SweptActs
    <2>1. \A i \in 1 .. Len(act') : i \in 1 .. Len(act) \/ i = Len(act) + 1 BY <1>1
    <2>2. \A i \in 1 .. Len(act) : i \in 1 .. Len(act') BY <1>1
    <2> QED BY <2>1, <2>2 DEF SweptActs
  <1>3. \A i \in SweptActs : act'[i] = act[i] BY DEF SweptActs
  <1>4. 1 .. Len(dataset) \subseteq 1 .. Len(dataset') BY <1>1
  <1>5. SweepShaped' BY <1>4 DEF ActualsInv, SweepShaped
  <1>6. PulledLast'
    <2>1. \A p \in sweep.pulled : dataset'[p].company = dataset[p].company BY DEF ActualsInv, SweepShaped
    <2>2. \A p \in sweep.pulled : \E i \in SweptActs : act'[i].dataset = p BY <1>3 DEF ActualsInv, PulledLast
    <2>3. \A p \in sweep.pulled, i \in SweptActs :
              act'[i].dataset \notin sweep.pulled /\ act'[i].company = dataset'[p].company => act'[i].dataset < p
      BY <1>3, <2>1 DEF ActualsInv, PulledLast
    <2> QED BY <1>2, <2>2, <2>3 DEF PulledLast
  <1>7. AnswersApart' BY <1>4 DEF ActualsInv, AnswersApart
  <1>8. SweptAnswered' BY <1>2, <1>3 DEF ActualsInv, SweptAnswered
  <1>9. NoticesExcused'
    <2>1. ASSUME NEW a \in answer PROVE a.at <= Len(act') /\ (a.kind = "notice" => Excused(a)')
      <3>1. a \in AnswerRows /\ a.at <= Len(act) /\ (a.kind = "notice" => Excused(a))
        BY DEF ActualsInv, SweepShaped, NoticesExcused
      <3>2. a.at \in Nat BY <3>1 DEF AnswerRows
      <3> QED BY <1>1, <3>1, <3>2, ExcuseStands
    <2> QED BY <2>1 DEF NoticesExcused
  <1>10. RowlessPassed'
    <2>1. \A d \in sweep.pulled \cup sweep.unasked : dataset'[d].content = dataset[d].content
      BY DEF ActualsInv, SweepShaped
    <2> QED BY <2>1 DEF ActualsInv, RowlessPassed
  <1> QED BY <1>5, <1>6, <1>7, <1>8, <1>9, <1>10 DEF ActualsInv

\* The invariant when a file is uploaded.
LEMMA UploadKeeps ==
  ASSUME ActualsInv, NEW c \in Companies, NEW x \in Contents, Upload(c, x)
  PROVE  ActualsInv'
  <1>0. ActsTold /\ ActsShaped /\ Len(dataset) \in Nat BY ActsFacts DEF ActualsInv, ActsTold
  <1>1. UNCHANGED <<sweep, answer, built>> BY DEF Upload
  <1>2. CASE \E d \in {e \in Live(c) : dataset[e].content = x} :
               Acted("upload", c, d) /\ dataset' = [dataset EXCEPT ![d] = Relanded(@)]
    <2>1. PICK d \in Live(c) : Acted("upload", c, d) /\ dataset' = [dataset EXCEPT ![d] = Relanded(@)] BY <1>2
    <2>2. d \in 1 .. Len(dataset) /\ dataset[d].live /\ dataset[d].company = c BY <1>0, ActsFacts DEF Live
    <2>3. "upload" \in Landings \cup {"unpin", "delete"} /\ d \in Nat BY <2>2 DEF Landings
    <2>4. /\ Len(act') = Len(act) + 1 /\ \A i \in 1 .. Len(act) : act'[i] = act[i]
          /\ act'[Len(act) + 1].kind # "sweep"
      <3>1. act'[Len(act) + 1].kind = "upload" BY <1>0, <2>1, <2>3, ActAdded
      <3> QED BY <1>0, <2>1, <2>3, <3>1, ActAdded
    <2>5. /\ ActsTold' /\ Len(dataset') = Len(dataset)
          /\ \A e \in 1 .. Len(dataset) : dataset'[e].company = dataset[e].company /\ dataset'[e].content = dataset[e].content
      BY <1>0, <2>1, <2>2, RelandedTold
    <2> QED BY <1>0, <1>1, <2>4, <2>5, OthersAct
  <1>3. CASE Acted("upload", c, Len(dataset) + 1) /\ dataset' = Landed(c, x, TRUE)
    <2>1. "upload" \in Landings /\ Len(dataset) + 1 \in Nat BY <1>0 DEF Landings
    <2>2. /\ Len(act') = Len(act) + 1 /\ \A i \in 1 .. Len(act) : act'[i] = act[i]
          /\ act'[Len(act) + 1].kind # "sweep"
      <3>1. act'[Len(act) + 1].kind = "upload" BY <1>0, <1>3, <2>1, ActAdded
      <3> QED BY <1>0, <1>3, <2>1, <3>1, ActAdded
    <2>3. /\ ActsTold' /\ Len(dataset') = Len(dataset) + 1
          /\ \A d \in 1 .. Len(dataset) : dataset'[d] = dataset[d]
      <3>1. TRUE \in BOOLEAN /\ (TRUE <=> "upload" = "upload") OBVIOUS
      <3> QED BY ONLY <1>0, <1>3, <2>1, <3>1, LandedTold, c \in Companies, x \in Contents
    <2> QED BY <1>0, <1>1, <2>2, <2>3, OthersAct
  <1> QED BY <1>2, <1>3 DEF Upload

\* The invariant when one source is pulled.
LEMMA PullKeeps ==
  ASSUME ActualsInv, NEW f \in Connections, NEW x \in Contents, Pull(f, x)
  PROVE  ActualsInv'
  <1>0. ActsTold /\ ActsShaped /\ Len(dataset) \in Nat BY ActsFacts DEF ActualsInv, ActsTold
  <1>1. PICK c \in Companies : c = OwnerOf[f] BY ActualsAssumption
  <1>2. Acted("pull", c, Len(dataset) + 1) /\ dataset' = Landed(c, x, FALSE) BY <1>1 DEF Pull, Persist
  <1>3. UNCHANGED <<sweep, answer, built>> BY DEF Pull
  <1>4. "pull" \in Landings /\ Len(dataset) + 1 \in Nat BY <1>0 DEF Landings
  <1>5. /\ Len(act') = Len(act) + 1 /\ \A i \in 1 .. Len(act) : act'[i] = act[i]
        /\ act'[Len(act) + 1].kind # "sweep"
    <2>1. act'[Len(act) + 1].kind = "pull" BY <1>0, <1>2, <1>4, ActAdded
    <2> QED BY <1>0, <1>2, <1>4, <2>1, ActAdded
  <1>6. /\ ActsTold' /\ Len(dataset') = Len(dataset) + 1
        /\ \A d \in 1 .. Len(dataset) : dataset'[d] = dataset[d]
    <2>1. PICK no \in BOOLEAN : no = FALSE OBVIOUS
    <2>2. no <=> "pull" = "upload" BY <2>1
    <2>3. dataset' = Landed(c, x, no) BY <1>2, <2>1
    <2> QED BY <1>0, <1>2, <1>4, <2>2, <2>3, LandedTold
  <1> QED BY <1>0, <1>3, <1>5, <1>6, OthersAct

\* The invariant when a dataset is unpinned or deleted.
LEMMA UnpinKeeps ==
  ASSUME ActualsInv, NEW d \in 1 .. MaxActs, Unpin(d) \/ Delete(d)
  PROVE  ActualsInv'
  <1>0. ActsTold /\ ActsShaped /\ Len(dataset) \in Nat BY ActsFacts DEF ActualsInv, ActsTold
  <1>1. UNCHANGED <<sweep, answer, built>> BY DEF Unpin, Delete
  <1>2. PICK kind \in {"unpin", "delete"} : Acted(kind, dataset[d].company, d) BY DEF Unpin, Delete
  <1>3. d \in 1 .. Len(dataset) BY <1>0, ActsFacts DEF Unpin, Delete
  <1>4. dataset[d].company \in Companies /\ kind \in Landings \cup {"unpin", "delete"} /\ d \in Nat
    BY <1>0, <1>3, ActsFacts DEF DatasetRows
  <1>5. /\ Len(act') = Len(act) + 1 /\ \A i \in 1 .. Len(act) : act'[i] = act[i]
        /\ act'[Len(act) + 1].kind # "sweep"
    <2>1. act'[Len(act) + 1].kind = kind BY <1>0, <1>2, <1>4, ActAdded
    <2> QED BY <1>0, <1>2, <1>4, <2>1, ActAdded
  <1>6. /\ ActsTold' /\ Len(dataset') = Len(dataset)
        /\ \A e \in 1 .. Len(dataset) : dataset'[e].company = dataset[e].company /\ dataset'[e].content = dataset[e].content
    BY <1>0, UnpinnedTold, DeletedTold
  <1> QED BY <1>0, <1>1, <1>5, <1>6, OthersAct

-----------------------------------------------------------------------------
\* A sweep that goes on loses nothing it pulled, and decides only when it
\* pulled something.
LEMMA OnwardFacts ==
  ASSUME NEW s \in SweepRows
  PROVE  /\ Onward(s) \in SweepRows /\ Onward(s).pulled = s.pulled /\ Onward(s).lost = s.lost
         /\ Onward(s).rows = s.rows /\ Onward(s).auto = s.auto /\ Onward(s).unasked = s.unasked
         /\ Placed(Onward(s))
  <1>1. CASE s.phase = "pull" /\ s.todo # {} BY <1>1 DEF Onward, Placed
  <1>2. CASE ~ (s.phase = "pull" /\ s.todo # {})
    <2>1. PICK phase \in {"idle", "decide"} : /\ phase = IF s.pulled = {} THEN "idle" ELSE "decide"
                                              /\ Onward(s) = [s EXCEPT !.phase = phase]
      BY <1>2 DEF Onward
    <2> QED BY <2>1 DEF SweepRows, Placed
  <1> QED BY <1>1, <1>2

\* The invariant when a sweep pulls a source.
LEMMA SweepPullKeeps ==
  ASSUME ActualsInv, NEW f \in Connections, NEW x \in Contents, SweepPull(f, x)
  PROVE  ActualsInv'
  <1>0. ActsTold /\ ActsShaped /\ SweepShaped /\ Len(dataset) \in Nat /\ Len(act) \in Nat
    BY ActsFacts DEF ActualsInv, ActsTold
  <1>1. PICK c \in Companies : c = OwnerOf[f] BY ActualsAssumption
  <1>2. PICK n, e : n = Len(act) /\ e = Len(dataset) + 1 OBVIOUS
  <1>3. Acted("sweep", c, e) /\ dataset' = Landed(c, x, FALSE) /\ UNCHANGED <<answer, built>>
    BY <1>1, <1>2 DEF SweepPull, Persist
  <1>4. "sweep" \in Landings /\ e \in Nat BY <1>0, <1>2 DEF Landings
  <1>5. /\ Len(act') = n + 1 /\ \A i \in 1 .. n : act'[i] = act[i]
        /\ act'[n + 1].kind = "sweep" /\ act'[n + 1].dataset = e /\ act'[n + 1].company = c
    BY <1>0, <1>2, <1>3, <1>4, ActAdded
  <1>6. /\ ActsTold' /\ Len(dataset') = e
        /\ \A d \in 1 .. Len(dataset) : dataset'[d] = dataset[d]
        /\ dataset'[e].company = c /\ dataset'[e].content = x
    <2>1. PICK no \in BOOLEAN : no = FALSE OBVIOUS
    <2>2. no <=> "sweep" = "upload" BY <2>1
    <2>3. dataset' = Landed(c, x, no) BY <1>3, <2>1
    <2> QED BY <1>0, <1>2, <1>3, <1>4, <2>2, <2>3, LandedTold
  <1>7. /\ sweep' \in SweepRows /\ sweep'.pulled = sweep.pulled \cup {e} /\ sweep'.lost = sweep.lost
        /\ sweep'.rows = (sweep.rows \/ x \notin Rowless)
        /\ sweep'.auto = sweep.auto /\ sweep'.unasked = sweep.unasked /\ Placed(sweep')
    <2>1. PICK s : s = [sweep EXCEPT !.todo = @ \ {f}, !.pulled = @ \cup {e}, !.rows = @ \/ x \notin Rowless]
      OBVIOUS
    <2>2. sweep' = Onward(s) BY <1>2, <2>1 DEF SweepPull
    <2>3. sweep \in SweepRows BY <1>0 DEF SweepShaped
    <2>4. PICK rows \in BOOLEAN : rows = (sweep.rows \/ x \notin Rowless) OBVIOUS
    <2>5. s = [sweep EXCEPT !.todo = @ \ {f}, !.pulled = @ \cup {e}, !.rows = rows] BY <2>1, <2>4
    <2>6. /\ s \in SweepRows /\ s.pulled = sweep.pulled \cup {e} /\ s.lost = sweep.lost
          /\ s.rows = rows /\ s.auto = sweep.auto /\ s.unasked = sweep.unasked
      BY <1>4, <2>3, <2>5 DEF SweepRows
    <2> QED BY <2>2, <2>4, <2>6, OnwardFacts
  <1>8. SweptActs' = SweptActs \cup {n + 1}
    <2>1. 1 .. Len(act') = (1 .. n) \cup {n + 1} /\ n + 1 \notin 1 .. n BY <1>0, <1>2, <1>5
    <2> QED BY <1>2, <1>5, <2>1 DEF SweptActs
  <1>9. \A i \in SweptActs : i \in 1 .. n /\ act'[i] = act[i] /\ act[i].dataset \in 1 .. Len(dataset)
    BY <1>0, <1>2, <1>5 DEF SweptActs, ActsTold, ActFits
  <1>10. SweepShaped'
    <2>1. 1 .. Len(dataset) \subseteq 1 .. e /\ e \in 1 .. e /\ e \notin 1 .. Len(dataset) BY <1>0, <1>2
    <2> QED BY <1>0, <1>3, <1>6, <1>7, <2>1 DEF SweepShaped
  <1>11. PulledLast'
    <2>1. ASSUME NEW p \in sweep'.pulled PROVE \E i \in SweptActs' : act'[i].dataset = p
      <3>1. CASE p = e BY <1>5, <1>8, <3>1
      <3>2. CASE p \in sweep.pulled BY <1>8, <1>9, <3>2 DEF ActualsInv, PulledLast
      <3> QED BY <1>7, <2>1, <3>1, <3>2
    <2>2. ASSUME NEW p \in sweep'.pulled, NEW i \in SweptActs', act'[i].dataset \notin sweep'.pulled,
                 act'[i].company = dataset'[p].company
          PROVE  act'[i].dataset < p
      <3>1. i \in SweptActs BY <1>5, <1>7, <1>8, <2>2
      <3>2. CASE p = e BY <1>0, <1>2, <1>9, <3>1, <3>2
      <3>3. CASE p \in sweep.pulled
        <4>1. dataset'[p] = dataset[p] BY <1>0, <1>6, <3>3 DEF SweepShaped
        <4> QED BY <1>7, <1>9, <2>2, <3>1, <3>3, <4>1 DEF ActualsInv, PulledLast
      <3> QED BY <1>7, <2>2, <3>2, <3>3
    <2> QED BY <2>1, <2>2 DEF PulledLast
  <1>12. AnswersApart'
    <2>1. 1 .. Len(dataset) \subseteq 1 .. Len(dataset') /\ e \notin 1 .. Len(dataset) BY <1>0, <1>2, <1>6
    <2>2. ASSUME NEW a \in answer
          PROVE  a.ids \cap (sweep'.pulled \cup sweep'.lost) = {} /\ a.ids \subseteq 1 .. Len(dataset')
      BY <1>7, <2>1 DEF ActualsInv, AnswersApart
    <2>3. sweep'.pulled \cap sweep'.lost = {} BY <1>0, <1>7, <2>1 DEF ActualsInv, AnswersApart, SweepShaped
    <2> QED BY <1>3, <2>2, <2>3 DEF ActualsInv, AnswersApart
  <1>13. SweptAnswered'
    <2>1. ASSUME NEW i \in SweptActs'
          PROVE  \/ act'[i].dataset \in sweep'.lost \cup sweep'.unasked \cup sweep'.pulled
                 \/ \E a \in answer : act'[i].dataset \in a.ids
      <3>1. CASE i = n + 1 BY <1>5, <1>7, <3>1
      <3>2. CASE i \in SweptActs BY <1>7, <1>9, <3>2 DEF ActualsInv, SweptAnswered
      <3> QED BY <1>8, <3>1, <3>2
    <2> QED BY <1>3, <2>1 DEF SweptAnswered
  <1>14. NoticesExcused'
    <2>1. ASSUME NEW a \in answer PROVE a.at <= Len(act') /\ (a.kind = "notice" => Excused(a)')
      <3>1. a \in AnswerRows /\ a.at <= Len(act) /\ (a.kind = "notice" => Excused(a))
        BY DEF ActualsInv, SweepShaped, NoticesExcused
      <3>2. a.at \in Nat BY <3>1 DEF AnswerRows
      <3>3. Len(act') \in Nat /\ \A i \in 1 .. Len(act) : act'[i] = act[i] BY <1>0, <1>2, <1>5
      <3>4. a.at <= Len(act') BY <1>0, <1>2, <1>5, <3>1, <3>2
      <3> QED BY <1>0, <3>1, <3>3, <3>4, ExcuseStands
    <2> QED BY <1>3, <2>1 DEF NoticesExcused
  <1>15. RowlessPassed'
    <2>1. \A d \in sweep.pulled \cup sweep.unasked : dataset'[d] = dataset[d] BY <1>0, <1>6 DEF SweepShaped
    <2> QED BY <1>6, <1>7, <2>1 DEF ActualsInv, RowlessPassed
  <1> QED BY <1>6, <1>10, <1>11, <1>12, <1>13, <1>14, <1>15 DEF ActualsInv

-----------------------------------------------------------------------------
(* Steps that neither land nor delete anything *)

\* What is told stays told while nothing is done to a dataset.
LEMMA SameActs ==
  ASSUME ActualsInv, UNCHANGED <<dataset, act>>
  PROVE  ActsTold' /\ (SweptActs' = SweptActs) /\ (\A a \in AnswerRows : Excused(a)' <=> Excused(a))
  BY DEF ActualsInv, ActsTold, ActsShaped, RowTold, Since, ActFits, SweepsFresh, SweptActs, Excused, Standing

\* The sync begins, passes over a connection, or dies: what it drops is noted.
LEMMA SweepMoves ==
  ASSUME ActualsInv, UNCHANGED <<dataset, act, answer, built>>,
         sweep' \in SweepRows, Placed(sweep'), sweep'.auto = sweep.auto,
         sweep.pulled = {} \/ sweep'.rows = sweep.rows,
         \/ /\ sweep'.pulled = sweep.pulled /\ sweep'.lost = sweep.lost /\ sweep'.unasked = sweep.unasked
         \/ /\ sweep'.pulled = {} /\ sweep'.lost = sweep.lost \cup sweep.pulled
            /\ sweep'.unasked = sweep.unasked
         \/ /\ sweep'.pulled = {} /\ sweep'.unasked = sweep.unasked \cup sweep.pulled
            /\ sweep'.lost = sweep.lost /\ ~ (sweep.auto /\ sweep.rows)
  PROVE  ActualsInv'
  <1>1. SweepShaped' BY DEF ActualsInv, SweepShaped
  <1>2. PulledLast' BY SameActs DEF ActualsInv, PulledLast
  <1>3. AnswersApart' BY DEF ActualsInv, AnswersApart
  <1>4. SweptAnswered' BY SameActs DEF ActualsInv, SweptAnswered
  <1>5. NoticesExcused' BY SameActs DEF ActualsInv, NoticesExcused, SweepShaped
  <1>6. RowlessPassed' BY DEF ActualsInv, RowlessPassed
  <1> QED BY <1>1, <1>2, <1>3, <1>4, <1>5, <1>6, SameActs DEF ActualsInv

\* The invariant when a sweep starts.
LEMMA SweepStartKeeps ==
  ASSUME ActualsInv, SweepStart
  PROVE  ActualsInv'
  <1>1. sweep \in SweepRows BY DEF ActualsInv, SweepShaped
  <1>2. sweep' = [sweep EXCEPT !.phase = "pull", !.number = @ + 1, !.todo = Connections, !.rows = FALSE]
    BY DEF SweepStart
  <1>3. /\ sweep' \in SweepRows /\ sweep'.phase = "pull" /\ sweep'.pulled = sweep.pulled
        /\ sweep'.lost = sweep.lost /\ sweep'.auto = sweep.auto /\ sweep'.unasked = sweep.unasked
    <2>1. sweep.number + 1 \in Nat /\ Connections \in SUBSET Connections BY <1>1 DEF SweepRows
    <2> QED BY <1>1, <1>2, <2>1 DEF SweepRows
  <1>4. sweep.pulled = {} BY DEF SweepStart, ActualsInv, SweepShaped, Placed
  <1> QED BY <1>3, <1>4, SweepMoves DEF SweepStart, Placed

\* The invariant when a sweep's pull fails.
LEMMA SweepPullFailsKeeps ==
  ASSUME ActualsInv, NEW f \in Connections, SweepPullFails(f)
  PROVE  ActualsInv'
  <1>1. sweep \in SweepRows BY DEF ActualsInv, SweepShaped
  <1>2. PICK s : s = [sweep EXCEPT !.todo = @ \ {f}] OBVIOUS
  <1>3. /\ s \in SweepRows /\ s.pulled = sweep.pulled /\ s.lost = sweep.lost
        /\ s.rows = sweep.rows /\ s.auto = sweep.auto /\ s.unasked = sweep.unasked
    BY <1>1, <1>2 DEF SweepRows
  <1>4. sweep' = Onward(s) BY <1>2 DEF SweepPullFails
  <1>5. /\ sweep' \in SweepRows /\ sweep'.pulled = sweep.pulled /\ sweep'.lost = sweep.lost /\ Placed(sweep')
        /\ sweep'.rows = sweep.rows /\ sweep'.auto = sweep.auto /\ sweep'.unasked = sweep.unasked
    BY <1>3, <1>4, OnwardFacts
  <1> QED BY <1>5, SweepMoves DEF SweepPullFails

\* The invariant when a sweep dies.
LEMMA SweepDiesKeeps ==
  ASSUME ActualsInv, SweepDies
  PROVE  ActualsInv'
  <1>1. sweep \in SweepRows BY DEF ActualsInv, SweepShaped
  <1>2. sweep' = [sweep EXCEPT !.phase = "idle", !.todo = {}, !.pulled = {}, !.lost = @ \cup sweep.pulled]
    BY DEF SweepDies
  <1>3. /\ sweep' \in SweepRows /\ sweep'.phase = "idle"
        /\ sweep'.pulled = {} /\ sweep'.lost = sweep.lost \cup sweep.pulled
        /\ sweep'.rows = sweep.rows /\ sweep'.auto = sweep.auto /\ sweep'.unasked = sweep.unasked
    BY <1>1, <1>2 DEF SweepRows
  <1> QED BY <1>3, SweepMoves DEF SweepDies, Placed

\* The invariant when a sweep asks nothing.
LEMMA SweepPassesKeeps ==
  ASSUME ActualsInv, SweepPasses
  PROVE  ActualsInv'
  <1>1. sweep \in SweepRows BY DEF ActualsInv, SweepShaped
  <1>2. sweep' = [sweep EXCEPT !.phase = "idle", !.pulled = {}, !.unasked = @ \cup sweep.pulled]
    BY DEF SweepPasses
  <1>3. /\ sweep' \in SweepRows /\ sweep'.phase = "idle" /\ sweep'.pulled = {}
        /\ sweep'.unasked = sweep.unasked \cup sweep.pulled
        /\ sweep'.rows = sweep.rows /\ sweep'.auto = sweep.auto /\ sweep'.lost = sweep.lost
    BY <1>1, <1>2 DEF SweepRows
  <1> QED BY <1>3, SweepMoves DEF SweepPasses, Placed

\* A pull is passed over only for a reason: an upload of the company stands, or
\* somebody landed or deleted data of the company after it.
LEMMA PassedOver ==
  ASSUME ActualsInv, NEW c \in Companies, PulledFor(c) # {}, Resolve(c) \cap PulledFor(c) = {},
         NEW a \in AnswerRows, a.company = c, a.ids = PulledFor(c), a.at = Len(act)
  PROVE  Excused(a)
  <1>0. ActsTold /\ ActsShaped /\ SweepShaped BY DEF ActualsInv, ActsTold
  <1>1. PICK n : n = Len(act) OBVIOUS
  <1>2. n \in Nat /\ Datasets = 1 .. Len(dataset) BY <1>0, <1>1, ActsFacts
  <1>3. PICK d \in sweep.pulled : dataset[d].company = c /\ d \in a.ids BY DEF PulledFor
  <1>4. PICK j \in SweptActs : act[j].dataset = d BY DEF ActualsInv, PulledLast
  <1>5. j \in 1 .. n /\ act[j].kind = "sweep" BY <1>1 DEF SweptActs
  <1>6. d \in 1 .. Len(dataset) /\ RowTold(d) BY <1>0 DEF SweepShaped, ActsTold
  <1>7. j <= dataset[d].at /\ dataset[d].at \in 1 .. n
    <2>1. dataset[d].at \in 1 .. n BY <1>1, <1>6 DEF RowTold
    <2>2. ~ (j > dataset[d].at) BY <1>1, <1>4, <1>5, <1>6 DEF RowTold, Since, Landings
    <2> QED BY <1>2, <1>5, <2>1, <2>2
  <1>8. SUFFICES ASSUME Standing(c, n) = {}
        PROVE  \E i \in 1 .. n :
                  /\ act[i].company = c /\ act[i].kind \in {"upload", "pull", "delete"}
                  /\ \E k \in 1 .. i - 1 : act[k].kind = "sweep" /\ act[k].dataset \in a.ids
    BY <1>1 DEF Excused
  <1>9. CASE ~ dataset[d].live
    <2>1. PICK i \in 1 .. n : i > dataset[d].at /\ act[i].dataset = d /\ act[i].kind = "delete"
      BY <1>1, <1>6, <1>9 DEF RowTold, Since
    <2>2. act[i].company = c BY <1>0, <1>1, <1>3, <2>1 DEF ActsTold, ActFits
    <2>3. j \in 1 .. i - 1 BY <1>2, <1>5, <1>7, <2>1
    <2> QED BY <1>3, <1>4, <1>5, <2>1, <2>2, <2>3
  <1>10. CASE dataset[d].live
    <2>1. d \in Live(c) BY <1>2, <1>3, <1>6, <1>10 DEF Live
    <2>2. ASSUME NEW e \in Live(c) PROVE ~ dataset[e].pinned
      <3>1. e \in 1 .. Len(dataset) /\ dataset[e].live /\ dataset[e].company = c BY <1>2 DEF Live
      <3>2. SUFFICES ASSUME dataset[e].pinned PROVE dataset[e].at \in Standing(c, n) BY <1>8
      <3>3. RowTold(e) BY <1>0, <3>1 DEF ActsTold
      <3>4. PICK i \in 1 .. n : i = dataset[e].at BY <1>1, <3>3 DEF RowTold
      <3>5. act[i].kind = "upload" /\ act[i].dataset = e BY <3>2, <3>3, <3>4 DEF RowTold
      <3>6. act[i].company = c BY <1>0, <1>1, <3>1, <3>5 DEF ActsTold, ActFits
      <3>7. ASSUME NEW k \in (i + 1) .. n, act[k].dataset = e PROVE FALSE
        <4>1. k \in 1 .. n /\ k > i BY <1>2
        <4>2. act[k].kind \in Landings \cup {"unpin", "delete"} BY <1>0, <1>1, <4>1, ActsFacts DEF ActRows
        <4> QED BY <1>1, <3>1, <3>2, <3>3, <3>4, <3>7, <4>1, <4>2 DEF RowTold, Since
      <3> QED BY <3>4, <3>5, <3>6, <3>7 DEF Standing
    <2>3. Resolve(c) = {Newest(Live(c))} BY <2>1, <2>2 DEF Resolve
    <2>4. \E e \in Live(c) : \A g \in Live(c) : dataset[g].at <= dataset[e].at
      <3> DEFINE T == {dataset[e].at : e \in Live(c)}
      <3>1. T \in SUBSET (1 .. n) /\ T # {}
        <4>1. \A e \in Live(c) : dataset[e].at \in 1 .. n BY <1>0, <1>1, <1>2 DEF Live, ActsTold, RowTold
        <4> QED BY <2>1, <4>1
      <3>2. \E m \in T : \A k \in T : k <= m
        <4> HIDE DEF T
        <4> QED BY <1>2, <3>1, LastExists
      <3> QED BY <3>2
    <2>5. PICK e \in Live(c) : e = Newest(Live(c)) /\ \A g \in Live(c) : dataset[g].at <= dataset[e].at
      BY <2>4 DEF Newest
    <2>6. /\ e \in 1 .. Len(dataset) /\ dataset[e].company = c /\ e \notin sweep.pulled /\ e # d
          /\ RowTold(e)
      <3>1. e \notin PulledFor(c) BY <2>3, <2>5
      <3> QED BY <1>0, <1>2, <1>3, <3>1 DEF Live, PulledFor, ActsTold
    <2>7. PICK i \in 1 .. n : i = dataset[e].at BY <1>1, <2>6 DEF RowTold
    <2>8. act[i].dataset = e /\ act[i].kind \in Landings /\ act[i].company = c
      BY <1>0, <1>1, <2>6, <2>7 DEF RowTold, ActsTold, ActFits
    <2>9. j < i
      <3>1. dataset[d].at <= i BY <2>1, <2>5, <2>7
      <3>2. j # i BY <1>4, <2>6, <2>8
      <3> QED BY <1>5, <1>7, <3>1, <3>2
    <2>10. act[i].kind # "sweep"
      <3> SUFFICES ASSUME act[i].kind = "sweep" PROVE FALSE OBVIOUS
      <3>1. d < e BY <1>0, <1>1, <1>4, <1>5, <2>8, <2>9 DEF ActsTold, SweepsFresh
      <3>2. i \in SweptActs BY <1>1 DEF SweptActs
      <3>3. e < d BY <1>3, <2>6, <2>8, <3>2 DEF ActualsInv, PulledLast
      <3> QED BY <1>6, <2>6, <3>1, <3>3
    <2>11. j \in 1 .. i - 1 BY <1>5, <2>9
    <2> QED BY <1>3, <1>4, <1>5, <2>8, <2>10, <2>11 DEF Landings
  <1> QED BY <1>9, <1>10

\* The invariant when a sweep answers.
LEMMA SweepDecideKeeps ==
  ASSUME ActualsInv, SweepDecide
  PROVE  ActualsInv'
  <1>0. /\ ActsTold /\ ActsShaped /\ SweepShaped /\ sweep \in SweepRows /\ Len(act) \in Nat
        /\ UNCHANGED <<dataset, act, built>>
    BY ActsFacts DEF ActualsInv, ActsTold, SweepShaped, SweepDecide
  <1>1. Min(sweep.pulled) \in sweep.pulled
    <2>1. sweep.pulled \in SUBSET Nat /\ sweep.pulled # {} BY <1>0 DEF SweepDecide, SweepShaped, SweepRows, Placed
    <2> QED BY <2>1, LeastExists DEF Min
  <1>2. PICK c : c = dataset[Min(sweep.pulled)].company OBVIOUS
  <1>3. PICK ids : ids = PulledFor(c) OBVIOUS
  <1>4. c \in Companies /\ ids # {} /\ ids \subseteq sweep.pulled
    <2>1. Min(sweep.pulled) \in 1 .. Len(dataset) BY <1>0, <1>1 DEF SweepShaped
    <2>2. dataset[Min(sweep.pulled)] \in DatasetRows BY <1>0, <2>1, ActsFacts
    <2> QED BY <1>1, <1>2, <1>3, <2>2 DEF DatasetRows, PulledFor
  <1>5. PICK kind \in IF Resolve(c) \cap ids # {} THEN {"queued", "refused"} ELSE {"notice"} :
            answer' = answer \cup {[kind |-> kind, company |-> c, ids |-> ids, at |-> Len(act)]}
    BY <1>2, <1>3 DEF SweepDecide
  <1>6. PICK a : a = [kind |-> kind, company |-> c, ids |-> ids, at |-> Len(act)] OBVIOUS
  <1>7. /\ a \in AnswerRows /\ a.company = c /\ a.ids = ids /\ a.at = Len(act)
        /\ a.kind = "notice" => Resolve(c) \cap ids = {}
    <2>1. kind \in {"queued", "refused", "notice"} /\ (kind = "notice" => Resolve(c) \cap ids = {}) BY <1>5
    <2>2. ids \in SUBSET Nat BY <1>0, <1>4 DEF SweepRows
    <2> QED BY <1>0, <1>4, <1>6, <2>1, <2>2 DEF AnswerRows
  <1>8. answer' = answer \cup {a} BY <1>5, <1>6
  <1>9. /\ sweep' \in SweepRows /\ sweep'.pulled = sweep.pulled \ ids /\ sweep'.lost = sweep.lost
        /\ sweep'.rows = sweep.rows /\ sweep'.auto = sweep.auto /\ sweep'.unasked = sweep.unasked
        /\ Placed(sweep')
    <2>1. PICK s : s = [sweep EXCEPT !.pulled = @ \ ids] OBVIOUS
    <2>2. sweep' = Onward(s) BY <1>2, <1>3, <2>1 DEF SweepDecide
    <2>3. /\ s \in SweepRows /\ s.pulled = sweep.pulled \ ids /\ s.lost = sweep.lost
          /\ s.rows = sweep.rows /\ s.auto = sweep.auto /\ s.unasked = sweep.unasked
      BY <1>0, <2>1 DEF SweepRows
    <2> QED BY <2>2, <2>3, OnwardFacts
  <1>10. SweepShaped' BY <1>0, <1>7, <1>8, <1>9 DEF SweepShaped
  <1>11. \A i \in SweptActs : act[i].dataset \in sweep.pulled => (act[i].dataset \in ids <=> act[i].company = c)
    BY <1>0, <1>3 DEF SweptActs, ActsTold, ActFits, PulledFor
  <1>12. PulledLast'
    <2>1. ASSUME NEW p \in sweep.pulled \ ids PROVE \E i \in SweptActs : act[i].dataset = p
      BY DEF ActualsInv, PulledLast
    <2>2. ASSUME NEW p \in sweep.pulled \ ids, NEW i \in SweptActs, act[i].dataset \notin sweep.pulled \ ids,
                 act[i].company = dataset[p].company
          PROVE  act[i].dataset < p
      <3>1. dataset[p].company # c BY <1>3 DEF PulledFor
      <3>2. act[i].dataset \notin sweep.pulled BY <1>11, <2>2, <3>1
      <3> QED BY <2>2, <3>2 DEF ActualsInv, PulledLast
    <2> QED BY <1>0, <1>9, <2>1, <2>2, SameActs DEF PulledLast
  <1>13. AnswersApart'
    <2>1. ASSUME NEW b \in answer PROVE b.ids \cap ids = {} /\ b.ids \cap (sweep.pulled \cup sweep.lost) = {}
      BY <1>4 DEF ActualsInv, AnswersApart
    <2>2. ASSUME NEW b \in answer \cup {a}
          PROVE  b.ids \cap (sweep'.pulled \cup sweep'.lost) = {} /\ b.ids \subseteq 1 .. Len(dataset)
      <3>1. CASE b \in answer BY <1>9, <2>1, <3>1 DEF ActualsInv, AnswersApart
      <3>2. CASE b = a
        <4>1. ids \cap sweep.lost = {} BY <1>4 DEF ActualsInv, AnswersApart
        <4> QED BY <1>0, <1>4, <1>7, <1>9, <3>2, <4>1 DEF SweepShaped
      <3> QED BY <2>2, <3>1, <3>2
    <2>3. ASSUME NEW b \in answer \cup {a}, NEW g \in answer \cup {a}, b.ids \cap g.ids # {} PROVE b = g
      BY <1>7, <2>1, <2>3 DEF ActualsInv, AnswersApart
    <2>4. sweep'.pulled \cap sweep'.lost = {} BY <1>9 DEF ActualsInv, AnswersApart
    <2> QED BY <1>0, <1>8, <2>2, <2>3, <2>4 DEF AnswersApart
  <1>14. SweptAnswered'
    <2>1. ASSUME NEW i \in SweptActs
          PROVE  \/ act[i].dataset \in sweep'.lost \cup sweep'.unasked \cup sweep'.pulled
                 \/ \E b \in answer \cup {a} : act[i].dataset \in b.ids
      BY <1>7, <1>9 DEF ActualsInv, SweptAnswered
    <2> QED BY <1>0, <1>8, <2>1, SameActs DEF SweptAnswered
  <1>15. NoticesExcused'
    <2>1. ASSUME NEW b \in answer \cup {a} PROVE b.at <= Len(act) /\ (b.kind = "notice" => Excused(b))
      <3>1. CASE b \in answer BY <3>1 DEF ActualsInv, NoticesExcused
      <3>2. CASE b = a BY <1>0, <1>3, <1>4, <1>7, <3>2, PassedOver
      <3> QED BY <2>1, <3>1, <3>2
    <2>2. answer \cup {a} \subseteq AnswerRows BY <1>0, <1>7 DEF SweepShaped
    <2> QED BY <1>0, <1>8, <2>1, <2>2, SameActs DEF NoticesExcused
  <1>16. RowlessPassed' BY <1>0, <1>9 DEF ActualsInv, RowlessPassed
  <1> QED BY <1>0, <1>10, <1>12, <1>13, <1>14, <1>15, <1>16, SameActs DEF ActualsInv

-----------------------------------------------------------------------------
(* Baselines *)

\* What is resolved for a company is a live dataset of its own.
LEMMA ResolvedKnown ==
  ASSUME ActsTold, NEW c \in Companies, NEW d \in Resolve(c)
  PROVE  d \in 1 .. Len(dataset) /\ dataset[d].live /\ dataset[d].company = c
  <1>1. Live(c) \subseteq 1 .. Len(dataset) /\ \A e \in Live(c) : RowTold(e)
    BY ActsFacts DEF Live, ActsTold
  <1>2. ASSUME NEW S \in SUBSET Live(c), S # {} PROVE Newest(S) \in S
    <2> DEFINE T == {dataset[e].at : e \in S}
    <2>1. Len(act) \in Nat BY ActsFacts DEF ActsTold
    <2>2. T \in SUBSET (1 .. Len(act)) /\ T # {} BY <1>1, <1>2 DEF RowTold
    <2>3. \E m \in T : \A k \in T : k <= m
      <3> HIDE DEF T
      <3> QED BY <2>1, <2>2, LastExists
    <2>4. \E m \in S : \A e \in S : dataset[e].at <= dataset[m].at BY <2>3
    <2> QED BY <2>4 DEF Newest
  <1>3. d \in Live(c)
    <2> DEFINE pinned == {e \in Live(c) : dataset[e].pinned}
    <2>1. CASE pinned # {} BY <1>2, <2>1 DEF Resolve
    <2>2. CASE pinned = {} BY <1>2, <2>2 DEF Resolve
    <2> QED BY <2>1, <2>2
  <1> QED BY <1>1, <1>3 DEF Live

\* A baseline is built of a dataset of its company, and changes no dataset.
LEMMA BuiltAdded ==
  ASSUME ActualsInv, NEW c \in Companies, NEW d \in 1 .. Len(dataset), NEW how \in {"current", "by_id"},
         Built(c, d, how), UNCHANGED <<dataset, act, sweep>>
  PROVE  /\ built' \in Seq(BuiltRows) /\ \A i \in 1 .. Len(built') : built'[i].dataset \in 1 .. Len(dataset)
         /\ \A i \in DOMAIN built' \ DOMAIN built : built'[i].company = c /\ built'[i].dataset = d
                                                     /\ built'[i].asked = how
  <1>1. PICK r : r = [company |-> c, dataset |-> d, asked |-> how] OBVIOUS
  <1>2. Len(dataset) \in Nat BY ActsFacts DEF ActualsInv, ActsTold
  <1>3. r \in BuiltRows /\ r.company = c /\ r.dataset = d /\ r.asked = how BY <1>1, <1>2 DEF BuiltRows
  <1>4. built' = Append(built, r) BY <1>1 DEF Built
  <1>5. built \in Seq(BuiltRows) /\ \A i \in 1 .. Len(built) : built[i].dataset \in 1 .. Len(dataset)
    BY DEF ActualsInv, SweepShaped
  <1>6. PICK n \in Nat : n = Len(built) /\ DOMAIN built = 1 .. n BY <1>5, LenProperties
  <1>7. /\ built' \in Seq(BuiltRows) /\ Len(built') = n + 1 /\ built'[n + 1] = r
        /\ \A i \in 1 .. n : built'[i] = built[i]
    BY <1>3, <1>4, <1>5, <1>6, AppendProperties
  <1>8. DOMAIN built' = 1 .. (n + 1) BY <1>7, LenProperties
  <1>9. \A i \in 1 .. (n + 1) : i \in 1 .. n \/ i = n + 1 OBVIOUS
  <1> QED BY <1>3, <1>5, <1>6, <1>7, <1>8, <1>9

\* The invariant when something is built from a known dataset.
LEMMA BuildKeeps ==
  ASSUME ActualsInv, UNCHANGED <<dataset, act, sweep, answer>>,
         built' \in Seq(BuiltRows), \A i \in 1 .. Len(built') : built'[i].dataset \in 1 .. Len(dataset)
  PROVE  ActualsInv'
  <1>1. SweepShaped' BY DEF ActualsInv, SweepShaped
  <1>2. PulledLast' BY SameActs DEF ActualsInv, PulledLast
  <1>3. AnswersApart' BY DEF ActualsInv, AnswersApart
  <1>4. SweptAnswered' BY SameActs DEF ActualsInv, SweptAnswered
  <1>5. NoticesExcused' BY SameActs DEF ActualsInv, NoticesExcused, SweepShaped
  <1>6. RowlessPassed' BY DEF ActualsInv, RowlessPassed
  <1> QED BY <1>1, <1>2, <1>3, <1>4, <1>5, <1>6, SameActs DEF ActualsInv

\* The invariant when a forecast is generated.
LEMMA GenerateKeeps ==
  ASSUME ActualsInv, \/ \E c \in Companies : Generate(c)
                     \/ \E d \in 1 .. MaxActs : GenerateFrom(d)
  PROVE  ActualsInv'
  <1>0. ActsTold BY DEF ActualsInv
  <1>1. ASSUME NEW c \in Companies, Generate(c) PROVE ActualsInv'
    <2>1. PICK d \in Resolve(c) : Built(c, d, "current") BY <1>1 DEF Generate
    <2>2. d \in 1 .. Len(dataset) BY <1>0, ResolvedKnown
    <2> QED BY <1>1, <2>1, <2>2, BuiltAdded, BuildKeeps DEF Generate
  <1>2. ASSUME NEW d \in 1 .. MaxActs, GenerateFrom(d) PROVE ActualsInv'
    <2>1. PICK c : c = dataset[d].company OBVIOUS
    <2>2. d \in 1 .. Len(dataset) /\ Built(c, d, "by_id") BY <1>0, <1>2, <2>1, ActsFacts DEF GenerateFrom, ActsTold
    <2>3. c \in Companies BY <1>0, <2>1, <2>2, ActsFacts DEF ActsTold, DatasetRows
    <2> QED BY <1>2, <2>2, <2>3, BuiltAdded, BuildKeeps DEF GenerateFrom
  <1> QED BY <1>1, <1>2

\* The invariant when a queued answer is run.
LEMMA RunQueuedKeeps ==
  ASSUME ActualsInv, NEW a \in answer, RunQueued(a)
  PROVE  ActualsInv'
  <1>0. ActsTold /\ a \in AnswerRows /\ a.kind = "queued" /\ UNCHANGED <<dataset, act, sweep>>
    BY DEF ActualsInv, SweepShaped, RunQueued
  <1>1. PICK kind \in {"built", "failed"} : answer' = (answer \ {a}) \cup {[a EXCEPT !.kind = kind]}
    BY DEF RunQueued
  <1>2. PICK b : b = [a EXCEPT !.kind = kind] OBVIOUS
  <1>3. b \in AnswerRows /\ b.ids = a.ids /\ b.at = a.at /\ b.kind # "notice" BY <1>0, <1>2 DEF AnswerRows
  <1>4. answer' = (answer \ {a}) \cup {b} BY <1>1, <1>2
  <1>5. built' \in Seq(BuiltRows) /\ \A i \in 1 .. Len(built') : built'[i].dataset \in 1 .. Len(dataset)
    <2>1. CASE UNCHANGED built BY <2>1 DEF ActualsInv, SweepShaped
    <2>2. CASE \E d \in Resolve(a.company) : Built(a.company, d, "current")
      <3>1. PICK d \in Resolve(a.company) : Built(a.company, d, "current") BY <2>2
      <3>2. a.company \in Companies BY <1>0 DEF AnswerRows
      <3>3. d \in 1 .. Len(dataset) BY <1>0, <3>2, ResolvedKnown
      <3> QED BY <1>0, <3>1, <3>2, <3>3, BuiltAdded
    <2> QED BY <2>1, <2>2 DEF RunQueued
  <1>6. SweepShaped' BY <1>0, <1>3, <1>4, <1>5 DEF ActualsInv, SweepShaped
  <1>7. PulledLast' BY <1>0, SameActs DEF ActualsInv, PulledLast
  <1>8. AnswersApart'
    <2>1. \A g \in answer' : \E h \in answer : g.ids = h.ids /\ (g = b <=> h = a)
      <3>1. ASSUME NEW g \in answer \ {a} PROVE g.ids = g.ids /\ (g = b => g.ids = a.ids) BY <1>3
      <3> QED BY <1>3, <1>4
    <2> QED BY <1>0, <1>3, <1>4 DEF ActualsInv, AnswersApart
  <1>9. SweptAnswered'
    <2>1. \A h \in answer : \E g \in answer' : g.ids = h.ids BY <1>3, <1>4
    <2> QED BY <1>0, <2>1, SameActs DEF ActualsInv, SweptAnswered
  <1>10. NoticesExcused'
    <2>1. ASSUME NEW g \in answer' PROVE g.at <= Len(act) /\ (g.kind = "notice" => Excused(g))
      BY <1>3, <1>4 DEF ActualsInv, NoticesExcused
    <2>2. answer' \subseteq AnswerRows BY <1>6 DEF SweepShaped
    <2> QED BY <1>0, <2>1, <2>2, SameActs DEF NoticesExcused
  <1>11. RowlessPassed' BY <1>0 DEF ActualsInv, RowlessPassed
  <1> QED BY <1>0, <1>6, <1>7, <1>8, <1>9, <1>10, <1>11, SameActs DEF ActualsInv

-----------------------------------------------------------------------------
\* The invariant at the start.
LEMMA ActualsInitial == ActualsInit => ActualsInv
  <1> SUFFICES ASSUME ActualsInit PROVE ActualsInv OBVIOUS
  <1>1. /\ dataset = <<>> /\ act = <<>> /\ built = <<>> /\ answer = {}
    BY DEF ActualsInit
  <1>7. PICK auto \in BOOLEAN : sweep = [phase |-> "idle", number |-> 0, todo |-> {}, rows |-> FALSE,
                                         pulled |-> {}, lost |-> {}, auto |-> auto, unasked |-> {}]
    BY DEF ActualsInit
  <1>2. /\ dataset \in Seq(DatasetRows) /\ act \in Seq(ActRows) /\ built \in Seq(BuiltRows)
        /\ Len(dataset) = 0 /\ Len(act) = 0 /\ Len(built) = 0
    BY <1>1, EmptySeq
  <1>3. ActsTold BY <1>2, ActualsAssumption DEF ActsTold, ActsShaped, SweepsFresh
  <1>4. /\ sweep \in SweepRows /\ sweep.phase = "idle"
        /\ sweep.pulled = {} /\ sweep.lost = {} /\ sweep.unasked = {}
    BY <1>7 DEF SweepRows
  <1>5. SweepShaped BY <1>1, <1>2, <1>4 DEF SweepShaped, Placed
  <1>6. SweptActs = {} BY <1>2 DEF SweptActs
  <1> QED BY <1>1, <1>3, <1>4, <1>5, <1>6
          DEF ActualsInv, PulledLast, AnswersApart, SweptAnswered, NoticesExcused, RowlessPassed

\* The invariant in every step.
LEMMA ActualsSteps ==
  ASSUME ActualsInv, [ActualsNext]_actualsVars
  PROVE  ActualsInv'
  <1>1. CASE UNCHANGED actualsVars
    <2>1. UNCHANGED <<dataset, act, sweep, answer, built>> BY <1>1 DEF actualsVars
    <2> QED BY <2>1, BuildKeeps DEF ActualsInv, SweepShaped
  <1>2. CASE ActualsNext
    <2>1. CASE \E c \in Companies, x \in Contents : Upload(c, x) BY <2>1, UploadKeeps
    <2>2. CASE \E f \in Connections, x \in Contents : Pull(f, x) BY <2>2, PullKeeps
    <2>3. CASE SweepStart BY <2>3, SweepStartKeeps
    <2>4. CASE \E f \in Connections, x \in Contents : SweepPull(f, x) BY <2>4, SweepPullKeeps
    <2>5. CASE \E f \in Connections : SweepPullFails(f) BY <2>5, SweepPullFailsKeeps
    <2>6. CASE SweepDecide BY <2>6, SweepDecideKeeps
    <2>11. CASE SweepPasses BY <2>11, SweepPassesKeeps
    <2>7. CASE SweepDies BY <2>7, SweepDiesKeeps
    <2>8. CASE (\E c \in Companies : Generate(c)) \/ (\E d \in 1 .. MaxActs : GenerateFrom(d))
      BY <2>8, GenerateKeeps
    <2>9. CASE \E a \in answer : RunQueued(a) BY <2>9, RunQueuedKeeps
    <2>10. CASE \E d \in 1 .. MaxActs : Unpin(d) \/ Delete(d) BY <2>10, UnpinKeeps
    <2> QED BY <1>2, <2>1, <2>2, <2>3, <2>4, <2>5, <2>6, <2>7, <2>8, <2>9, <2>10, <2>11
        DEF ActualsNext
  <1> QED BY <1>1, <1>2

\* Whatever people upload, pull, unpin and delete between the awaits of a sync,
\* and wherever the worker is restarted, the rows tell their acts and each pull
\* of a sync is pending, lost or answered (ingest_actuals, unpin_dataset, the
\* sync's loop and _regenerate_synced).
THEOREM ActualsCorrect == ActualsSpec => []ActualsInv
  <1>1. ActualsInit => ActualsInv BY ActualsInitial
  <1>2. ActualsInv /\ [ActualsNext]_actualsVars => ActualsInv' BY ActualsSteps
  <1> QED BY <1>1, <1>2, PTL DEF ActualsSpec

\* Rows, acts, the sync, its answers and the baselines keep their types.
THEOREM ActualsTypesKept == ActualsSpec => []ActualsTypeOK
  <1>1. ActualsInv => ActualsTypeOK
    <2> SUFFICES ASSUME ActualsInv PROVE ActualsTypeOK OBVIOUS
    <2>1. ActsTold /\ ActsShaped /\ SweepShaped BY DEF ActualsInv, ActsTold
    <2>2. \A d \in Datasets : dataset[d] \in DatasetRows /\ dataset[d].at \in 1 .. Len(act)
      BY <2>1, ActsFacts DEF ActsTold, RowTold
    <2>3. \A d \in Datasets :
              /\ dataset[d].company \in Companies /\ dataset[d].content \in Contents
              /\ dataset[d].pinned \in BOOLEAN /\ dataset[d].live \in BOOLEAN
      BY <2>2, Zenon DEF DatasetRows
    <2>4. Len(act) \in 0 .. MaxActs BY <2>1, ActsFacts, ActualsAssumption DEF ActsShaped
    <2>5. /\ sweep.phase \in {"idle", "pull", "decide"} /\ sweep.todo \subseteq Connections
          /\ sweep.auto \in BOOLEAN /\ sweep.rows \in BOOLEAN
      BY <2>1 DEF SweepShaped, SweepRows
    <2>6. \A a \in answer : a.kind \in {"queued", "refused", "notice", "built", "failed"}
      BY <2>1 DEF SweepShaped, AnswerRows
    <2>7. \A i \in DOMAIN built : built[i].company \in Companies /\ built[i].dataset \in Datasets
      <3>1. \A i \in DOMAIN built : i \in 1 .. Len(built) /\ built[i] \in BuiltRows
        BY <2>1, LenProperties, ElementOfSeq DEF SweepShaped
      <3> QED BY <2>1, <3>1, ActsFacts DEF SweepShaped, BuiltRows
    <2> QED BY <2>2, <2>3, <2>4, <2>5, <2>6, <2>7 DEF ActualsTypeOK
  <1> QED BY <1>1, ActualsCorrect, PTL

\* What a sync pulled is answered for once or noted as lost, and its notices have
\* a reason (the sync's loop, _regenerate_synced).
THEOREM PullsAnsweredAlways == ActualsSpec => []PullsAnswered
  <1>1. ActualsInv => PullsAnswered
    <2> SUFFICES ASSUME ActualsInv PROVE PullsAnswered OBVIOUS
    <2>1. DOMAIN act = 1 .. Len(act) BY ActsFacts DEF ActualsInv, ActsTold
    <2>2. ASSUME NEW i \in DOMAIN act, act[i].kind = "sweep",
                 act[i].dataset \notin sweep.lost \cup sweep.unasked \cup sweep.pulled
          PROVE  Cardinality({a \in answer : act[i].dataset \in a.ids}) = 1
      <3>1. i \in SweptActs BY <2>1, <2>2 DEF SweptActs
      <3>2. PICK a \in answer : act[i].dataset \in a.ids BY <2>2, <3>1 DEF ActualsInv, SweptAnswered
      <3>3. \A b \in answer : act[i].dataset \in b.ids => b = a BY <3>2 DEF ActualsInv, AnswersApart
      <3>4. {b \in answer : act[i].dataset \in b.ids} = {a} BY <3>2, <3>3
      <3> QED BY <3>4, FS_Singleton
    <2>3. \A a \in answer : a.kind = "notice" => Excused(a) BY DEF ActualsInv, NoticesExcused
    <2>4. sweep.auto => \A d \in sweep.unasked : dataset[d].content \in Rowless
      BY DEF ActualsInv, RowlessPassed
    <2> QED BY <2>2, <2>3, <2>4 DEF PullsAnswered, Excused
  <1> QED BY <1>1, ActualsCorrect, PTL

-----------------------------------------------------------------------------
(* The latest upload *)

\* The uploads that stand are the last landings of the pinned, live rows.
LEMMA StandingPinned ==
  ASSUME ActsTold, NEW c
  PROVE  Standing(c, Len(act)) = {dataset[d].at : d \in {e \in Live(c) : dataset[e].pinned}}
  <1>0. ActsShaped BY DEF ActsTold
  <1>1. PICK n : n = Len(act) OBVIOUS
  <1>2. n \in Nat /\ Datasets = 1 .. Len(dataset) BY <1>0, <1>1, ActsFacts
  <1>3. ASSUME NEW i \in Standing(c, n)
        PROVE  \E d \in Live(c) : dataset[d].pinned /\ i = dataset[d].at
    <2>1. i \in 1 .. n /\ act[i].kind = "upload" /\ act[i].company = c BY DEF Standing
    <2>2. \A j \in (i + 1) .. n : act[j].dataset # act[i].dataset BY DEF Standing
    <2>3. PICK d \in 1 .. Len(dataset) : d = act[i].dataset /\ dataset[d].company = c
      BY <1>1, <2>1 DEF ActsTold, ActFits
    <2>4. RowTold(d) BY DEF ActsTold
    <2>5. \A k : ~ Since(i, d, k) BY <1>1, <1>2, <2>1, <2>2, <2>3 DEF Since
    <2>6. dataset[d].at = i
      <3>1. dataset[d].at \in 1 .. n /\ act[dataset[d].at].dataset = d BY <1>1, <2>4 DEF RowTold
      <3>2. ~ (dataset[d].at > i)
        <4>1. dataset[d].at > i => dataset[d].at \in (i + 1) .. n BY <1>2, <2>1, <3>1
        <4> QED BY <2>2, <2>3, <3>1, <4>1
      <3>3. ~ (i > dataset[d].at) BY <1>1, <2>1, <2>3, <2>4 DEF RowTold, Since, Landings
      <3> QED BY <1>2, <2>1, <3>1, <3>2, <3>3
    <2>7. dataset[d].pinned /\ dataset[d].live BY <2>1, <2>4, <2>5, <2>6 DEF RowTold
    <2> QED BY <1>2, <2>3, <2>6, <2>7 DEF Live
  <1>4. ASSUME NEW d \in Live(c), dataset[d].pinned PROVE dataset[d].at \in Standing(c, n)
    <2>1. d \in 1 .. Len(dataset) /\ dataset[d].live /\ dataset[d].company = c BY <1>2 DEF Live
    <2>2. RowTold(d) BY <2>1 DEF ActsTold
    <2>3. PICK i \in 1 .. n : i = dataset[d].at BY <1>1, <2>2 DEF RowTold
    <2>4. act[i].kind = "upload" /\ act[i].dataset = d BY <1>4, <2>2, <2>3 DEF RowTold
    <2>5. act[i].company = c BY <1>0, <1>1, <2>1, <2>4 DEF ActsTold, ActFits
    <2>6. ASSUME NEW k \in (i + 1) .. n, act[k].dataset = d PROVE FALSE
      <3>1. k \in 1 .. n /\ k > i BY <1>2
      <3>2. act[k].kind \in Landings \cup {"unpin", "delete"} BY <1>0, <1>1, <3>1, ActsFacts DEF ActRows
      <3> QED BY <1>1, <1>4, <2>1, <2>2, <2>3, <2>6, <3>1, <3>2 DEF RowTold, Since
    <2> QED BY <2>3, <2>4, <2>5, <2>6 DEF Standing
  <1> QED BY <1>1, <1>3, <1>4

\* What is resolved for a company is the dataset of its last act that stands.
LEMMA LatestResolved ==
  ASSUME ActsTold, NEW c, Standing(c, Len(act)) # {}, NEW d \in Resolve(c)
  PROVE  d = act[CHOOSE k \in Standing(c, Len(act)) : \A j \in Standing(c, Len(act)) : j <= k].dataset
  <1>1. PICK S : S = Standing(c, Len(act)) OBVIOUS
  <1>2. PICK P : P = {e \in Live(c) : dataset[e].pinned} OBVIOUS
  <1>3. S = {dataset[e].at : e \in P} /\ P # {} BY <1>1, <1>2, StandingPinned
  <1>4. d = Newest(P) BY <1>2, <1>3 DEF Resolve
  <1>5. \A e \in P : e \in 1 .. Len(dataset) /\ RowTold(e) BY <1>2, ActsFacts DEF Live, ActsTold
  <1>6. Len(act) \in Nat BY ActsFacts DEF ActsTold
  <1>7. S \in SUBSET (1 .. Len(act)) /\ S # {} BY <1>1, <1>6 DEF Standing
  <1>8. PICK m \in S : \A k \in S : k <= m BY <1>6, <1>7, LastExists
  <1>9. PICK last \in S : last = (CHOOSE k \in S : \A j \in S : j <= k) /\ \A j \in S : j <= last
    BY <1>8
  <1>10. d \in P /\ \A e \in P : dataset[e].at <= dataset[d].at
    <2>1. \E e \in P : \A g \in P : dataset[g].at <= dataset[e].at BY <1>3, <1>8
    <2> QED BY <1>4, <2>1 DEF Newest
  <1>11. dataset[d].at = last
    <2>1. dataset[d].at \in S BY <1>3, <1>10
    <2>2. dataset[d].at <= last BY <1>9, <2>1
    <2>3. PICK e \in P : last = dataset[e].at BY <1>3
    <2>4. last <= dataset[d].at BY <1>10, <2>3
    <2>5. \A i, j \in Nat : i <= j /\ j <= i => i = j OBVIOUS
    <2>6. last \in Nat /\ dataset[d].at \in Nat
      <3>1. S \subseteq Nat BY <1>7
      <3> QED BY <2>1, <3>1
    <2> QED BY <2>2, <2>4, <2>5, <2>6
  <1>12. act[last].dataset = d BY <1>5, <1>10, <1>11 DEF RowTold
  <1> QED BY <1>1, <1>9, <1>12

\* A baseline of the current dataset takes the last upload that stands, whatever
\* was pulled meanwhile (resolve_current_dataset).
THEOREM LatestUploadUsedAlways == ActualsSpec => LatestUploadUsed
  <1> DEFINE Used ==
        \A i \in DOMAIN built' \ DOMAIN built :
          LET v       == built'[i]
              uploads == Standing(v.company, Len(act))
          IN  v.asked = "current" /\ uploads # {} =>
                 v.dataset = act[CHOOSE k \in uploads : \A j \in uploads : j <= k].dataset
  <1>1. ASSUME ActualsInv, [ActualsNext]_actualsVars PROVE [Used]_actualsVars
    <2>0. ActsTold /\ Len(dataset) \in Nat BY <1>1, ActsFacts DEF ActualsInv, ActsTold
    <2>1. CASE built' = built BY <2>1
    <2>2. ASSUME NEW c \in Companies, NEW d \in Resolve(c), Built(c, d, "current"),
                 UNCHANGED <<dataset, act, sweep>>
          PROVE  Used
      <3>1. d \in 1 .. Len(dataset) BY <2>0, ResolvedKnown
      <3>2. \A i \in DOMAIN built' \ DOMAIN built : built'[i].company = c /\ built'[i].dataset = d
        BY <1>1, <2>2, <3>1, BuiltAdded
      <3> QED BY <2>0, <3>2, LatestResolved
    <2>3. ASSUME NEW d \in 1 .. MaxActs, GenerateFrom(d) PROVE Used
      <3>1. PICK c : c = dataset[d].company OBVIOUS
      <3>2. d \in 1 .. Len(dataset) /\ Built(c, d, "by_id")
        BY <2>0, <2>3, <3>1, ActsFacts DEF GenerateFrom, ActsTold
      <3>3. c \in Companies BY <2>0, <3>1, <3>2, ActsFacts DEF ActsTold, DatasetRows
      <3>4. \A i \in DOMAIN built' \ DOMAIN built : built'[i].asked = "by_id"
        BY <1>1, <2>3, <3>2, <3>3, BuiltAdded DEF GenerateFrom
      <3> QED BY <3>4
    <2>4. ASSUME NEW a \in answer, RunQueued(a) PROVE Used \/ built' = built
      <3>1. a.company \in Companies BY <1>1 DEF ActualsInv, SweepShaped, AnswerRows
      <3> QED BY <2>2, <2>4, <3>1 DEF RunQueued
    <2> HIDE DEF Used
    <2>5. ASSUME ~ UNCHANGED built PROVE Used
      <3>1. ActualsNext BY <1>1, <2>5 DEF actualsVars
      <3>2. \/ \E c \in Companies : Generate(c)
            \/ \E d \in 1 .. MaxActs : GenerateFrom(d)
            \/ \E a \in answer : RunQueued(a)
        BY <2>5, <3>1
           DEF ActualsNext, Upload, Pull, SweepStart, SweepPull, SweepPullFails, SweepPasses, SweepDecide, SweepDies,
               Unpin, Delete
      <3> QED BY <2>2, <2>3, <2>4, <2>5, <3>2 DEF Generate
    <2> QED BY <2>1, <2>5
  <1>2. ActualsInv /\ [ActualsNext]_actualsVars => [Used]_actualsVars BY <1>1
  <1> QED BY <1>2, ActualsCorrect, PTL DEF ActualsSpec, LatestUploadUsed

-----------------------------------------------------------------------------
(***************************************************************************)
(* DriversFollow for any drivers, lines, values and number of runs.  A     *)
(* link remembers its run, and that run is one of its line: so what a      *)
(* later run of the line retires is exactly what earlier ones left.  A     *)
(* cached fit lies under the hash of the very value it was made of.        *)
(***************************************************************************)

RunRows == [line : DrivenLines, status : {"completed", "insufficient_data"}]

\* LinksTypeOK without its bounds, and the run of a link is one that was made.
LinksShaped ==
    /\ links \in Seq(LinkRows) /\ runs \in Seq(RunRows)
    /\ \A i \in DOMAIN links : links[i].run <= Len(runs)

LinksInv == LinksShaped /\ CandidatesOfLastRun

CacheInv ==
    /\ reading \in [CachedDrivers -> Readings]
    /\ \A f \in fits : f.on \in Readings /\ \E d \in CachedDrivers : f.key = [driver |-> d, fingerprint |-> Hash(f.on)]
    /\ ForecastFollowsActuals

-----------------------------------------------------------------------------
\* A link newly made is a link.
LEMMA NewLinkType ==
    ASSUME NEW d \in Series, NEW l \in DrivenLines, NEW status \in LinkStatuses, NEW run \in 0 .. MaxRuns
    PROVE  NewLink(d, l, status, run) \in LinkRows
BY DEF NewLink, LinkRows

\* Every link names a run that was made.
LEMMA RunsCount ==
    ASSUME LinksShaped
    PROVE  /\ Len(runs) \in Nat
           /\ \A i \in DOMAIN links : links[i] \in LinkRows /\ links[i].run \in Nat /\ links[i].run <= Len(runs)
<1>1. \A k \in LinkRows : k.run \in Nat
  BY DriverLinksAssumption DEF LinkRows
<1> QED BY <1>1 DEF LinksShaped

\* A link after a completed run of line l.
AfterRun(k, l, run) == IF Stale(k, l, run) THEN [k EXCEPT !.status = "superseded"] ELSE k

\* What a run makes of a link: superseded when stale, and otherwise the same.
LEMMA AfterRunType ==
    ASSUME NEW k \in LinkRows, NEW l, NEW run
    PROVE  /\ AfterRun(k, l, run) \in LinkRows
           /\ AfterRun(k, l, run).run = k.run /\ AfterRun(k, l, run).line = k.line
           /\ AfterRun(k, l, run).promoted = k.promoted
           /\ AfterRun(k, l, run).status = IF Stale(k, l, run) THEN "superseded" ELSE k.status
BY DEF AfterRun, LinkRows, LinkStatuses

\* The links' invariant when a link is asserted.
LEMMA AssertKeeps ==
    ASSUME LinksInv, NEW d \in Series, NEW l \in DrivenLines, NEW status \in LinkStatuses, AssertLink(d, l, status)
    PROVE  LinksInv'
<1>1. NewLink(d, l, status, 0) \in LinkRows
  BY NewLinkType, DriverLinksAssumption
<1>2. links' = Append(links, NewLink(d, l, status, 0)) /\ runs' = runs /\ NewLink(d, l, status, 0).run = 0
  BY DEF AssertLink, NewLink
<1>3. /\ links' \in Seq(LinkRows)
      /\ \A i \in DOMAIN links' : (i \in DOMAIN links /\ links'[i] = links[i]) \/ links'[i].run = 0
  BY <1>1, <1>2 DEF LinksInv, LinksShaped
<1>4. LinksShaped'
  BY <1>2, <1>3 DEF LinksInv, LinksShaped
<1>5. CandidatesOfLastRun'
  BY <1>2, <1>3 DEF LinksInv, CandidatesOfLastRun, LaterRuns
<1> QED BY <1>4, <1>5 DEF LinksInv

\* The links' invariant when a link is promoted.
LEMMA PromotionKeepsLinks ==
    ASSUME LinksInv, NEW i, PromoteLink(i)
    PROVE  LinksInv'
<1>1. /\ links' = [links EXCEPT ![i].status = "active", ![i].promoted = TRUE] /\ runs' = runs
      /\ links \in Seq(LinkRows) /\ i \in DOMAIN links
  BY DEF PromoteLink, LinksInv, LinksShaped
<1> DEFINE row == [links[i] EXCEPT !.status = "active", !.promoted = TRUE]
<1>5. links[i] \in LinkRows
  BY <1>1
<1>6. row \in LinkRows /\ row.status = "active" /\ row.run = links[i].run
  BY <1>5 DEF LinkRows, LinkStatuses
<1>7. row.promoted = TRUE
  BY <1>5 DEF LinkRows
<1>8. links' = [links EXCEPT ![i] = row]
  BY <1>1, <1>5
<1> HIDE DEF row
<1>2. /\ links' \in Seq(LinkRows) /\ DOMAIN links' = DOMAIN links
      /\ \A j \in DOMAIN links \ {i} : links'[j] = links[j]
      /\ links'[i] = row
  <2>1. links \in [1 .. Len(links) -> LinkRows] /\ Len(links) \in Nat
    BY <1>1
  <2>2. links' \in [1 .. Len(links) -> LinkRows]
    BY <1>6, <1>8, <2>1
  <2>3. links' \in Seq(LinkRows)
    BY <2>1, <2>2, SeqDef
  <2> QED BY <1>1, <1>8, <2>1, <2>2, <2>3
<1>3. LinksShaped'
  BY <1>1, <1>2, <1>6 DEF LinksInv, LinksShaped
<1>4. CandidatesOfLastRun'
  <2> SUFFICES ASSUME NEW j \in DOMAIN links', links'[j].run # 0
               PROVE  links'[j].status = IF links'[j].promoted THEN "active"
                                         ELSE IF LaterRuns(runs', links'[j]) = {} THEN "candidate"
                                         ELSE "superseded"
    BY DEF CandidatesOfLastRun
  <2>1. CASE j = i
    BY <1>2, <1>6, <1>7, <2>1
  <2>2. CASE j # i
    BY <1>1, <1>2, <2>2 DEF LinksInv, CandidatesOfLastRun
  <2> QED BY <2>1, <2>2
<1> QED BY <1>3, <1>4 DEF LinksInv

\* The links' invariant when a run finds too little data.
LEMMA InsufficientKeeps ==
    ASSUME LinksInv, NEW l \in DrivenLines, DiscoverInsufficient(l)
    PROVE  LinksInv'
<1>1. runs' = Append(runs, [line |-> l, status |-> "insufficient_data"]) /\ links' = links /\ runs \in Seq(RunRows)
  BY DEF DiscoverInsufficient, LinksInv, LinksShaped
<1>2. runs' \in Seq(RunRows) /\ Len(runs') = Len(runs) + 1
  BY <1>1 DEF RunRows
<1>3. LinksShaped'
  BY <1>1, <1>2, RunsCount DEF LinksInv, LinksShaped
<1>4. \A k : LaterRuns(runs', k) = LaterRuns(runs, k)
  BY <1>1, <1>2 DEF LaterRuns
<1>5. CandidatesOfLastRun'
  BY <1>1, <1>4 DEF LinksInv, CandidatesOfLastRun
<1> QED BY <1>3, <1>5 DEF LinksInv

\* A completed run: the candidates of its line become superseded and it is their later run;
\* other lines see no later run; its own survivors have none.
LEMMA DiscoverKeeps ==
    ASSUME LinksInv, NEW l \in DrivenLines, NEW survivors \in SUBSET Series, Discover(l, survivors)
    PROVE  LinksInv'
<1> DEFINE run == Len(runs) + 1
           n   == Cardinality(survivors)
           old == Retired(l, run)
<1>1. PICK ranked \in Rankings(survivors) :
          links' = old \o [i \in 1 .. n |-> NewLink(ranked[i], l, "candidate", run)]
  BY DEF Discover
<1> DEFINE new == [i \in 1 .. n |-> NewLink(ranked[i], l, "candidate", run)]
<1>2. n \in Nat
  BY DriverLinksAssumption, FS_Subset, FS_CardinalityType
<1>3. /\ runs' = Append(runs, [line |-> l, status |-> "completed"]) /\ run \in 0 .. MaxRuns /\ run \in Nat
      /\ runs' \in Seq(RunRows) /\ Len(runs') = run /\ runs \in Seq(RunRows)
  BY DriverLinksAssumption DEF Discover, LinksInv, LinksShaped, RunRows
<1>4. /\ old \in Seq(LinkRows) /\ Len(old) = Len(links)
      /\ \A i \in DOMAIN links : old[i] = AfterRun(links[i], l, run)
  <2>1. old = [i \in 1 .. Len(links) |-> AfterRun(links[i], l, run)] /\ Len(links) \in Nat
    BY DEF Retired, AfterRun, LinksInv, LinksShaped
  <2>2. \A i \in 1 .. Len(links) : AfterRun(links[i], l, run) \in LinkRows
    BY AfterRunType DEF LinksInv, LinksShaped
  <2> HIDE DEF old
  <2> QED BY <2>1, <2>2 DEF LinksInv, LinksShaped
<1>5. new \in Seq(LinkRows) /\ Len(new) = n
  <2>1. \A i \in 1 .. n : ranked[i] \in Series
    BY DEF Rankings
  <2> QED BY <1>2, <1>3, <2>1, NewLinkType DEF LinkStatuses
<1>6. \A i \in 1 .. n : new[i].run = run /\ new[i].line = l /\ new[i].status = "candidate" /\ new[i].promoted = FALSE
  BY DEF NewLink
<1>11. links' = old \o new
  BY <1>1
<1> HIDE DEF old, new, n, run
<1>7. /\ links' \in Seq(LinkRows) /\ Len(links') = Len(links) + n
      /\ \A i \in 1 .. Len(links) : links'[i] = old[i]
      /\ \A i \in DOMAIN links' \ DOMAIN links : \E j \in 1 .. n : links'[i] = new[j]
  <2>1. Len(links) \in Nat /\ DOMAIN links = 1 .. Len(links)
    BY DEF LinksInv, LinksShaped
  <2>2. links' \in Seq(LinkRows) /\ Len(links') = Len(links) + n
    <3>1. old \o new \in Seq(LinkRows) /\ Len(old \o new) = Len(old) + Len(new)
      BY <1>4, <1>5, ConcatProperties
    <3> QED BY <1>4, <1>5, <1>11, <3>1
  <2>3. ASSUME NEW i \in 1 .. Len(links) + n
        PROVE  links'[i] = IF i <= Len(links) THEN old[i] ELSE new[i - Len(links)]
    BY <1>2, <1>4, <1>5, <1>11, <2>1
  <2>4. DOMAIN links' = 1 .. Len(links) + n
    BY <2>2
  <2>5. ASSUME NEW i \in DOMAIN links' \ DOMAIN links PROVE i - Len(links) \in 1 .. n /\ links'[i] = new[i - Len(links)]
    BY <1>2, <2>1, <2>3, <2>4
  <2>6. ASSUME NEW i \in 1 .. Len(links) PROVE links'[i] = old[i]
    BY <1>2, <2>1, <2>3
  <2> QED BY <2>2, <2>5, <2>6
<1>8. LinksShaped'
  <2>1. \A i \in DOMAIN links : links'[i].run = links[i].run
    <3> TAKE i \in DOMAIN links
    <3>1. i \in 1 .. Len(links) /\ links[i] \in LinkRows
      BY DEF LinksInv, LinksShaped
    <3>2. links'[i] = AfterRun(links[i], l, run)
      BY <1>4, <1>7, <3>1
    <3> QED BY <3>1, <3>2, AfterRunType
  <2>2. ASSUME NEW i \in DOMAIN links' PROVE links'[i].run <= run
    <3>1. CASE i \in DOMAIN links
      BY <2>1, <3>1, RunsCount DEF LinksInv, run
    <3>2. CASE i \notin DOMAIN links
      BY <1>3, <1>6, <1>7, <3>2
    <3> QED BY <3>1, <3>2
  <2> QED BY <1>3, <1>7, <2>2 DEF LinksShaped
<1>9. \A k : LaterRuns(runs', k) = LaterRuns(runs, k) \cup {r \in {run} : run > k.run /\ k.line = l}
  BY <1>3 DEF LaterRuns, run
<1>10. CandidatesOfLastRun'
  <2> SUFFICES ASSUME NEW i \in DOMAIN links', links'[i].run # 0
               PROVE  links'[i].status = IF links'[i].promoted THEN "active"
                                         ELSE IF LaterRuns(runs', links'[i]) = {} THEN "candidate"
                                         ELSE "superseded"
    BY DEF CandidatesOfLastRun
  <2>1. CASE i \in DOMAIN links
    <3> DEFINE k == links[i]
    <3>1. k \in LinkRows /\ k.run \in Nat /\ k.run < run /\ links'[i] = AfterRun(k, l, run)
      BY <1>4, <1>7, <2>1, RunsCount DEF LinksInv, LinksShaped, run
    <3>2. k.run # 0
      BY <3>1, AfterRunType
    <3>3. k.status = IF k.promoted THEN "active" ELSE IF LaterRuns(runs, k) = {} THEN "candidate" ELSE "superseded"
      BY <2>1, <3>2 DEF LinksInv, CandidatesOfLastRun
    <3> HIDE DEF k
    <3>4. LaterRuns(runs', links'[i]) = LaterRuns(runs, k) \cup {r \in {run} : k.line = l}
      <4>1. LaterRuns(runs', links'[i]) = LaterRuns(runs', k)
        BY <3>1, AfterRunType DEF LaterRuns
      <4> QED BY <1>3, <1>9, <3>1, <4>1 DEF run
    <3>5. CASE k.line = l
      <4>1. LaterRuns(runs', links'[i]) # {}
        BY <3>4, <3>5
      <4>2. Stale(k, l, run) <=> k.status = "candidate"
        BY <3>1, <3>2, <3>5 DEF Stale, run
      <4> QED BY <3>1, <3>3, <4>1, <4>2, AfterRunType
    <3>6. CASE k.line # l
      <4>1. LaterRuns(runs', links'[i]) = LaterRuns(runs, k) /\ ~Stale(k, l, run)
        BY <3>4, <3>6 DEF Stale
      <4> QED BY <3>1, <3>3, <4>1, AfterRunType
    <3> QED BY <3>5, <3>6
  <2>2. CASE i \notin DOMAIN links
    <3>1. links'[i].run = run /\ links'[i].status = "candidate" /\ links'[i].promoted = FALSE
      BY <1>6, <1>7, <2>2
    <3>2. LaterRuns(runs', links'[i]) = {}
      BY <1>3, <3>1 DEF LaterRuns, run
    <3> QED BY <3>1, <3>2
  <2> QED BY <2>1, <2>2
<1> QED BY <1>8, <1>10 DEF LinksInv

\* What discovery left on a line is the work of its last completed run and of people.
THEOREM LinksCorrect == LinksInv /\ [LinksNext]_linksVars => LinksInv'
<1> SUFFICES ASSUME LinksInv, [LinksNext]_linksVars PROVE LinksInv'
  OBVIOUS
<1>1. CASE UNCHANGED linksVars
  BY <1>1 DEF linksVars, LinksInv, LinksShaped, CandidatesOfLastRun, LaterRuns
<1> QED BY <1>1, AssertKeeps, PromotionKeepsLinks, InsufficientKeeps, DiscoverKeeps DEF LinksNext

\* A fold forecast rests on the value the driver has now: the same hash, so the same value, save
\* for the two that Python hashes alike.
THEOREM CacheCorrect == CacheInv /\ [CacheNext]_cacheVars => CacheInv'
<1> SUFFICES ASSUME CacheInv, [CacheNext]_cacheVars PROVE CacheInv'
  OBVIOUS
<1> USE DriverCacheAssumption DEF CacheInv, ForecastFollowsActuals
<1>1. ASSUME NEW d \in CachedDrivers, NEW x \in Readings, IngestValues(d, x) PROVE CacheInv'
  BY <1>1 DEF IngestValues
<1>2. ASSUME NEW d \in CachedDrivers, ForecastAtOrigin(d) PROVE CacheInv'
  <2> DEFINE hits == {f \in fits : f.key = CacheKey(d)}
             fit  == IF hits # {} THEN CHOOSE f \in hits : TRUE ELSE [key |-> CacheKey(d), on |-> reading[d]]
  <2>1. fits' = fits \cup {fit} /\ served' = {[driver |-> d, on |-> fit.on]} /\ reading' = reading
    BY <1>2 DEF ForecastAtOrigin
  <2>2. fit.key = CacheKey(d) /\ (fit \in fits \/ fit.on = reading[d])
    BY Zenon
  <2> HIDE DEF fit
  <2>6. ASSUME fit \in fits PROVE fit.on \in Readings /\ fit.key.fingerprint = Hash(fit.on)
    <3>1. PICK e \in CachedDrivers : fit.key = [driver |-> e, fingerprint |-> Hash(fit.on)]
      BY <2>6
    <3> QED BY <2>6, <3>1
  <2>7. CacheKey(d).fingerprint = Hash(reading[d])
    BY DEF CacheKey
  <2>3. fit.on \in Readings /\ Hash(fit.on) = Hash(reading[d])
    BY <2>2, <2>6, <2>7
  <2>4. fit.on = reading[d] \/ {fit.on, reading[d]} = {-1, -2}
    BY <2>3 DEF Hash
  <2>5. fit.key = [driver |-> d, fingerprint |-> Hash(fit.on)]
    BY <2>2, <2>3 DEF CacheKey
  <2> QED BY <2>1, <2>3, <2>4, <2>5
<1>3. CASE RestartCache
  BY <1>3 DEF RestartCache
<1>4. CASE UNCHANGED cacheVars
  BY <1>4 DEF cacheVars
<1> QED BY <1>1, <1>2, <1>3, <1>4 DEF CacheNext

\* Links and forecasts follow what people and feeds last said, however their steps interleave.
THEOREM DriversFollowAlways == DriversSpec => []DriversFollow
<1>1. DriversInit => LinksInv /\ CacheInv
  BY DEF DriversInit, LinksInit, CacheInit, LinksInv, LinksShaped, CandidatesOfLastRun, CacheInv, ForecastFollowsActuals
<1>2. LinksInv /\ CacheInv /\ [DriversNext]_<<linksVars, cacheVars>> => (LinksInv /\ CacheInv)'
  BY LinksCorrect, CacheCorrect DEF DriversNext
<1>3. LinksInv /\ CacheInv => DriversFollow
  BY DEF LinksInv, CacheInv, DriversFollow
<1> QED BY <1>1, <1>2, <1>3, PTL DEF DriversSpec

-----------------------------------------------------------------------------
\* A finite set's listing has its elements.
LEMMA SetListed ==
  ASSUME NEW S, IsFiniteSet(S)
  PROVE  Cardinality(S) \in Nat /\ SetToSeq(S) \in [1 .. Cardinality(S) -> S]
  <1>1. Cardinality(S) \in Nat /\ ExistsBijection(1 .. Cardinality(S), S) BY FS_CardinalityType
  <1>2. \E f \in [1 .. Cardinality(S) -> S] : IsInjective(f)
    BY <1>1 DEF ExistsBijection, Bijection, Injection
  <1> QED BY <1>1, <1>2 DEF SetToSeq

(***************************************************************************)
(* What is in force is what the last promotion put there: a rule is active *)
(* exactly while a promotion of it is the last on its slice and no later   *)
(* rejection names it.  A pass may refresh a rule that was promoted since  *)
(* it looked, but only with the direction it found there.                  *)
(***************************************************************************)
RuleRows  == [slice : Slices, stamp : Stamps, direction : Directions,
              status : {"candidate", "active", "rejected", "superseded"}]
AuditRows == [kind : {"promote", "reject"}, id : Nat, direction : Directions]

Matching(q) ==
    /\ q.running \in BOOLEAN /\ q.stamp \in Stamps
    /\ DOMAIN q.create \in SUBSET Slices
    /\ \A s \in DOMAIN q.create : q.create[s] \in Directions
    /\ \A i \in DOMAIN q.refresh : i \in 1 .. Len(rules) /\ q.refresh[i] = rules[i].direction

HShaped ==
    /\ rules \in Seq(RuleRows) /\ Len(rules) <= MaxRules
    /\ decisions \in Seq(AuditRows) /\ Len(decisions) <= MaxDecisions
    /\ \A k \in 1 .. Len(decisions) : decisions[k].id \in 1 .. Len(rules)
    /\ passing = [p \in Passes |-> passing[p]]
    /\ \A p \in Passes : Matching(passing[p])

InForce(k) ==
    /\ decisions[k].kind = "promote"
    /\ \A j \in 1 .. Len(decisions) : j > k =>
          /\ decisions[j].kind = "promote" => Signature(decisions[j].id) # Signature(decisions[k].id)
          /\ decisions[j].kind = "reject" => decisions[j].id # decisions[k].id

HeuristicsInv ==
    /\ HShaped
    /\ \A k \in 1 .. Len(decisions) : rules[decisions[k].id].direction = decisions[k].direction
    /\ \A i \in 1 .. Len(rules) :
          rules[i].status = "active" <=> \E k \in 1 .. Len(decisions) : decisions[k].id = i /\ InForce(k)

\* The shapes of the rules and of the decisions on them.
LEMMA RuleFacts ==
  ASSUME HShaped
  PROVE  /\ DOMAIN rules = 1 .. Len(rules) /\ Len(rules) \in Nat
         /\ DOMAIN decisions = 1 .. Len(decisions) /\ Len(decisions) \in Nat
         /\ \A i \in 1 .. Len(rules) : rules[i] \in RuleRows
         /\ \A k \in 1 .. Len(decisions) : decisions[k] \in AuditRows
  BY LenProperties, ElementOfSeq DEF HShaped

\* The invariant at the start.
LEMMA HInitial == HeuristicsInit => HeuristicsInv
  <1> SUFFICES ASSUME HeuristicsInit PROVE HeuristicsInv OBVIOUS
  <1> USE DEF HeuristicsInit
  <1>1. rules \in Seq(RuleRows) /\ Len(rules) = 0 /\ decisions \in Seq(AuditRows) /\ Len(decisions) = 0
    BY EmptySeq
  <1>2. Matching(NotPassing)
    <2>1. DOMAIN NotPassing.create = {} /\ DOMAIN NotPassing.refresh = {} BY DEF NotPassing
    <2>2. NotPassing.running = FALSE /\ NotPassing.stamp = NoUnit BY DEF NotPassing
    <2> QED BY <2>1, <2>2 DEF Matching, Stamps
  <1>3. HShaped BY <1>1, <1>2, HeuristicsAssumption DEF HShaped
  <1> QED BY <1>1, <1>3 DEF HeuristicsInv

\* With rows, decisions and signatures as they were, the same rules are in force.
LEMMA PassLoadKeeps ==
  ASSUME HeuristicsInv, NEW p \in Passes, NEW stamp \in Stamps, NEW found \in Found, PassLoad(p, stamp, found)
  PROVE  HeuristicsInv'
  <1> DEFINE covered  == {s \in Slices : found[s] # "nothing" /\ stamp \in {UnitOf[s], NoUnit}}
             inactive == {s \in covered : Matched(s, stamp, found[s], "active") = {}}
             open(s)  == Matched(s, stamp, found[s], "candidate")
             refresh  == [i \in {Min(open(s)) : s \in {t \in inactive : open(t) # {}}} |-> found[rules[i].slice]]
             create   == [s \in {t \in inactive : open(t) = {}} |-> found[s]]
  <1>0. HShaped BY DEF HeuristicsInv
  <1>a. PICK q : q = [stamp |-> stamp, running |-> TRUE, refresh |-> refresh, create |-> create] OBVIOUS
  <1>1. rules' = rules /\ decisions' = decisions /\ passing' = [passing EXCEPT ![p] = q]
    BY <1>a DEF PassLoad
  <1>2. \A s \in covered : found[s] \in Directions BY DEF Found
  <1>3. ASSUME NEW i \in DOMAIN refresh PROVE i \in 1 .. Len(rules) /\ refresh[i] = rules[i].direction
    <2>1. PICK s \in inactive : open(s) # {} /\ i = Min(open(s)) OBVIOUS
    <2>2. open(s) \in SUBSET (1 .. Len(rules)) BY <1>0, RuleFacts DEF Matched
    <2>3. i \in open(s)
      <3> HIDE DEF open
      <3>1. open(s) \in SUBSET Nat BY <2>2
      <3> QED BY <2>1, <3>1, LeastExists DEF Min
    <2>4. rules[i].slice = s /\ rules[i].direction = found[s] BY <2>3 DEF Matched, SameCase, Signature
    <2> QED BY <2>2, <2>3, <2>4
  <1>4. Matching(q)'
    <2>1. DOMAIN create \in SUBSET Slices /\ \A s \in DOMAIN create : create[s] \in Directions BY <1>2
    <2> HIDE DEF create, refresh
    <2>2. q.running = TRUE /\ q.stamp = stamp /\ q.create = create /\ q.refresh = refresh BY <1>a
    <2> QED BY <1>1, <1>3, <2>1, <2>2 DEF Matching
  <1>5. HShaped'
    <2>1. passing' = [r \in Passes |-> passing'[r]] BY <1>0, <1>1 DEF HShaped
    <2>2. ASSUME NEW r \in Passes PROVE Matching(passing[r])'
      <3>1. CASE r = p BY <1>0, <1>1, <1>4, <3>1 DEF HShaped, Matching
      <3>2. CASE r # p BY <1>0, <1>1, <3>2 DEF HShaped, Matching
      <3> QED BY <3>1, <3>2
    <2> QED BY <1>0, <1>1, <2>1, <2>2 DEF HShaped
  <1> QED BY SMTT(60), <1>1, <1>5 DEF HeuristicsInv, InForce, Signature

\* Rows are only added behind the others, and the new ones are candidates.
LEMMA PassCommitKeeps ==
  ASSUME HeuristicsInv, NEW p \in Passes, PassCommit(p)
  PROVE  HeuristicsInv'
  <1> DEFINE pass == passing[p]
             new  == SetToSeq(DOMAIN pass.create)
             old  == [i \in DOMAIN rules |->
                        IF i \in DOMAIN pass.refresh THEN [rules[i] EXCEPT !.direction = pass.refresh[i]]
                        ELSE rules[i]]
             more == [k \in DOMAIN new |-> NewRule(new[k], pass.stamp, pass.create[new[k]])]
  <1>0. HShaped /\ Matching(pass) BY DEF HeuristicsInv, HShaped
  <1>1. /\ rules' = old \o more /\ decisions' = decisions
        /\ passing' = [passing EXCEPT ![p] = NotPassing]
        /\ Len(rules) + Len(new) <= MaxRules
    BY DEF PassCommit
  <1>2. old = rules
    <2>1. ASSUME NEW i \in DOMAIN rules PROVE old[i] = rules[i]
      <3>1. CASE i \in DOMAIN pass.refresh
        <4>1. rules[i] \in RuleRows /\ pass.refresh[i] = rules[i].direction
          BY <1>0, <3>1, RuleFacts DEF Matching
        <4> QED BY <3>1, <4>1 DEF RuleRows
      <3> QED BY <3>1
    <2>2. DOMAIN old = DOMAIN rules /\ old = [i \in DOMAIN rules |-> old[i]] OBVIOUS
    <2>3. rules = [i \in DOMAIN rules |-> rules[i]] BY <1>0, LenProperties DEF HShaped
    <2> HIDE DEF old
    <2> QED BY <2>1, <2>2, <2>3
  <1>3. \E n \in Nat : new \in [1 .. n -> DOMAIN pass.create]
    <2>1. IsFiniteSet(DOMAIN pass.create) BY <1>0, FS_Subset, HeuristicsAssumption DEF Matching
    <2> QED BY <2>1, SetListed
  <1>4. PICK n \in Nat : new \in [1 .. n -> DOMAIN pass.create] BY <1>3
  <1>5. ASSUME NEW k \in 1 .. n PROVE more[k] \in RuleRows /\ more[k].status = "candidate"
    <2>1. new[k] \in Slices /\ pass.create[new[k]] \in Directions /\ pass.stamp \in Stamps
      BY <1>0, <1>4 DEF Matching
    <2> QED BY <1>4, <2>1 DEF NewRule, RuleRows
  <1>6. more \in Seq(RuleRows) /\ Len(more) = n /\ Len(new) = n
    <2>1. more \in [1 .. n -> RuleRows]
      <3>1. DOMAIN more = 1 .. n /\ more = [k \in 1 .. n |-> more[k]] BY <1>4
      <3> HIDE DEF more
      <3> QED BY <1>5, <3>1
    <2>2. new \in Seq(DOMAIN pass.create) BY <1>4, SeqDef
    <2>3. more \in Seq(RuleRows) BY <2>1, SeqDef
    <2> HIDE DEF new, more
    <2>4. Len(more) = n BY <2>1, <2>3, LenProperties
    <2>5. Len(new) = n BY <1>4, <2>2, LenProperties
    <2> QED BY <2>3, <2>4, <2>5
  <1> HIDE DEF new, more, old
  <1>7. /\ rules' \in Seq(RuleRows) /\ Len(rules') = Len(rules) + n /\ Len(rules) \in Nat
        /\ \A i \in 1 .. Len(rules) : i \in 1 .. Len(rules') /\ rules'[i] = rules[i]
        /\ \A i \in 1 .. Len(rules') : i \notin 1 .. Len(rules) => rules'[i].status = "candidate"
    <2>1. rules \in Seq(RuleRows) BY <1>0 DEF HShaped
    <2>2. Len(rules) \in Nat BY <2>1, LenProperties
    <2>3. /\ rules' \in Seq(RuleRows) /\ Len(rules') = Len(rules) + n
          /\ \A i \in 1 .. Len(rules) + n : rules'[i] = IF i <= Len(rules) THEN rules[i] ELSE more[i - Len(rules)]
      BY <1>1, <1>2, <1>6, <2>1, ConcatProperties
    <2>4. ASSUME NEW i \in 1 .. Len(rules'), i \notin 1 .. Len(rules) PROVE rules'[i].status = "candidate"
      <3>1. i - Len(rules) \in 1 .. n BY <2>2, <2>3, <2>4
      <3>2. rules'[i] = more[i - Len(rules)] BY <2>2, <2>3, <2>4
      <3> QED BY <1>5, <3>1, <3>2
    <2>5. ASSUME NEW i \in 1 .. Len(rules) PROVE i \in 1 .. Len(rules') /\ rules'[i] = rules[i]
      BY <2>2, <2>3
    <2> QED BY <2>2, <2>3, <2>4, <2>5
  <1>8. HShaped'
    <2>1. \A k \in 1 .. Len(decisions) : decisions[k].id \in 1 .. Len(rules)' BY <1>0, <1>7 DEF HShaped
    <2>2. passing' = [r \in Passes |-> passing'[r]] BY <1>0, <1>1 DEF HShaped
    <2>3. ASSUME NEW r \in Passes PROVE Matching(passing[r])'
      <3>1. CASE r = p
        <4>1. passing'[r] = NotPassing BY <1>0, <1>1, <3>1 DEF HShaped
        <4>2. /\ DOMAIN NotPassing.create = {} /\ DOMAIN NotPassing.refresh = {}
              /\ NotPassing.running = FALSE /\ NotPassing.stamp = NoUnit
          BY DEF NotPassing
        <4> QED BY <4>1, <4>2 DEF Matching, Stamps
      <3>2. CASE r # p
        <4>1. passing'[r] = passing[r] /\ Matching(passing[r]) BY <1>0, <1>1, <3>2 DEF HShaped
        <4> QED BY <1>7, <4>1 DEF Matching
      <3> QED BY <3>1, <3>2
    <2>4. Len(rules') <= MaxRules BY <1>1, <1>6, <1>7
    <2> QED BY <1>0, <1>1, <1>7, <2>1, <2>2, <2>3, <2>4 DEF HShaped
  <1>9. \A k \in 1 .. Len(decisions) :
          /\ rules'[decisions[k].id] = rules[decisions[k].id]
          /\ Signature(decisions[k].id)' = Signature(decisions[k].id)
    BY <1>0, <1>1, <1>7 DEF HShaped, Signature
  <1>10. \A k \in 1 .. Len(decisions) : InForce(k)' <=> InForce(k) BY <1>1, <1>9 DEF InForce
  <1>11. ASSUME NEW i \in 1 .. Len(rules)'
         PROVE  rules'[i].status = "active" <=> \E k \in 1 .. Len(decisions) : decisions[k].id = i /\ InForce(k)
    <2>1. CASE i \in 1 .. Len(rules) BY <1>7, <2>1 DEF HeuristicsInv
    <2>2. CASE i \notin 1 .. Len(rules)
      <3>1. rules'[i].status # "active" BY <1>7, <2>2
      <3>2. \A k \in 1 .. Len(decisions) : decisions[k].id # i BY <1>0, <2>2 DEF HShaped
      <3> QED BY <3>1, <3>2
    <2> QED BY <2>1, <2>2
  <1>12. \A k \in 1 .. Len(decisions) : rules'[decisions[k].id].direction = decisions[k].direction
    BY <1>9 DEF HeuristicsInv
  <1>13. ASSUME NEW i \in 1 .. Len(rules)'
         PROVE  (rules[i].status = "active" <=> \E k \in 1 .. Len(decisions) : decisions[k].id = i /\ InForce(k))'
    BY <1>1, <1>10, <1>11
  <1> QED BY <1>1, <1>8, <1>12, <1>13 DEF HeuristicsInv

\* The invariant when a pass dies.
LEMMA PassDiesKeeps ==
  ASSUME HeuristicsInv, NEW p \in Passes, PassDies(p)
  PROVE  HeuristicsInv'
  <1>0. HShaped BY DEF HeuristicsInv
  <1>1. rules' = rules /\ decisions' = decisions /\ passing' = [passing EXCEPT ![p] = NotPassing]
    BY DEF PassDies
  <1>2. Matching(NotPassing)'
    <2>1. /\ DOMAIN NotPassing.create = {} /\ DOMAIN NotPassing.refresh = {}
          /\ NotPassing.running = FALSE /\ NotPassing.stamp = NoUnit
      BY DEF NotPassing
    <2> QED BY <2>1 DEF Matching, Stamps
  <1>3. ASSUME NEW r \in Passes PROVE Matching(passing[r])'
    <2>1. passing'[r] = IF r = p THEN NotPassing ELSE passing[r] BY <1>0, <1>1 DEF HShaped
    <2> QED BY <1>0, <1>1, <1>2, <2>1 DEF HShaped, Matching
  <1>4. passing' = [r \in Passes |-> passing'[r]] BY <1>0, <1>1 DEF HShaped
  <1>5. HShaped' BY <1>0, <1>1, <1>3, <1>4 DEF HShaped
  <1> QED BY <1>1, <1>5 DEF HeuristicsInv, InForce, Signature

\* The last promotion on a signature takes over from every other rule there.
LEMMA PromoteKeeps ==
  ASSUME HeuristicsInv, NEW i \in 1 .. MaxRules, PromoteRule(i)
  PROVE  HeuristicsInv'
  <1> DEFINE new == [kind |-> "promote", id |-> i, direction |-> rules[i].direction]
  <1>0. HShaped BY DEF HeuristicsInv
  <1>n. PICK n : n = Len(decisions) OBVIOUS
  <1>1. /\ n = Len(decisions)
        /\ i \in 1 .. Len(rules) /\ n < MaxDecisions /\ n \in Nat
        /\ decisions' = Append(decisions, new) /\ passing' = passing
        /\ rules' = [j \in 1 .. Len(rules) |->
                        IF j = i THEN [rules[j] EXCEPT !.status = "active"]
                        ELSE IF j \in Siblings(i) THEN [rules[j] EXCEPT !.status = "superseded"]
                        ELSE rules[j]]
    BY <1>0, <1>n, RuleFacts DEF PromoteRule, Decided
  <1>2. rules[i] \in RuleRows /\ new \in AuditRows
    <2>1. rules[i] \in RuleRows /\ i \in Nat BY <1>0, <1>1, RuleFacts
    <2>2. rules[i].direction \in Directions BY <2>1 DEF RuleRows
    <2> QED BY <2>1, <2>2 DEF AuditRows
  <1> HIDE DEF new
  <1>3. /\ decisions' \in Seq(AuditRows) /\ Len(decisions') = n + 1
        /\ \A k \in 1 .. n : decisions'[k] = decisions[k]
        /\ decisions'[n + 1].kind = "promote" /\ decisions'[n + 1].id = i
        /\ decisions'[n + 1].direction = rules[i].direction
    <2>1. decisions \in Seq(AuditRows) BY <1>0 DEF HShaped
    <2>2. decisions'[n + 1] = new BY <1>1, <1>2, <2>1, AppendProperties
    <2>3. new.kind = "promote" /\ new.id = i /\ new.direction = rules[i].direction BY DEF new
    <2> QED BY <1>1, <1>2, <2>1, <2>2, <2>3, AppendProperties
  <1>4. ASSUME NEW j \in 1 .. Len(rules)
        PROVE  /\ rules'[j] \in RuleRows /\ rules'[j].direction = rules[j].direction
               /\ Signature(j)' = Signature(j)
               /\ rules'[j].status = "active" <=>
                     j = i \/ (rules[j].status = "active" /\ Signature(j) # Signature(i))
    <2>1. rules[j] \in RuleRows BY <1>0, RuleFacts
    <2>2. DOMAIN rules = 1 .. Len(rules) BY <1>0, RuleFacts
    <2>3. CASE j = i BY <1>1, <2>1, <2>3 DEF RuleRows, Signature
    <2>4. CASE j # i /\ j \in Siblings(i) BY <1>1, <2>1, <2>4 DEF RuleRows, Signature, Siblings
    <2>5. CASE j # i /\ j \notin Siblings(i) BY <1>1, <2>1, <2>2, <2>5 DEF Signature, Siblings
    <2> QED BY <2>3, <2>4, <2>5
  <1>5. rules' \in Seq(RuleRows) /\ Len(rules') = Len(rules)
    <2>1. Len(rules) \in Nat BY <1>0, RuleFacts
    <2>2. rules' \in [1 .. Len(rules) -> RuleRows] BY <1>1, <1>4
    <2>3. rules' \in Seq(RuleRows) BY <2>1, <2>2, SeqDef
    <2> QED BY <2>1, <2>2, <2>3, LenProperties
  <1>6. HShaped'
    <2>1. \A k \in 1 .. n + 1 : decisions'[k].id \in 1 .. Len(rules) BY <1>0, <1>1, <1>3 DEF HShaped
    <2>2. \A r \in Passes : Matching(passing[r])' BY <1>0, <1>1, <1>4, <1>5 DEF HShaped, Matching
    <2>3. n + 1 <= MaxDecisions BY <1>1, HeuristicsAssumption
    <2> QED BY <1>0, <1>1, <1>3, <1>5, <2>1, <2>2, <2>3 DEF HShaped
  <1>7. \A k \in 1 .. n + 1 : rules'[decisions'[k].id].direction = decisions'[k].direction
    <2> TAKE k \in 1 .. n + 1
    <2>1. CASE k \in 1 .. n BY <1>0, <1>1, <1>3, <1>4, <2>1 DEF HeuristicsInv, HShaped
    <2>2. CASE k = n + 1 BY <1>1, <1>3, <1>4, <2>2
    <2> QED BY <1>1, <2>1, <2>2
  <1>8. ASSUME NEW k \in 1 .. n
        PROVE  InForce(k)' <=> InForce(k) /\ Signature(decisions[k].id) # Signature(i)
    <2>1. decisions[k].id \in 1 .. Len(rules) BY <1>0, <1>1 DEF HShaped
    <2>2. Signature(decisions[k].id)' = Signature(decisions[k].id) BY <1>3, <1>4, <2>1
    <2>3. Signature(i)' = Signature(i) BY <1>1, <1>4
    <2>4. \A j \in 1 .. n : decisions[j].id \in 1 .. Len(rules) /\ Signature(decisions[j].id)' = Signature(decisions[j].id)
      BY <1>0, <1>1, <1>3, <1>4 DEF HShaped
    <2>5. 1 .. Len(decisions') = (1 .. n) \cup {n + 1} /\ n + 1 > k BY <1>1, <1>3
    <2> QED BY <1>1, <1>3, <2>2, <2>3, <2>4, <2>5 DEF InForce
  <1>9. InForce(n + 1)'
    <2>1. \A j \in 1 .. n + 1 : ~ (j > n + 1) BY <1>1
    <2> QED BY <1>3, <2>1 DEF InForce
  <1>10. ASSUME NEW j \in 1 .. Len(rules)'
         PROVE  rules'[j].status = "active" <=> \E k \in 1 .. Len(decisions') : decisions'[k].id = j /\ InForce(k)'
    <2>1. j \in 1 .. Len(rules) BY <1>5
    <2>2. CASE j = i
      <3>1. n + 1 \in 1 .. Len(decisions') BY <1>1, <1>3
      <3>2. rules'[j].status = "active" BY <1>4, <2>1, <2>2
      <3> QED BY <1>3, <1>9, <2>2, <3>1, <3>2
    <2>3. CASE j # i
      <3>1. (\E k \in 1 .. Len(decisions') : decisions'[k].id = j /\ InForce(k)')
              <=> \E k \in 1 .. n : decisions[k].id = j /\ InForce(k) /\ Signature(decisions[k].id) # Signature(i)
        <4>1. 1 .. Len(decisions') = (1 .. n) \cup {n + 1} BY <1>1, <1>3
        <4>2. decisions'[n + 1].id # j BY <1>3, <2>3
        <4>3. \A k \in 1 .. n : decisions'[k].id = decisions[k].id BY <1>3
        <4> QED BY <1>8, <4>1, <4>2, <4>3
      <3>2. (\E k \in 1 .. n : decisions[k].id = j /\ InForce(k) /\ Signature(decisions[k].id) # Signature(i))
              <=> (\E k \in 1 .. n : decisions[k].id = j /\ InForce(k)) /\ Signature(j) # Signature(i)
        OBVIOUS
      <3>3. (\E k \in 1 .. n : decisions[k].id = j /\ InForce(k)) <=> rules[j].status = "active"
        BY <1>1, <2>1 DEF HeuristicsInv
      <3> QED BY <1>4, <2>1, <2>3, <3>1, <3>2, <3>3
    <2> QED BY <2>2, <2>3
  <1>11. \A k \in 1 .. Len(decisions') : rules'[decisions'[k].id].direction = decisions'[k].direction BY <1>3, <1>7
  <1> QED BY <1>6, <1>10, <1>11 DEF HeuristicsInv

\* The invariant when a rule is rejected.
LEMMA RejectKeeps ==
  ASSUME HeuristicsInv, NEW i \in 1 .. MaxRules, RejectRule(i)
  PROVE  HeuristicsInv'
  <1> DEFINE new == [kind |-> "reject", id |-> i, direction |-> rules[i].direction]
  <1>0. HShaped BY DEF HeuristicsInv
  <1>n. PICK n : n = Len(decisions) OBVIOUS
  <1>1. /\ n = Len(decisions)
        /\ i \in 1 .. Len(rules) /\ n < MaxDecisions /\ n \in Nat
        /\ decisions' = Append(decisions, new) /\ passing' = passing
        /\ rules' = [rules EXCEPT ![i].status = "rejected"]
    BY <1>0, <1>n, RuleFacts DEF RejectRule, Decided
  <1>2. rules[i] \in RuleRows /\ new \in AuditRows
    <2>1. rules[i] \in RuleRows /\ i \in Nat BY <1>0, <1>1, RuleFacts
    <2>2. rules[i].direction \in Directions BY <2>1 DEF RuleRows
    <2> QED BY <2>1, <2>2 DEF AuditRows
  <1> HIDE DEF new
  <1>3. /\ decisions' \in Seq(AuditRows) /\ Len(decisions') = n + 1
        /\ \A k \in 1 .. n : decisions'[k] = decisions[k]
        /\ decisions'[n + 1].kind = "reject" /\ decisions'[n + 1].id = i
        /\ decisions'[n + 1].direction = rules[i].direction
    <2>1. decisions \in Seq(AuditRows) BY <1>0 DEF HShaped
    <2>2. decisions'[n + 1] = new BY <1>1, <1>2, <2>1, AppendProperties
    <2>3. new.kind = "reject" /\ new.id = i /\ new.direction = rules[i].direction BY DEF new
    <2> QED BY <1>1, <1>2, <2>1, <2>2, <2>3, AppendProperties
  <1>4. ASSUME NEW j \in 1 .. Len(rules)
        PROVE  /\ rules'[j] \in RuleRows /\ rules'[j].direction = rules[j].direction
               /\ Signature(j)' = Signature(j)
               /\ rules'[j].status = "active" <=> j # i /\ rules[j].status = "active"
    <2>1. rules[j] \in RuleRows /\ j \in DOMAIN rules BY <1>0, RuleFacts
    <2>2. CASE j = i
      <3>1. rules'[j] = [rules[j] EXCEPT !.status = "rejected"] BY <1>1, <2>1, <2>2
      <3> QED BY <2>1, <2>2, <3>1 DEF RuleRows, Signature
    <2>3. CASE j # i BY <1>1, <2>1, <2>3 DEF Signature
    <2> QED BY <2>2, <2>3
  <1>5. rules' \in Seq(RuleRows) /\ Len(rules') = Len(rules)
    <2>1. Len(rules) \in Nat /\ DOMAIN rules = 1 .. Len(rules) BY <1>0, RuleFacts
    <2>2. rules' \in [1 .. Len(rules) -> RuleRows] BY <1>1, <1>4, <2>1
    <2>3. rules' \in Seq(RuleRows) BY <2>1, <2>2, SeqDef
    <2> QED BY <2>1, <2>2, <2>3, LenProperties
  <1>6. HShaped'
    <2>1. \A k \in 1 .. n + 1 : decisions'[k].id \in 1 .. Len(rules) BY <1>0, <1>1, <1>3 DEF HShaped
    <2>2. \A r \in Passes : Matching(passing[r])' BY <1>0, <1>1, <1>4, <1>5 DEF HShaped, Matching
    <2>3. n + 1 <= MaxDecisions BY <1>1, HeuristicsAssumption
    <2> QED BY <1>0, <1>1, <1>3, <1>5, <2>1, <2>2, <2>3 DEF HShaped
  <1>7. \A k \in 1 .. n + 1 : rules'[decisions'[k].id].direction = decisions'[k].direction
    <2> TAKE k \in 1 .. n + 1
    <2>1. CASE k \in 1 .. n BY <1>0, <1>1, <1>3, <1>4, <2>1 DEF HeuristicsInv, HShaped
    <2>2. CASE k = n + 1 BY <1>1, <1>3, <1>4, <2>2
    <2> QED BY <1>1, <2>1, <2>2
  <1>8. ASSUME NEW k \in 1 .. n
        PROVE  InForce(k)' <=> InForce(k) /\ decisions[k].id # i
    <2>1. \A j \in 1 .. n : decisions[j].id \in 1 .. Len(rules) /\ Signature(decisions[j].id)' = Signature(decisions[j].id)
      BY <1>0, <1>1, <1>3, <1>4 DEF HShaped
    <2>2. 1 .. Len(decisions') = (1 .. n) \cup {n + 1} /\ n + 1 > k BY <1>1, <1>3
    <2> QED BY <1>1, <1>3, <2>1, <2>2 DEF InForce
  <1>9. ~ InForce(n + 1)' BY <1>1, <1>3 DEF InForce
  <1>10. ASSUME NEW j \in 1 .. Len(rules)'
         PROVE  rules'[j].status = "active" <=> \E k \in 1 .. Len(decisions') : decisions'[k].id = j /\ InForce(k)'
    <2>1. j \in 1 .. Len(rules) BY <1>5
    <2>2. (\E k \in 1 .. Len(decisions') : decisions'[k].id = j /\ InForce(k)')
            <=> (\E k \in 1 .. n : decisions[k].id = j /\ InForce(k)) /\ j # i
      <3>1. 1 .. Len(decisions') = (1 .. n) \cup {n + 1} BY <1>1, <1>3
      <3>2. \A k \in 1 .. n : decisions'[k].id = decisions[k].id BY <1>3
      <3> QED BY <1>8, <1>9, <3>1, <3>2
    <2>3. (\E k \in 1 .. n : decisions[k].id = j /\ InForce(k)) <=> rules[j].status = "active"
      BY <1>1, <2>1 DEF HeuristicsInv
    <2> QED BY <1>4, <2>1, <2>2, <2>3
  <1>11. \A k \in 1 .. Len(decisions') : rules'[decisions'[k].id].direction = decisions'[k].direction BY <1>3, <1>7
  <1> QED BY <1>6, <1>10, <1>11 DEF HeuristicsInv

\* The invariant in every step.
LEMMA HeuristicsSteps == HeuristicsInv /\ [HeuristicsNext]_heuristicsVars => HeuristicsInv'
  <1> SUFFICES ASSUME HeuristicsInv, [HeuristicsNext]_heuristicsVars PROVE HeuristicsInv' OBVIOUS
  <1>1. CASE UNCHANGED heuristicsVars
    <2>1. rules' = rules /\ decisions' = decisions /\ passing' = passing BY <1>1 DEF heuristicsVars
    <2> QED BY <2>1 DEF HeuristicsInv, HShaped, Matching, InForce, Signature
  <1>2. CASE HeuristicsNext
    BY <1>2, PassLoadKeeps, PassCommitKeeps, PassDiesKeeps, PromoteKeeps, RejectKeeps DEF HeuristicsNext
  <1> QED BY <1>1, <1>2

\* In every reachable state the active rules are those whose promotion is the
\* last on its slice and unrejected since, in the direction it was promoted in
\* (promote_heuristic, reject_heuristic, run_reflection_pass).
THEOREM HeuristicsCorrect == HeuristicsSpec => []HeuristicsInv
  <1> QED BY HInitial, HeuristicsSteps, PTL DEF HeuristicsSpec

\* The invariant implies that promotions stand.
LEMMA LastPromotionRead == HeuristicsInv => PromotionsStand
  <1> SUFFICES ASSUME HeuristicsInv, NEW s \in Slices
               PROVE  LET last == CHOOSE k \in Promotions(s) : \A j \in Promotions(s) : j <= k
                          rule == decisions[last].id
                          gone == \E k \in OnSlice(s) : k > last /\ decisions[k].kind = "reject" /\ decisions[k].id = rule
                      IN  IF Promotions(s) = {} THEN Consumed(s) = {}
                          ELSE /\ Consumed(s) = IF gone THEN {} ELSE {rule}
                               /\ rules[rule].direction = decisions[last].direction
    BY DEF PromotionsStand
  <1> DEFINE n    == Len(decisions)
             last == CHOOSE k \in Promotions(s) : \A j \in Promotions(s) : j <= k
             rule == decisions[last].id
             gone == \E k \in OnSlice(s) : k > last /\ decisions[k].kind = "reject" /\ decisions[k].id = rule
  <1>0. HShaped BY DEF HeuristicsInv
  <1>1. /\ DOMAIN rules = 1 .. Len(rules) /\ DOMAIN decisions = 1 .. n /\ n \in Nat
        /\ \A k \in 1 .. n : decisions[k].id \in 1 .. Len(rules)
        /\ \A k \in 1 .. n : decisions[k].kind \in {"promote", "reject"}
    <2>1. \A k \in 1 .. n : decisions[k] \in AuditRows BY <1>0, RuleFacts
    <2> QED BY <1>0, <2>1, RuleFacts DEF HShaped, AuditRows
  \* What the forecast reads was put in force by a promotion on the slice.
  <1>2. ASSUME NEW i \in Consumed(s)
        PROVE  \E k \in Promotions(s) : decisions[k].id = i /\ InForce(k)
    <2>1. i \in 1 .. Len(rules) /\ rules[i].status = "active" /\ Signature(i) = <<s, UnitOf[s]>>
      BY <1>1 DEF Consumed, Signature
    <2>2. PICK k \in 1 .. n : decisions[k].id = i /\ InForce(k) BY <2>1 DEF HeuristicsInv
    <2>3. k \in Promotions(s) BY <1>1, <2>1, <2>2 DEF Promotions, OnSlice, InForce
    <2> QED BY <2>2, <2>3
  <1>3. CASE Promotions(s) = {} BY <1>2, <1>3
  <1>4. CASE Promotions(s) # {}
    <2>1. Promotions(s) \in SUBSET (1 .. n) BY <1>1 DEF Promotions, OnSlice
    <2>2. \E k \in Promotions(s) : \A j \in Promotions(s) : j <= k BY <1>1, <1>4, <2>1, LastExists
    <2>3. last \in Promotions(s) /\ \A j \in Promotions(s) : j <= last
      <3> HIDE DEF n
      <3> QED BY <2>2
    <2> HIDE DEF last
    <2>4. /\ last \in 1 .. n /\ decisions[last].kind = "promote" /\ Signature(rule) = <<s, UnitOf[s]>>
          /\ rule \in 1 .. Len(rules)
      BY <1>1, <2>1, <2>3 DEF Promotions, OnSlice
    <2>5. InForce(last) <=> ~gone
      <3>1. ASSUME gone PROVE ~ InForce(last)
        <4>1. PICK k \in OnSlice(s) : k > last /\ decisions[k].kind = "reject" /\ decisions[k].id = rule BY <3>1
        <4>2. k \in 1 .. n BY <1>1, <4>1 DEF OnSlice
        <4> QED BY <4>1, <4>2 DEF InForce
      <3>2. ASSUME ~gone PROVE InForce(last)
        <4>1. ASSUME NEW j \in 1 .. n, j > last, decisions[j].kind = "promote"
              PROVE  Signature(decisions[j].id) # Signature(rule)
          <5>1. j \notin Promotions(s) BY <1>1, <2>1, <2>3, <2>4, <4>1
          <5> QED BY <1>1, <2>4, <4>1, <5>1 DEF Promotions, OnSlice
        <4>2. ASSUME NEW j \in 1 .. n, j > last, decisions[j].kind = "reject"
              PROVE  decisions[j].id # rule
          <5>1. decisions[j].id = rule => j \in OnSlice(s) BY <1>1, <2>4 DEF OnSlice
          <5> QED BY <3>2, <4>2, <5>1
        <4> QED BY <2>4, <4>1, <4>2 DEF InForce
      <3> QED BY <3>1, <3>2
    <2>6. ASSUME NEW i \in Consumed(s) PROVE i = rule /\ InForce(last)
      <3>1. PICK k \in Promotions(s) : decisions[k].id = i /\ InForce(k) BY <1>2
      <3>2. k \in 1 .. n /\ Signature(decisions[k].id) = <<s, UnitOf[s]>> BY <2>1 DEF Promotions, OnSlice
      <3>3. ~ (last > k) BY <2>4, <3>1, <3>2 DEF InForce
      <3>4. k = last BY <2>3, <2>4, <3>1, <3>2, <3>3
      <3> QED BY <3>1, <3>4
    <2>7. InForce(last) => rule \in Consumed(s)
      <3>1. InForce(last) => rules[rule].status = "active" BY <2>4 DEF HeuristicsInv
      <3>2. rules[rule].slice = s /\ rules[rule].stamp = UnitOf[s] BY <2>4 DEF Signature
      <3> QED BY <1>1, <2>4, <3>1, <3>2 DEF Consumed
    <2>8. rules[rule].direction = decisions[last].direction BY <2>4 DEF HeuristicsInv
    <2>9. Consumed(s) = IF gone THEN {} ELSE {rule}
      <3> HIDE DEF gone, rule
      <3> QED BY <2>5, <2>6, <2>7
    <2> QED BY <1>4, <2>8, <2>9 DEF last
  <1> QED BY <1>3, <1>4

\* For any slices, companies and number of passes and decisions, the forecast
\* reads on a slice what the last promotion there put in force, and only that
\* (active_heuristics_for_line, _supersede_siblings).
THEOREM PromotionsStandAlways == HeuristicsSpec => []PromotionsStand
  <1> QED BY HeuristicsCorrect, LastPromotionRead, PTL
-----------------------------------------------------------------------------
(* What wiring computes *)

\* A cycle stays one among more edges.
LEMMA CyclicGrows ==
  ASSUME NEW E, NEW F, E \subseteq F, Cyclic(E)
  PROVE  Cyclic(F)
  BY DEF Cyclic

\* The highest of the first n is n when it is among them.
LEMMA MaxOfUpTo ==
  ASSUME NEW n \in Nat, NEW s \in SUBSET (1 .. n), n \in s
  PROVE  Max(s) = n
  <1>1. \A k \in s : k \in Int /\ n >= k OBVIOUS
  <1>2. \A m \in s : (\A k \in s : m >= k) => m = n
    <2>1. ASSUME NEW m \in s, m >= n PROVE m = n BY <1>1, <2>1
    <2> QED BY <2>1
  <1> QED BY <1>1, <1>2 DEF Max

\* One wish after the other.
Wish(F, e) == IF e \in F THEN F ELSE Added(F, e)

Folds(E, wanted, n, g) ==
    g = [s \in SUBSET (1 .. n) |-> IF s = {} THEN E ELSE Wish(g[s \ {Max(s)}], wanted[Max(s)])]

\* The running results of wiring a list of edges exist.
LEMMA FoldExists ==
  ASSUME NEW E, NEW wanted, NEW n \in Nat
  PROVE  \E g : Folds(E, wanted, n, g)
  <1> DEFINE Without == {k \in Nat : ~\E g : Folds(E, wanted, k, g)}
  <1>1. SUFFICES ASSUME Without # {} PROVE FALSE BY DEF Folds
  <1>2. PICK m \in Without : \A k \in Without : m <= k
    <2>1. Without \in SUBSET Nat OBVIOUS
    <2> HIDE DEF Without
    <2> QED BY <1>1, <2>1, LeastExists
  <1>3. CASE m = 0
    <2> DEFINE g == [s \in SUBSET (1 .. 0) |-> E]
    <2>1. \A s \in SUBSET (1 .. 0) : s = {} OBVIOUS
    <2>2. Folds(E, wanted, 0, g) BY <2>1 DEF Folds
    <2> QED BY <1>3, <2>2
  <1>4. CASE m # 0
    <2>1. m \in Nat /\ m - 1 \in Nat /\ m - 1 \notin Without
      <3>1. m \in Nat /\ m - 1 \in Nat BY <1>4
      <3>2. ~(m <= m - 1) BY <3>1
      <3> QED BY <1>2, <3>1, <3>2
    <2>2. PICK g : Folds(E, wanted, m - 1, g) BY <2>1
    <2> DEFINE h == [s \in SUBSET (1 .. m) |-> IF m \in s THEN Wish(g[s \ {m}], wanted[m]) ELSE g[s]]
    <2>3. ASSUME NEW s \in SUBSET (1 .. m), s # {}
          PROVE  h[s] = Wish(h[s \ {Max(s)}], wanted[Max(s)])
      <3>1. CASE m \in s
        <4>1. Max(s) = m BY <2>1, <3>1, MaxOfUpTo
        <4>2. s \ {m} \in SUBSET (1 .. m) /\ m \notin s \ {m} OBVIOUS
        <4>3. h[s \ {m}] = g[s \ {m}] BY <4>2
        <4> QED BY <3>1, <4>1, <4>3
      <3>2. CASE m \notin s
        <4>1. s \in SUBSET (1 .. m - 1)
          <5>1. \A k \in s : k \in 1 .. m /\ k # m BY <3>2
          <5> QED BY <2>1, <5>1
        <4>2. g[s] = Wish(g[s \ {Max(s)}], wanted[Max(s)])
          <5>1. g = [t \in SUBSET (1 .. m - 1) |->
                        IF t = {} THEN E ELSE Wish(g[t \ {Max(t)}], wanted[Max(t)])]
            BY <2>2 DEF Folds
          <5> QED BY <2>3, <4>1, <5>1
        <4>3. s \ {Max(s)} \in SUBSET (1 .. m) /\ m \notin s \ {Max(s)} BY <3>2
        <4>4. h[s] = g[s] /\ h[s \ {Max(s)}] = g[s \ {Max(s)}] BY <3>2, <4>3
        <4> QED BY <4>2, <4>4
      <3> QED BY <3>1, <3>2
    <2>4. h[{}] = E
      <3>1. {} \in SUBSET (1 .. m - 1) /\ {} \in SUBSET (1 .. m) /\ m \notin {} OBVIOUS
      <3>2. g[{}] = E BY <2>2, <3>1 DEF Folds
      <3> QED BY <3>1, <3>2
    <2>5. Folds(E, wanted, m, h)
      <3>1. DOMAIN h = SUBSET (1 .. m) OBVIOUS
      <3>2. h = [s \in SUBSET (1 .. m) |-> h[s]] OBVIOUS
      <3> HIDE DEF h
      <3> QED BY <2>3, <2>4, <3>2 DEF Folds
    <2> QED BY <2>5
  <1> QED BY <1>3, <1>4

\* Wired is the last of those results.
LEMMA WiredFolds ==
  ASSUME NEW E, NEW wanted \in Seq(EdgeSet)
  PROVE  \E g : Folds(E, wanted, Len(wanted), g) /\ Wired(E, wanted) = g[1 .. Len(wanted)]
  <1>1. Len(wanted) \in Nat /\ DOMAIN wanted = 1 .. Len(wanted) BY LenProperties
  <1>2. \E g : Folds(E, wanted, Len(wanted), g) BY <1>1, FoldExists
  <1>3. Wired(E, wanted) = (CHOOSE g : Folds(E, wanted, Len(wanted), g))[1 .. Len(wanted)]
    BY <1>1 DEF Wired, FoldLeft, MapThenFoldSet, Folds, Wish
  <1> QED BY <1>2, <1>3

\* What a wish list adds keeps what was there, and never closes a cycle: a wish
\* that would is passed over.
LEMMA WiredSound ==
  ASSUME NEW E \in SUBSET EdgeSet, NEW wanted \in Seq(EdgeSet)
  PROVE  /\ E \subseteq Wired(E, wanted) /\ Wired(E, wanted) \subseteq EdgeSet
         /\ Wired(E, wanted) = E \/ ~Cyclic(Wired(E, wanted))
  <1>1. PICK N \in Nat : N = Len(wanted) /\ \A k \in 1 .. N : wanted[k] \in EdgeSet
    BY LenProperties, ElementOfSeq
  <1>2. PICK g : Folds(E, wanted, N, g) /\ Wired(E, wanted) = g[1 .. N] BY <1>1, WiredFolds
  <1> DEFINE Good(F) == E \subseteq F /\ F \subseteq EdgeSet /\ (F = E \/ ~Cyclic(F))
  <1> DEFINE Bad == {k \in Nat : k <= N /\ ~Good(g[1 .. k])}
  <1>3. SUFFICES ASSUME Bad # {} PROVE FALSE
    <2>1. N \notin Bad => Good(g[1 .. N]) BY <1>1
    <2> QED BY <1>2, <2>1
  <1>4. PICK m \in Bad : \A k \in Bad : m <= k
    <2>1. Bad \in SUBSET Nat OBVIOUS
    <2> HIDE DEF Bad
    <2> QED BY <1>3, <2>1, LeastExists
  <1>5. \A s \in SUBSET (1 .. N) : g[s] = IF s = {} THEN E ELSE Wish(g[s \ {Max(s)}], wanted[Max(s)])
    BY <1>2 DEF Folds
  <1>6. CASE m = 0
    <2>1. 1 .. 0 = {} /\ {} \in SUBSET (1 .. N) OBVIOUS
    <2>2. g[1 .. 0] = E BY <1>5, <2>1
    <2> QED BY <1>4, <1>6, <2>2
  <1>7. CASE m # 0
    <2>1. /\ m \in Nat /\ m <= N /\ m - 1 \in Nat /\ m - 1 <= N /\ m - 1 \notin Bad
          /\ m \in 1 .. N /\ m \in 1 .. m
      <3>1. m \in Nat /\ m <= N /\ m - 1 \in Nat /\ m - 1 <= N /\ m \in 1 .. N /\ m \in 1 .. m BY <1>1, <1>7
      <3>2. ~(m <= m - 1) BY <3>1
      <3> QED BY <1>4, <3>1, <3>2
    <2>2. PICK F : F = g[1 .. m - 1] OBVIOUS
    <2>3. Good(F) BY <2>1, <2>2
    <2>4. (1 .. m) \in SUBSET (1 .. N) /\ 1 .. m # {} /\ (1 .. m) \ {m} = 1 .. m - 1
      <3>1. \A k \in 1 .. m : k \in 1 .. N BY <1>1, <2>1
      <3>2. \A k : k \in (1 .. m) \ {m} <=> k \in 1 .. m - 1 BY <2>1
      <3> QED BY <2>1, <3>1, <3>2
    <2>5. Max(1 .. m) = m BY <2>1, MaxOfUpTo
    <2>6. g[1 .. m] = Wish(F, wanted[m]) BY <1>5, <2>2, <2>4, <2>5
    <2>7. wanted[m] \in EdgeSet BY <1>1, <2>1
    <2>8. Good(g[1 .. m]) BY <2>3, <2>6, <2>7 DEF Wish, Added
    <2> QED BY <1>4, <2>8
  <1> QED BY <1>6, <1>7

-----------------------------------------------------------------------------
EdgeRows   == [edge : EdgeSet, began : Nat, ended : Nat]
WiringRows == [open : BOOLEAN, mine : SUBSET EdgeSet, began : Nat]

WiringShaped ==
    /\ edges \subseteq EdgeRows /\ clock \in Nat
    /\ wiring \in [Wirers -> WiringRows]

OpenWirers == {w \in Wirers : wiring[w].open}

\* Every transaction began after those that ended before it, and is counted.
Timed ==
    /\ \A e \in edges : 1 <= e.began /\ e.began < e.ended /\ e.ended <= clock
    /\ \A w \in OpenWirers : 1 <= wiring[w].began /\ wiring[w].began <= clock
    /\ \A w \in Wirers : wiring[w].began <= clock
    /\ IsFiniteSet(OpenWirers) /\ clock + Cardinality(OpenWirers) <= 2 * MaxWirings

\* What a transaction that began at b saw.
Seen(b) == {e.edge : e \in {f \in edges : f.ended <= b}}

\* What e's transaction saw and what it added.
Behind(e) == {f \in edges : f.ended <= e.began \/ (f.began = e.began /\ f.ended = e.ended)}

\* A transaction closes no cycle over what it saw.
NoneAlone ==
    /\ \A e \in edges : ~Cyclic({f.edge : f \in Behind(e)})
    /\ \A w \in OpenWirers : wiring[w].mine = {} \/ ~Cyclic(Seen(wiring[w].began) \cup wiring[w].mine)

WiringInv == WiringShaped /\ Timed /\ NoneAlone

\* The invariant when a transaction adds edges that close no cycle it can see.
LEMMA OpenKeeps ==
  ASSUME WiringInv, NEW w \in Wirers, NEW mine \in SUBSET EdgeSet, Open(w, mine),
         mine = {} \/ ~Cyclic(Committed \cup mine)
  PROVE  WiringInv'
  <1>0. WiringShaped /\ Timed /\ clock \in Nat /\ clock + 1 \in Nat BY DEF WiringInv, WiringShaped
  <1>1. PICK n \in Nat : n = clock + 1 BY <1>0
  <1>2. PICK r : r = [open |-> TRUE, mine |-> mine, began |-> n] OBVIOUS
  <1>3. r \in WiringRows /\ r.mine = mine /\ r.began = n BY <1>2, Zenon DEF WiringRows
  <1>4. r.open BY <1>2
  <1>5. clock' = n /\ wiring' = [wiring EXCEPT ![w] = r] /\ UNCHANGED edges BY <1>1, <1>2 DEF Open
  <1>6. wiring' \in [Wirers -> WiringRows] /\ \A v \in Wirers : wiring'[v] = IF v = w THEN r ELSE wiring[v]
    BY <1>0, <1>3, <1>5 DEF WiringShaped
  <1>7. WiringShaped' BY <1>0, <1>5, <1>6 DEF WiringShaped
  <1>8. OpenWirers' = OpenWirers \cup {w} /\ w \notin OpenWirers BY <1>4, <1>6 DEF OpenWirers, Open
  <1>9. \A e \in edges : e.ended <= clock /\ e.ended \in Nat /\ e.began \in Nat
    BY <1>0 DEF Timed, WiringShaped, EdgeRows
  <1>10. Timed'
    <2>1. \A e \in edges : e.ended <= n BY <1>0, <1>1, <1>9
    <2>2. \A v \in Wirers : wiring[v].began <= n
      <3>1. \A v \in Wirers : wiring[v].began \in Nat /\ wiring[v].began <= clock
        BY <1>0 DEF Timed, WiringShaped, WiringRows
      <3> QED BY <1>0, <1>1, <3>1
    <2>3. 1 <= n BY <1>0, <1>1
    <2>4. IsFiniteSet(OpenWirers') /\ n + Cardinality(OpenWirers') <= 2 * MaxWirings
      <3>1. IsFiniteSet(OpenWirers') /\ Cardinality(OpenWirers') = Cardinality(OpenWirers) + 1
        BY <1>0, <1>8, FS_AddElement DEF Timed
      <3>2. Cardinality(OpenWirers) \in Nat BY <1>0, FS_CardinalityType DEF Timed
      <3>3. clock + Cardinality(OpenWirers) + 2 <= 2 * MaxWirings BY DEF Open, OpenWirers
      <3> QED BY <1>0, <1>1, <3>1, <3>2, <3>3, WiringAssumption
    <2>5. \A v \in Wirers : wiring'[v].began <= n BY <1>3, <1>6, <1>1, <2>2
    <2>6. \A v \in OpenWirers' : 1 <= wiring'[v].began
      <3>1. \A v \in OpenWirers : v \in Wirers /\ 1 <= wiring[v].began BY <1>0 DEF Timed, OpenWirers
      <3> QED BY <1>3, <1>6, <1>8, <2>3, <3>1
    <2>7. OpenWirers' \subseteq Wirers BY DEF OpenWirers
    <2> QED BY <1>0, <1>5, <2>1, <2>4, <2>5, <2>6, <2>7 DEF Timed
  <1>11. NoneAlone'
    <2>1. \A e \in edges : ~Cyclic({f.edge : f \in Behind(e)})' BY <1>5 DEF WiringInv, NoneAlone, Behind
    <2>2. ASSUME NEW v \in OpenWirers', NEW q, q = wiring'[v]
          PROVE  q.mine = {} \/ ~Cyclic(Seen(q.began) \cup q.mine)
      <3>1. CASE v = w
        <4>1. {f \in edges : f.ended <= n} = edges BY <1>0, <1>1, <1>9
        <4>2. Seen(n) = Committed BY <4>1 DEF Seen, Committed
        <4> QED BY <1>3, <1>6, <2>2, <3>1, <4>2
      <3>2. CASE v # w
        <4>1. v \in OpenWirers /\ q = wiring[v] BY <1>6, <1>8, <2>2, <3>2 DEF OpenWirers
        <4> QED BY <4>1 DEF WiringInv, NoneAlone
      <3> QED BY <3>1, <3>2
    <2> QED BY <1>5, <2>1, <2>2 DEF NoneAlone, Seen, Behind
  <1> QED BY <1>7, <1>10, <1>11 DEF WiringInv

\* Neither a commit nor a rollback changes what the others saw.
LEMMA CloseKeeps ==
  ASSUME WiringInv, NEW w \in OpenWirers,
         wiring' = [wiring EXCEPT ![w] = [open |-> FALSE, mine |-> {}, began |-> 0]]
  PROVE  /\ wiring' \in [Wirers -> WiringRows] /\ OpenWirers' = OpenWirers \ {w}
         /\ \A v \in Wirers : v # w => wiring'[v] = wiring[v]
         /\ wiring'[w].began = 0
         /\ IsFiniteSet(OpenWirers') /\ Cardinality(OpenWirers') = Cardinality(OpenWirers) - 1
         /\ Cardinality(OpenWirers) \in Nat
  <1>0. WiringShaped /\ w \in Wirers /\ IsFiniteSet(OpenWirers) BY DEF WiringInv, OpenWirers, Timed
  <1>1. PICK no \in BOOLEAN : no = FALSE OBVIOUS
  <1>2. PICK r : r = [open |-> no, mine |-> {}, began |-> 0] OBVIOUS
  <1>3. r \in WiringRows /\ r.began = 0 /\ r.open = no
    <2>1. {} \in SUBSET EdgeSet /\ 0 \in Nat OBVIOUS
    <2> QED BY <1>2, <2>1, Zenon DEF WiringRows
  <1>4. wiring' = [wiring EXCEPT ![w] = r] BY <1>1, <1>2
  <1>5. wiring' \in [Wirers -> WiringRows] /\ \A v \in Wirers : wiring'[v] = IF v = w THEN r ELSE wiring[v]
    BY <1>0, <1>3, <1>4 DEF WiringShaped
  <1>6. OpenWirers' = OpenWirers \ {w}
    <2>1. ~wiring'[w].open BY <1>0, <1>1, <1>3, <1>5
    <2> QED BY <1>5, <2>1 DEF OpenWirers
  <1>7. Cardinality(OpenWirers') = Cardinality(OpenWirers) - 1 /\ IsFiniteSet(OpenWirers')
    BY <1>0, <1>6, FS_RemoveElement
  <1> QED BY <1>0, <1>3, <1>5, <1>6, <1>7, FS_CardinalityType

\* The invariant when a transaction is rolled back.
LEMMA RollbackKeeps ==
  ASSUME WiringInv, NEW w \in Wirers, RollbackWiring(w)
  PROVE  WiringInv'
  <1>0. WiringShaped /\ Timed /\ clock \in Nat /\ w \in OpenWirers
    BY DEF WiringInv, WiringShaped, RollbackWiring, OpenWirers
  <1>1. UNCHANGED <<edges, clock>> BY DEF RollbackWiring
  <1>2. /\ wiring' \in [Wirers -> WiringRows] /\ OpenWirers' = OpenWirers \ {w}
        /\ \A v \in Wirers : v # w => wiring'[v] = wiring[v]
        /\ wiring'[w].began = 0
        /\ IsFiniteSet(OpenWirers') /\ Cardinality(OpenWirers') = Cardinality(OpenWirers) - 1
        /\ Cardinality(OpenWirers) \in Nat
    BY <1>0, CloseKeeps DEF RollbackWiring
  <1>3. WiringShaped' BY <1>0, <1>1, <1>2 DEF WiringShaped
  <1>4. \A v \in OpenWirers' : v \in OpenWirers /\ v \in Wirers /\ wiring'[v] = wiring[v] BY <1>2 DEF OpenWirers
  <1>5. Timed'
    <2>1. clock + Cardinality(OpenWirers') <= 2 * MaxWirings
      <3>1. clock + Cardinality(OpenWirers) <= 2 * MaxWirings BY <1>0 DEF Timed
      <3> QED BY <1>0, <1>2, <3>1, WiringAssumption
    <2>2. \A v \in Wirers : wiring'[v].began <= clock BY <1>0, <1>2 DEF Timed
    <2> QED BY <1>0, <1>1, <1>2, <1>4, <2>1, <2>2 DEF Timed
  <1>6. NoneAlone' BY <1>1, <1>4 DEF WiringInv, NoneAlone, Seen, Behind
  <1> QED BY <1>3, <1>5, <1>6 DEF WiringInv

\* The invariant when a transaction commits.
LEMMA CommitKeeps ==
  ASSUME WiringInv, NEW w \in Wirers, CommitWiring(w)
  PROVE  WiringInv'
  <1>0. WiringShaped /\ Timed /\ clock \in Nat /\ w \in OpenWirers
    BY DEF WiringInv, WiringShaped, CommitWiring, OpenWirers
  <1>1. PICK t \in Nat : t = clock + 1 BY <1>0
  <1>2. PICK b, mine : b = wiring[w].began /\ mine = wiring[w].mine OBVIOUS
  <1>3. b \in Nat /\ mine \in SUBSET EdgeSet /\ 1 <= b /\ b <= clock /\ b < t
    <2>1. b \in Nat /\ mine \in SUBSET EdgeSet BY <1>0, <1>2 DEF WiringShaped, WiringRows
    <2>2. 1 <= b /\ b <= clock BY <1>0, <1>2 DEF Timed
    <2> QED BY <1>0, <1>1, <2>1, <2>2
  <1>4. PICK added : added = {[edge |-> e, began |-> b, ended |-> t] : e \in mine} OBVIOUS
  <1>5. clock' = t /\ edges' = edges \cup added BY <1>1, <1>2, <1>4 DEF CommitWiring
  <1>6. /\ \A f \in added : f \in EdgeRows /\ f.began = b /\ f.ended = t /\ f.edge \in mine
        /\ {f.edge : f \in added} = mine
    <2>1. ASSUME NEW e \in mine, NEW r, r = [edge |-> e, began |-> b, ended |-> t]
          PROVE  r \in EdgeRows /\ r.began = b /\ r.ended = t /\ r.edge = e
      BY <1>3, <2>1 DEF EdgeRows
    <2>2. \A f \in added : \E e \in mine : f = [edge |-> e, began |-> b, ended |-> t] BY <1>4
    <2>3. \A f \in added : f \in EdgeRows /\ f.began = b /\ f.ended = t /\ f.edge \in mine BY <2>1, <2>2
    <2>4. ASSUME NEW e \in mine PROVE \E f \in added : f.edge = e
      <3>1. PICK r : r = [edge |-> e, began |-> b, ended |-> t] OBVIOUS
      <3> QED BY <1>4, <2>1, <3>1
    <2> QED BY <2>3, <2>4
  <1>7. \A f \in edges : f \in EdgeRows /\ f.began \in Nat /\ f.ended \in Nat /\ f.began < t /\ f.ended < t
    <2>1. \A f \in edges : f \in EdgeRows /\ f.began \in Nat /\ f.ended \in Nat /\ f.began < f.ended /\ f.ended <= clock
      BY <1>0 DEF WiringShaped, EdgeRows, Timed
    <2> QED BY <1>0, <1>1, <2>1
  <1>8. /\ wiring' \in [Wirers -> WiringRows] /\ OpenWirers' = OpenWirers \ {w}
        /\ \A v \in Wirers : v # w => wiring'[v] = wiring[v]
        /\ wiring'[w].began = 0
        /\ IsFiniteSet(OpenWirers') /\ Cardinality(OpenWirers') = Cardinality(OpenWirers) - 1
        /\ Cardinality(OpenWirers) \in Nat
    BY <1>0, CloseKeeps DEF CommitWiring
  <1>9. WiringShaped' BY <1>0, <1>5, <1>6, <1>8 DEF WiringShaped
  <1>10. \A v \in OpenWirers' : v \in OpenWirers /\ v \in Wirers /\ wiring'[v] = wiring[v] BY <1>8 DEF OpenWirers
  <1>11. \A v \in Wirers : wiring[v].began \in Nat /\ wiring[v].began <= clock
    BY <1>0 DEF WiringShaped, WiringRows, Timed
  <1>12. Timed'
    <2>1. t + Cardinality(OpenWirers') <= 2 * MaxWirings
      <3>1. clock + Cardinality(OpenWirers) <= 2 * MaxWirings BY <1>0 DEF Timed
      <3> QED BY <1>0, <1>1, <1>8, <3>1, WiringAssumption
    <2>2. \A v \in Wirers : wiring'[v].began <= t BY <1>0, <1>1, <1>8, <1>11
    <2>3. \A e \in edges \cup added : 1 <= e.began /\ e.began < e.ended /\ e.ended <= t
      <3>1. \A e \in edges : 1 <= e.began /\ e.began < e.ended /\ e.ended <= t BY <1>0, <1>1, <1>7 DEF Timed
      <3>2. \A e \in added : 1 <= e.began /\ e.began < e.ended /\ e.ended <= t BY <1>1, <1>3, <1>6
      <3> QED BY <3>1, <3>2
    <2>4. \A v \in OpenWirers' : 1 <= wiring'[v].began BY <1>0, <1>10 DEF Timed
    <2> QED BY <1>5, <1>8, <1>10, <2>1, <2>2, <2>3, <2>4 DEF Timed
  <1>13. ASSUME NEW k \in Nat, k < t PROVE {f \in edges' : f.ended <= k} = {f \in edges : f.ended <= k}
    <2>1. \A f \in added : ~(f.ended <= k) BY <1>6, <1>13
    <2> QED BY <1>5, <2>1
  <1>14. ASSUME NEW e \in edges PROVE ~Cyclic({f.edge : f \in {g \in edges' :
                 g.ended <= e.began \/ (g.began = e.began /\ g.ended = e.ended)}})
    <2>1. \A f \in added : ~(f.ended <= e.began) /\ f.ended # e.ended BY <1>1, <1>6, <1>7
    <2>2. {g \in edges' : g.ended <= e.began \/ (g.began = e.began /\ g.ended = e.ended)} = Behind(e)
      BY <1>5, <2>1 DEF Behind
    <2> QED BY <2>2 DEF WiringInv, NoneAlone
  <1>15. ASSUME NEW e \in added PROVE ~Cyclic({f.edge : f \in {g \in edges' :
                 g.ended <= e.began \/ (g.began = e.began /\ g.ended = e.ended)}})
    <2>1. e.began = b /\ e.ended = t /\ mine # {} BY <1>6
    <2>2. {g \in edges' : g.ended <= b \/ (g.began = b /\ g.ended = t)} = {g \in edges : g.ended <= b} \cup added
      <3>1. \A f \in edges : f.ended # t BY <1>1, <1>7
      <3>2. \A f \in added : f.began = b /\ f.ended = t BY <1>6
      <3> QED BY <1>5, <3>1, <3>2, <1>3
    <2>3. {f.edge : f \in {g \in edges : g.ended <= b} \cup added} = Seen(b) \cup mine
      <3>1. {f.edge : f \in {g \in edges : g.ended <= b} \cup added}
              = {f.edge : f \in {g \in edges : g.ended <= b}} \cup {f.edge : f \in added} OBVIOUS
      <3> QED BY <1>6, <3>1 DEF Seen
    <2>4. ~Cyclic(Seen(b) \cup mine) BY <1>0, <1>2, <2>1 DEF WiringInv, NoneAlone
    <2> QED BY <2>1, <2>2, <2>3, <2>4
  <1>16. NoneAlone'
    <2>1. \A e \in edges' : ~Cyclic({f.edge : f \in {g \in edges' :
                 g.ended <= e.began \/ (g.began = e.began /\ g.ended = e.ended)}})
      BY <1>5, <1>14, <1>15
    <2>2. ASSUME NEW v \in OpenWirers', NEW q, q = wiring'[v]
          PROVE  q.mine = {} \/ ~Cyclic({f.edge : f \in {g \in edges' : g.ended <= q.began}} \cup q.mine)
      <3>1. v \in OpenWirers /\ q = wiring[v] /\ q.began \in Nat /\ q.began < t
        BY <1>0, <1>1, <1>10, <1>11, <2>2
      <3>2. {g \in edges' : g.ended <= q.began} = {g \in edges : g.ended <= q.began} BY <1>13, <3>1
      <3>3. q.mine = {} \/ ~Cyclic(Seen(q.began) \cup q.mine) BY <3>1 DEF WiringInv, NoneAlone
      <3> QED BY <3>2, <3>3 DEF Seen
    <2> QED BY <2>1, <2>2 DEF NoneAlone, Seen, Behind
  <1> QED BY <1>9, <1>12, <1>16 DEF WiringInv

\* The invariant at the start.
LEMMA WiringInitial == WiringInit => WiringInv
  <1> SUFFICES ASSUME WiringInit PROVE WiringInv OBVIOUS
  <1>1. PICK no \in BOOLEAN : no = FALSE OBVIOUS
  <1>2. PICK r : r = [open |-> no, mine |-> {}, began |-> 0] OBVIOUS
  <1>3. r \in WiringRows /\ r.began = 0 /\ r.open = no
    <2>1. {} \in SUBSET EdgeSet /\ 0 \in Nat OBVIOUS
    <2> QED BY <1>2, <2>1, Zenon DEF WiringRows
  <1>4. edges = {} /\ clock = 0 /\ wiring = [w \in Wirers |-> r] BY <1>1, <1>2 DEF WiringInit
  <1>5. wiring \in [Wirers -> WiringRows] /\ \A w \in Wirers : wiring[w] = r BY <1>3, <1>4
  <1>6. OpenWirers = {}
    <2>1. ~r.open BY <1>1, <1>3
    <2> QED BY <1>5, <2>1 DEF OpenWirers
  <1>7. IsFiniteSet(OpenWirers) /\ Cardinality(OpenWirers) = 0 BY <1>6, FS_EmptySet
  <1>8. WiringShaped BY <1>4, <1>5 DEF WiringShaped
  <1>9. Timed
    <2>1. 0 + 0 <= 2 * MaxWirings BY WiringAssumption
    <2> QED BY <1>3, <1>4, <1>5, <1>6, <1>7, <2>1 DEF Timed
  <1> QED BY <1>4, <1>6, <1>8, <1>9 DEF WiringInv, NoneAlone

\* The invariant in every step.
LEMMA WiringSteps ==
  ASSUME WiringInv, [WiringNext]_wiringVars
  PROVE  WiringInv'
  <1>0. Committed \in SUBSET EdgeSet BY DEF WiringInv, WiringShaped, Committed, EdgeRows
  <1>1. ASSUME NEW w \in Wirers, NEW e \in EdgeSet, CreateDependency(w, e) PROVE WiringInv'
    <2>1. PICK mine : mine = Added(Committed, e) \ Committed OBVIOUS
    <2>2. mine \in SUBSET EdgeSet /\ (mine = {} \/ ~Cyclic(Committed \cup mine))
      <3>1. Added(Committed, e) = Committed \cup {e} /\ ~Cyclic(Committed \cup {e})
        BY <1>1 DEF Added, CreateDependency
      <3>2. Committed \cup mine = Committed \cup {e} BY <2>1, <3>1
      <3> QED BY <2>1, <3>1, <3>2
    <2> QED BY <1>1, <2>1, <2>2, OpenKeeps DEF CreateDependency
  <1>2. ASSUME NEW w \in Wirers, WireStandard(w) PROVE WiringInv'
    <2>1. PICK wanted \in Rollups : Open(w, Wired(Committed, wanted) \ Committed) BY <1>2 DEF WireStandard
    <2>2. wanted \in Seq(EdgeSet) BY WiringAssumption DEF EdgeSet
    <2>3. PICK G : G = Wired(Committed, wanted) OBVIOUS
    <2>4. Committed \subseteq G /\ G \subseteq EdgeSet /\ (G = Committed \/ ~Cyclic(G))
      BY <1>0, <2>2, <2>3, WiredSound
    <2>5. Committed \cup (G \ Committed) = G BY <2>4
    <2>6. G \ Committed \in SUBSET EdgeSet /\ (G \ Committed = {} \/ ~Cyclic(Committed \cup (G \ Committed)))
      BY <2>4, <2>5
    <2> QED BY <2>1, <2>3, <2>6, OpenKeeps
  <1>3. CASE WiringNext BY <1>1, <1>2, <1>3, CommitKeeps, RollbackKeeps DEF WiringNext
  <1>4. CASE UNCHANGED wiringVars
    BY <1>4 DEF wiringVars, WiringInv, WiringShaped, Timed, NoneAlone, OpenWirers, Seen, Behind
  <1> QED BY <1>3, <1>4

\* Each transaction checks every edge on the graph it saw with the edges it
\* added before (add_dependency, ensure_standard_dependencies).
THEOREM WiringCorrect == WiringSpec => []WiringInv
  BY WiringInitial, WiringSteps, PTL DEF WiringSpec

\* Edges whose transactions did not overlap make no cycle (would_create_cycle):
\* the transaction that ended last saw all the others' edges.
THEOREM NoLoneCycleAlways == WiringSpec => []NoLoneCycle
  <1>1. WiringInv => NoLoneCycle
    <2> SUFFICES ASSUME WiringInv, NEW F \in SUBSET edges, \A e, f \in F : ~Overlap(e, f),
                        Cyclic({e.edge : e \in F})
                 PROVE  FALSE
      BY DEF NoLoneCycle
    <2>1. /\ clock \in Nat
          /\ \A e \in F : e.began \in Nat /\ e.ended \in 1 .. clock /\ e.began < e.ended
      BY DEF WiringInv, WiringShaped, Timed, EdgeRows
    <2>2. F # {}
      <3>1. ~Cyclic({}) BY DEF Cyclic
      <3>2. F = {} => {e.edge : e \in F} = {} OBVIOUS
      <3> QED BY <3>1, <3>2
    <2>3. PICK e \in F : \A f \in F : f.ended <= e.ended
      <3> DEFINE T == {f.ended : f \in F}
      <3>1. T \in SUBSET (1 .. clock) /\ T # {} BY <2>1, <2>2
      <3>2. \E m \in T : \A k \in T : k <= m
        <4> HIDE DEF T
        <4> QED BY <2>1, <3>1, LastExists
      <3> QED BY <3>2
    <2>4. ASSUME NEW f \in F PROVE f \in Behind(e)
      <3>1. ~Overlap(e, f) OBVIOUS
      <3>2. f.ended <= e.ended /\ f.began < f.ended /\ f.began \in Nat /\ f.ended \in Nat /\ e.began \in Nat /\ e.ended \in Nat
        BY <2>1, <2>3
      <3>3. f.began < e.ended BY <3>2
      <3> QED BY <3>1, <3>2, <3>3 DEF Overlap, Behind
    <2>5. {f.edge : f \in F} \subseteq {f.edge : f \in Behind(e)} BY <2>4
    <2> QED BY <2>5, CyclicGrows DEF WiringInv, NoneAlone
  <1> QED BY <1>1, WiringCorrect, PTL

\* The edges, the open transactions and the clock keep their types.
THEOREM WiringTypesKept == WiringSpec => []WiringTypeOK
  <1>1. WiringInv => WiringTypeOK
    <2> SUFFICES ASSUME WiringInv PROVE WiringTypeOK OBVIOUS
    <2>1. WiringShaped /\ Timed /\ clock \in Nat BY DEF WiringInv, WiringShaped
    <2>2. clock <= 2 * MaxWirings /\ 2 * MaxWirings \in Nat
      <3>1. Cardinality(OpenWirers) \in Nat BY <2>1, FS_CardinalityType DEF Timed
      <3>2. clock + Cardinality(OpenWirers) <= 2 * MaxWirings BY <2>1 DEF Timed
      <3> QED BY <2>1, <3>1, <3>2, WiringAssumption
    <2>3. PICK T : T = 2 * MaxWirings OBVIOUS
    <2>4. ASSUME NEW e \in edges PROVE e \in [edge : EdgeSet, began : 1 .. T, ended : 1 .. T]
      <3>1. e \in EdgeRows /\ e.began \in Nat /\ e.ended \in Nat BY <2>1 DEF WiringShaped, EdgeRows
      <3>2. 1 <= e.began /\ e.began < e.ended /\ e.ended <= clock BY <2>1 DEF Timed
      <3>3. e.began \in 1 .. T /\ e.ended \in 1 .. T BY <2>1, <2>2, <2>3, <3>1, <3>2
      <3> QED BY <3>1, <3>3 DEF EdgeRows
    <2>5. ASSUME NEW w \in Wirers PROVE wiring[w] \in [open : BOOLEAN, mine : SUBSET EdgeSet, began : 0 .. T]
      <3>1. wiring[w] \in WiringRows /\ wiring[w].began \in Nat BY <2>1 DEF WiringShaped, WiringRows
      <3>2. wiring[w].began \in 0 .. T BY <2>1, <2>2, <2>3, <3>1 DEF Timed
      <3> QED BY <3>1, <3>2, Zenon DEF WiringRows
    <2>6. clock \in 0 .. T BY <2>1, <2>2, <2>3
    <2> QED BY <2>1, <2>3, <2>4, <2>5, <2>6 DEF WiringTypeOK, WiringShaped
  <1> QED BY <1>1, WiringCorrect, PTL

-----------------------------------------------------------------------------
(***************************************************************************)
(* The contest of the models (ModelSelection).  What is computed in a      *)
(* state needs of it only that every model has folds to be scored by.      *)
(***************************************************************************)

\* A finite set that a relation orders totally has a first element.
LEMMA FirstExists ==
  ASSUME NEW S, IsFiniteSet(S), S # {}, NEW R,
         \A x, y \in S : x # y => <<x, y>> \in R \/ <<y, x>> \in R,
         \A x, y, z \in S : <<x, y>> \in R /\ <<y, z>> \in R => <<x, z>> \in R
  PROVE  \E m \in S : \A n \in S \ {m} : <<m, n>> \in R
  <1> DEFINE First(s, m) == m \in s /\ \A n \in s \ {m} : <<m, n>> \in R
             Good == {s \in SUBSET S : s = {} \/ \E m \in s : First(s, m)}
  <1>1. {} \in Good OBVIOUS
  <1>2. ASSUME NEW s \in SUBSET S, s # {}, \A x \in s : s \ {x} \in Good PROVE s \in Good
    <2>1. PICK x \in s : TRUE BY <1>2
    <2>2. CASE s \ {x} = {}
      <3>1. First(s, x) BY <2>1, <2>2
      <3> QED BY <2>1, <3>1
    <2>3. CASE s \ {x} # {}
      <3>1. PICK m \in s \ {x} : First(s \ {x}, m) BY <1>2, <2>1, <2>3
      <3>2. CASE <<m, x>> \in R
        <4>1. First(s, m) BY <2>1, <3>1, <3>2
        <4> QED BY <3>1, <4>1
      <3>3. CASE <<x, m>> \in R
        <4>1. ASSUME NEW n \in s \ {x} PROVE <<x, n>> \in R
          <5>1. CASE n = m BY <3>3, <5>1
          <5>2. CASE n # m BY <2>1, <3>1, <3>3, <5>2
          <5> QED BY <5>1, <5>2
        <4>2. First(s, x) BY <2>1, <4>1
        <4> QED BY <2>1, <4>2
      <3> QED BY <2>1, <3>1, <3>2, <3>3
    <2> QED BY <2>2, <2>3
  <1>3. S \in Good
    <2> HIDE DEF Good
    <2> QED BY <1>1, <1>2, SetInduction
  <1> QED BY <1>3

\* The folds of a model: numbers, and at least one.
FoldLists == {f \in Seq(Nat) : f # <<>>}
Scores(s) == \A m \in AllModels : s.folds[m] \in FoldLists

\* A score is a fraction with a positive denominator.
LEMMA ScoreIsFraction ==
  ASSUME NEW f \in FoldLists
  PROVE  Total(f) \in Int /\ Weight(f) \in Nat /\ Weight(f) > 0
  <1> DEFINE w == [i \in DOMAIN f |-> (Len(f) + 1 - i) * f[i]]
  <1>1. Len(f) \in Nat /\ Len(f) >= 1 /\ DOMAIN f = 1 .. Len(f) /\ \A i \in 1 .. Len(f) : f[i] \in Nat
    BY DEF FoldLists
  <1>2. Total(f) = SumOf(w, DOMAIN f)
    BY ZenonT(60) DEF Total, MapThenSumSet, MapThenFoldSet, SumOf
  <1>3. \A i \in DOMAIN f : w[i] \in Int BY <1>1
  <1>4. IsFiniteSet(DOMAIN f) BY <1>1, FS_Interval
  <1>5. Total(f) \in Int
    <2> HIDE DEF w
    <2> QED BY <1>2, <1>3, <1>4, SumOfWithout
  <1>6. PICK n \in Nat : n = Len(f) /\ n >= 1 BY <1>1
  <1>7. n * (n + 1) >= 2 /\ n * (n + 1) \in Nat BY <1>6
  <1>8. (n * (n + 1)) \div 2 \in Nat /\ (n * (n + 1)) \div 2 > 0 BY <1>7
  <1> QED BY <1>5, <1>6, <1>8 DEF Weight

\* Fractions are compared as numbers are: one is not below itself, and what is below
\* another is below whatever that is not above.
LEMMA FractionsOrdered ==
  ASSUME NEW a \in Int, NEW b \in Int, NEW c \in Int,
         NEW p \in Nat, NEW q \in Nat, NEW r \in Nat, p > 0, q > 0, r > 0
  PROVE  /\ a * q < b * p /\ b * r <= c * q => a * r < c * p
         /\ a * q <= b * p /\ b * r < c * q => a * r < c * p
         /\ a * q <= b * p /\ b * r <= c * q => a * r <= c * p
  <1>1. ASSUME NEW x \in Int, NEW y \in Int, NEW k \in Int, k > 0
        PROVE (x * k < y * k <=> x < y) /\ (x * k <= y * k <=> x <= y)
    BY <1>1
  <1>2. /\ a * q < b * p <=> (a * q) * r < (b * p) * r
        /\ a * q <= b * p <=> (a * q) * r <= (b * p) * r
    <2>1. a * q \in Int /\ b * p \in Int OBVIOUS
    <2> QED BY <1>1, <2>1
  <1>3. /\ b * r < c * q <=> (b * r) * p < (c * q) * p
        /\ b * r <= c * q <=> (b * r) * p <= (c * q) * p
    <2>1. b * r \in Int /\ c * q \in Int OBVIOUS
    <2> QED BY <1>1, <2>1
  <1>4. /\ a * r < c * p <=> (a * r) * q < (c * p) * q
        /\ a * r <= c * p <=> (a * r) * q <= (c * p) * q
    <2>1. a * r \in Int /\ c * p \in Int OBVIOUS
    <2> QED BY <1>1, <2>1
  <1>5. (a * q) * r = (a * r) * q /\ (b * p) * r = (b * r) * p /\ (c * q) * p = (c * p) * q OBVIOUS
  <1>6. /\ (a * q) * r \in Int /\ (b * p) * r \in Int /\ (c * q) * p \in Int OBVIOUS
  <1> QED BY <1>2, <1>3, <1>4, <1>5, <1>6

\* Scores are ordered: no model is below itself, and what is below another is below
\* whatever that is not above.
LEMMA LessOrdered ==
  ASSUME NEW f \in FoldLists, NEW g \in FoldLists, NEW h \in FoldLists
  PROVE  /\ ~(Less(f, g) /\ Less(g, f))
         /\ Less(f, g) /\ ~Less(h, g) => Less(f, h)
         /\ ~Less(g, f) /\ Less(g, h) => Less(f, h)
         /\ ~Less(g, f) /\ ~Less(h, g) => ~Less(h, f)
  <1>1. PICK a \in Int, p \in Nat : a = Total(f) /\ p = Weight(f) /\ p > 0 BY ScoreIsFraction
  <1>2. PICK b \in Int, q \in Nat : b = Total(g) /\ q = Weight(g) /\ q > 0 BY ScoreIsFraction
  <1>3. PICK c \in Int, r \in Nat : c = Total(h) /\ r = Weight(h) /\ r > 0 BY ScoreIsFraction
  <1>4. /\ a * q < b * p /\ b * r <= c * q => a * r < c * p
        /\ a * q <= b * p /\ b * r < c * q => a * r < c * p
        /\ a * q <= b * p /\ b * r <= c * q => a * r <= c * p
    BY <1>1, <1>2, <1>3, FractionsOrdered
  <1>5. PICK x \in Int, y \in Int : x = a * q /\ y = b * p BY <1>1, <1>2
  <1>6. PICK u \in Int, v \in Int : u = b * r /\ v = c * q BY <1>2, <1>3
  <1>7. PICK k \in Int, l \in Int : k = a * r /\ l = c * p BY <1>1, <1>3
  <1>8. /\ Less(f, g) = (x < y) /\ Less(g, f) = (y < x)
        /\ Less(g, h) = (u < v) /\ Less(h, g) = (v < u)
        /\ Less(f, h) = (k < l) /\ Less(h, f) = (l < k)
    BY <1>1, <1>2, <1>3, <1>5, <1>6, <1>7 DEF Less
  <1>9. (x < y /\ u <= v => k < l) /\ (x <= y /\ u < v => k < l) /\ (x <= y /\ u <= v => k <= l)
    BY ONLY <1>4, <1>5, <1>6, <1>7
  <1>10. /\ ~(x < y /\ y < x)
         /\ x < y /\ ~(v < u) => k < l
         /\ ~(y < x) /\ u < v => k < l
         /\ ~(y < x) /\ ~(v < u) => ~(l < k)
    BY ONLY <1>9, x \in Int, y \in Int, u \in Int, v \in Int, k \in Int, l \in Int
  <1> QED BY ONLY <1>8, <1>10

-----------------------------------------------------------------------------
\* An order in which models may be tested.
Orders == {o \in [AllModels -> Int] : \A m, n \in AllModels : o[m] = o[n] => m = n}

\* There are finitely many models.
LEMMA ModelsFinite == IsFiniteSet(AllModels)
  <1>1. Models \in Seq(AllModels) BY SelectionAssumption DEF AllModels
  <1>2. DOMAIN Models = 1 .. Len(Models) /\ Len(Models) \in Nat BY <1>1
  <1>3. IsFiniteSet(DOMAIN Models) BY <1>2, FS_Interval
  <1> DEFINE f == [i \in DOMAIN Models |-> Models[i]]
  <1>4. f \in [DOMAIN Models -> AllModels] BY DEF AllModels, ToSet
  <1>5. \A m \in AllModels : \E i \in DOMAIN Models : f[i] = m BY DEF AllModels, ToSet
  <1>6. f \in Surjection(DOMAIN Models, AllModels) BY <1>4, <1>5 DEF Surjection
  <1> HIDE DEF f
  <1> QED BY <1>3, <1>6, FS_Surjection

\* No two models have the same turn.
LEMMA TurnsDiffer ==
  ASSUME NEW pool
  PROVE  Turn(pool) \in Orders /\ [m \in AllModels |-> -Turn(pool)[m]] \in Orders
  <1> DEFINE at(m) == CHOOSE i \in DOMAIN Models : Models[i] = m
  <1>1. Models \in Seq(AllModels) BY SelectionAssumption DEF AllModels
  <1>2. DOMAIN Models = 1 .. Len(Models) /\ Len(Models) \in Nat BY <1>1
  <1>3. ASSUME NEW m \in AllModels PROVE at(m) \in 1 .. Len(Models) /\ Models[at(m)] = m
    <2>1. \E i \in DOMAIN Models : Models[i] = m BY DEF AllModels, ToSet
    <2> QED BY <1>2, <2>1
  <1>4. ASSUME NEW m \in AllModels
        PROVE  Turn(pool)[m] = IF pool = {} /\ m \in Expensive THEN Len(Models) + at(m) ELSE at(m)
    BY DEF Turn
  <1>5. Turn(pool) = [m \in AllModels |-> Turn(pool)[m]] BY DEF Turn
  <1> HIDE DEF at
  <1>6. ASSUME NEW m \in AllModels PROVE Turn(pool)[m] \in Int BY <1>2, <1>3, <1>4
  <1>7. ASSUME NEW m \in AllModels, NEW n \in AllModels, Turn(pool)[m] = Turn(pool)[n] PROVE m = n
    <2>1. at(m) = at(n) BY <1>2, <1>3, <1>4, <1>7
    <2> QED BY <1>3, <2>1
  <1>8. Turn(pool) \in [AllModels -> Int] BY <1>5, <1>6
  <1>9. [m \in AllModels |-> -Turn(pool)[m]] \in [AllModels -> Int] BY <1>6
  <1> QED BY <1>6, <1>7, <1>8, <1>9 DEF Orders

\* Of models with scores there is one that is ahead of the others.
LEMMA BestIs ==
  ASSUME NEW s, Scores(s), NEW T \in SUBSET AllModels, T # {}, NEW o \in Orders
  PROVE  /\ Best(s, T, o) \in T
         /\ \A n \in T \ {Best(s, T, o)} : Ahead(s, Best(s, T, o), n, o)
  <1> DEFINE R == {p \in T \X T : Ahead(s, p[1], p[2], o)}
  <1>1. \A m, n \in T : <<m, n>> \in R <=> Ahead(s, m, n, o) OBVIOUS
  <1>2. \A m \in T : s.folds[m] \in FoldLists /\ o[m] \in Int BY DEF Scores, Orders
  <1>3. ASSUME NEW m \in T, NEW n \in T, m # n PROVE Ahead(s, m, n, o) \/ Ahead(s, n, m, o)
    <2>1. o[m] # o[n] /\ o[m] \in Int /\ o[n] \in Int BY <1>2, <1>3 DEF Orders
    <2> QED BY <2>1 DEF Ahead
  <1>4. ASSUME NEW x \in T, NEW y \in T, NEW z \in T, Ahead(s, x, y, o), Ahead(s, y, z, o)
        PROVE  Ahead(s, x, z, o)
    <2>1. s.folds[x] \in FoldLists /\ s.folds[y] \in FoldLists /\ s.folds[z] \in FoldLists BY <1>2
    <2>2. o[x] \in Int /\ o[y] \in Int /\ o[z] \in Int BY <1>2
    <2>3. ~(Less(s.folds[x], s.folds[y]) /\ Less(s.folds[y], s.folds[x])) BY <2>1, LessOrdered
    <2>4. ~(Less(s.folds[y], s.folds[z]) /\ Less(s.folds[z], s.folds[y])) BY <2>1, LessOrdered
    <2>5. /\ Less(s.folds[x], s.folds[y]) /\ ~Less(s.folds[z], s.folds[y]) => Less(s.folds[x], s.folds[z])
          /\ ~Less(s.folds[y], s.folds[x]) /\ Less(s.folds[y], s.folds[z]) => Less(s.folds[x], s.folds[z])
          /\ ~Less(s.folds[y], s.folds[x]) /\ ~Less(s.folds[z], s.folds[y]) => ~Less(s.folds[z], s.folds[x])
      BY <2>1, LessOrdered
    <2> QED BY <1>4, <2>2, <2>3, <2>4, <2>5 DEF Ahead
  <1>5. IsFiniteSet(T) BY ModelsFinite, FS_Subset
  <1>6. \E m \in T : \A n \in T \ {m} : <<m, n>> \in R
    <2>1. \A x, y \in T : x # y => <<x, y>> \in R \/ <<y, x>> \in R BY <1>1, <1>3
    <2>2. \A x, y, z \in T : <<x, y>> \in R /\ <<y, z>> \in R => <<x, z>> \in R BY <1>1, <1>4
    <2> HIDE DEF R
    <2> QED BY <1>5, <2>1, <2>2, FirstExists
  <1>7. \E m \in T : \A n \in T \ {m} : Ahead(s, m, n, o) BY <1>1, <1>6
  <1> QED BY <1>7 DEF Best

-----------------------------------------------------------------------------
\* Of models there is one that is simplest.
LEMMA SimplestExists ==
  ASSUME NEW S \in SUBSET AllModels, S # {}
  PROVE  \E p \in S : Simplest(S) = {p}
  <1> DEFINE R == {p \in S \X S : Simpler(p[1], p[2])}
  <1>1. \A m, n \in S : <<m, n>> \in R <=> Simpler(m, n) OBVIOUS
  <1>2. ASSUME NEW m \in S PROVE RankOf[m] \in Nat BY SelectionAssumption DEF AllModels
  <1>3. ASSUME NEW m \in S, NEW n \in S, RankOf[m] = RankOf[n] PROVE m = n
    BY <1>3, SelectionAssumption DEF AllModels, IsInjective
  <1>4. IsFiniteSet(S) BY ModelsFinite, FS_Subset
  <1>5. \A x, y \in S : x # y => <<x, y>> \in R \/ <<y, x>> \in R
    <2>1. ASSUME NEW m \in S, NEW n \in S, m # n PROVE Simpler(m, n) \/ Simpler(n, m)
      <3>1. RankOf[m] # RankOf[n] BY <1>3, <2>1
      <3>2. RankOf[m] < RankOf[n] \/ RankOf[n] < RankOf[m] BY <1>2, <3>1
      <3> QED BY <3>2 DEF Simpler
    <2> QED BY <1>1, <2>1
  <1>6. \A x, y, z \in S : <<x, y>> \in R /\ <<y, z>> \in R => <<x, z>> \in R
    <2>1. ASSUME NEW x \in S, NEW y \in S, NEW z \in S, Simpler(x, y), Simpler(y, z) PROVE Simpler(x, z)
      <3>1. RankOf[x] < RankOf[y] /\ RankOf[y] < RankOf[z] => RankOf[x] < RankOf[z] BY <1>2
      <3> QED BY <2>1, <3>1 DEF Simpler
    <2> QED BY <1>1, <2>1
  <1>7. PICK p \in S : \A n \in S \ {p} : <<p, n>> \in R
    <2> HIDE DEF R
    <2> QED BY <1>4, <1>5, <1>6, FirstExists
  <1>8. \A n \in S \ {p} : Simpler(p, n) BY <1>1, <1>7
  <1>9. ASSUME NEW m \in S, m # p PROVE ~Simpler(m, p)
    <2>1. Simpler(p, m) BY <1>8, <1>9
    <2>2. ~(RankOf[p] < RankOf[m] /\ RankOf[m] < RankOf[p]) BY <1>2
    <2> QED BY <2>1, <2>2 DEF Simpler
  <1> QED BY <1>8, <1>9 DEF Simplest

\* The simplest of some models is the simplest of any of them it is among.
LEMMA SimplestStands ==
  ASSUME NEW V \in SUBSET AllModels, NEW U \in SUBSET V, Simplest(V) \subseteq U
  PROVE  Simplest(U) = Simplest(V)
  <1>1. CASE V = {} BY <1>1 DEF Simplest
  <1>2. CASE V # {}
    <2>1. PICK p \in V : Simplest(V) = {p} BY <1>2, SimplestExists
    <2>2. p \in U BY <2>1
    <2>3. p \in Simplest(U) BY <2>1, <2>2 DEF Simplest
    <2>4. U \in SUBSET AllModels /\ U # {} BY <2>2
    <2>5. PICK q \in U : Simplest(U) = {q} BY <2>4, SimplestExists
    <2> QED BY <2>1, <2>3, <2>5
  <1> QED BY <1>1, <1>2

-----------------------------------------------------------------------------
\* The band of a model rests on it and the best one alone.
LEMMA BandApart ==
  ASSUME NEW s, NEW m, NEW b, NEW S, NEW T
  PROVE  Band(s, m, b, S) = Band(s, m, b, T)
  BY DEF Band

\* Of the models T tested in order o those with a score are scored, and no other scores
\* as well as the best one.
Contested(s, T, o, scored, best) ==
    /\ Scores(s) /\ T \in SUBSET AllModels /\ o \in Orders
    /\ scored = {m \in T : Scored(s.folds[m])} /\ scored # {}
    /\ best = Best(s, scored, o)
    /\ \A m \in scored \ {best} : Less(s.folds[best], s.folds[m])

\* Leaving out models other than the best, or testing them in another order, leaves
\* the rest of the band as it was, unless another model scored as well.
LEMMA WithinStands ==
  ASSUME NEW s, NEW T, NEW o, NEW scored, NEW best, Contested(s, T, o, scored, best),
         NEW U \in SUBSET T, best \in U, NEW o2 \in Orders
  PROVE  Within(s, U, o2) = Within(s, T, o) \cap U
  <1>1. scored \in SUBSET AllModels /\ scored # {} /\ Scores(s) /\ o \in Orders BY DEF Contested
  <1>2. best \in scored BY <1>1, BestIs DEF Contested
  <1> DEFINE left == {m \in U : Scored(s.folds[m])}
  <1>3. PICK first : first = Best(s, left, o2) OBVIOUS
  <1>4. left \in SUBSET AllModels /\ left = scored \cap U /\ best \in left BY <1>1, <1>2 DEF Contested
  <1>5. first \in left /\ \A n \in left \ {first} : Ahead(s, first, n, o2)
    <2> HIDE DEF left
    <2> QED BY <1>1, <1>3, <1>4, BestIs
  <1>6. first = best
    <2>1. SUFFICES ASSUME first # best PROVE FALSE OBVIOUS
    <2>2. Less(s.folds[best], s.folds[first]) BY <1>4, <1>5, <2>1 DEF Contested
    <2>3. Ahead(s, first, best, o2) BY <1>4, <1>5, <2>1
    <2>4. s.folds[best] \in FoldLists /\ s.folds[first] \in FoldLists BY <1>1, <1>4, <1>5 DEF Scores
    <2>5. ~Less(s.folds[first], s.folds[best]) BY <2>2, <2>4, LessOrdered
    <2> QED BY <2>2, <2>3, <2>5 DEF Ahead
  <1>7. Within(s, U, o2) = {m \in left : m = best \/ Band(s, m, best, left)}
    BY <1>3, <1>6 DEF Within
  <1>8. Within(s, T, o) = {m \in scored : m = best \/ Band(s, m, best, scored)}
    BY DEF Within, Contested
  <1>9. \A m \in left : Band(s, m, best, left) = Band(s, m, best, scored) BY BandApart
  <1> QED BY <1>4, <1>7, <1>8, <1>9

-----------------------------------------------------------------------------
\* Every model has folds to be scored by, and a run asks for models on one of its paths.
SelectionInv ==
    /\ Scores(series)
    /\ asked.candidates \subseteq AllModels /\ asked.path \in {"chat", "panel"}

\* Contests keep folds for every model.
THEOREM SelectionCorrect == SelectionSpec => []SelectionInv
  <1>1. SelectionInit => SelectionInv
    <2> SUFFICES ASSUME SelectionInit PROVE SelectionInv OBVIOUS
    <2>1. <<Failed>> \in FoldLists BY SelectionAssumption DEF FoldLists
    <2> QED BY <2>1 DEF SelectionInit, SelectionInv, Scores
  <1>2. SelectionInv /\ [SelectionNext]_selectionVars => SelectionInv'
    <2> SUFFICES ASSUME SelectionInv, [SelectionNext]_selectionVars PROVE SelectionInv' OBVIOUS
    <2>1. ASSUME NEW s \in SeriesSet, CompareModels(s) PROVE SelectionInv'
      <3>1. ASSUME NEW m \in AllModels PROVE s.folds[m] \in FoldLists
        <4>1. s.folds[m] \in FoldScores BY DEF SeriesSet
        <4>2. s.folds[m] \in Seq(0 .. Failed) /\ s.folds[m] # <<>> BY <4>1, SelectionAssumption
        <4> QED BY <4>2, SelectionAssumption DEF FoldLists
      <3> QED BY <2>1, <3>1 DEF CompareModels, SelectionInv, Scores
    <2>2. ASSUME NEW r \in Runs, ResolveRun(r) PROVE SelectionInv'
      BY <2>2 DEF ResolveRun, Runs, SelectionInv, Scores
    <2>3. CASE UNCHANGED selectionVars BY <2>3 DEF selectionVars, SelectionInv, Scores
    <2> QED BY <2>1, <2>2, <2>3 DEF SelectionNext
  <1> QED BY <1>1, <1>2, PTL DEF SelectionSpec

\* What is evaluated are models.
LEMMA EvaluatedAreModels ==
  ASSUME NEW s, NEW pool, NEW roster
  PROVE  Evaluated(s, pool, roster) \in SUBSET AllModels
  BY DEF Evaluated, InBudget

\* The choice and the runner-up are what the best model and they themselves decide.
LEMMA ChoiceIsKept ==
  ASSUME NEW s, NEW T, NEW o, NEW scored, NEW best, Contested(s, T, o, scored, best),
         NEW U \in SUBSET T, best \in U, Pick(s, T, o) \subseteq U, Partner(s, T, o) \subseteq U,
         NEW o2 \in Orders
  PROVE  Pick(s, U, o2) = Pick(s, T, o) /\ Partner(s, U, o2) = Partner(s, T, o)
  <1>1. PICK V : V = Within(s, T, o) OBVIOUS
  <1>2. PICK W : W = Within(s, U, o2) OBVIOUS
  <1>3. W = V \cap U BY <1>1, <1>2, WithinStands
  <1>4. V \in SUBSET AllModels BY <1>1 DEF Within, Contested
  <1>5. /\ Pick(s, T, o) = Simplest(V) /\ Partner(s, T, o) = Simplest(V \ Simplest(V))
        /\ Pick(s, U, o2) = Simplest(W) /\ Partner(s, U, o2) = Simplest(W \ Simplest(W))
    BY <1>1, <1>2 DEF Pick, Partner
  <1>6. Simplest(W) = Simplest(V)
    <2>1. Simplest(V) \subseteq W BY <1>3, <1>5 DEF Simplest
    <2> QED BY <1>3, <1>4, <2>1, SimplestStands
  <1>7. Simplest(W \ Simplest(W)) = Simplest(V \ Simplest(V))
    <2>1. V \ Simplest(V) \in SUBSET AllModels BY <1>4
    <2>2. W \ Simplest(W) \in SUBSET (V \ Simplest(V)) BY <1>3, <1>6
    <2>3. Simplest(V \ Simplest(V)) \subseteq V \ Simplest(V) BY DEF Simplest
    <2>4. Simplest(V \ Simplest(V)) \subseteq W \ Simplest(W) BY <1>3, <1>5, <1>6, <2>3
    <2> QED BY <2>1, <2>2, <2>4, SimplestStands
  <1> QED BY <1>5, <1>6, <1>7

\* A list of candidates restricts a run or stops it.
LEMMA ListsRespected ==
  ASSUME SelectionInv
  PROVE  CandidatesRespected
  <1> SUFFICES ASSUME asked.candidates # {}, ~Pool(asked).fails
               PROVE  \/ /\ Pool(asked).models # {}
                         /\ Pool(asked).models \subseteq asked.candidates \cap asked.company
                      \/ Pool(asked) = Everything /\ asked.path = "panel" /\ asked.candidates \cap asked.settings = {}
    BY DEF CandidatesRespected
  <1>1. asked.candidates \cap AllModels = asked.candidates BY DEF SelectionInv
  <1>2. CASE asked.path = "chat"
    <2>1. ResolvePreset(asked.candidates, AllModels) = Only(asked.candidates)
      BY <1>1 DEF ResolvePreset
    <2>2. Only(asked.candidates) # Everything /\ Only(asked.candidates).models = asked.candidates
      BY DEF Only, Everything
    <2>3. Pool(asked) = IF asked.candidates \cap asked.company = {} THEN Refused
                        ELSE Only(asked.candidates \cap asked.company)
      BY <1>2, <2>1, <2>2 DEF Pool, CompanyPool
    <2>4. Refused.fails BY DEF Refused
    <2> QED BY <2>3, <2>4 DEF Only
  <1>3. CASE asked.path = "panel"
    <2> DEFINE known == asked.candidates \cap asked.settings
    <2>1. CASE known = {}
      <3>1. ResolvePreset(asked.candidates, asked.settings) = Everything BY <2>1 DEF ResolvePreset
      <3> QED BY <1>3, <2>1, <3>1 DEF Pool
    <2>2. CASE known # {}
      <3>1. ResolvePreset(asked.candidates, asked.settings) = Only(known) BY <2>2 DEF ResolvePreset
      <3>2. Only(known) # Everything /\ Only(known).models = known BY <2>2 DEF Only, Everything
      <3>3. Pool(asked) = IF known \subseteq asked.company THEN Only(known) ELSE Refused
        BY <1>3, <3>1, <3>2 DEF Pool
      <3>4. Refused.fails BY DEF Refused
      <3> QED BY <2>2, <3>2, <3>3, <3>4
    <2> QED BY <2>1, <2>2
  <1> QED BY <1>2, <1>3 DEF SelectionInv

\* Leaving models out of a contest, or testing them in the reverse order, does not change
\* who wins it and who comes next; and a list of candidates is respected (get_model,
\* resolve_preset).
THEOREM ContestStandsAlways == SelectionSpec => []ContestStands
  <1>1. ASSUME SelectionInv PROVE ChoiceStands
    <2> DEFINE o      == Turn(Pool(asked).models)
               T      == Evaluated(series, Pool(asked).models, asked.company)
               scored == {m \in T : Scored(series.folds[m])}
               best   == Best(series, scored, o)
    <2>1. T \in SUBSET AllModels BY EvaluatedAreModels
    <2>2. o \in Orders /\ [m \in AllModels |-> -o[m]] \in Orders BY TurnsDiffer
    <2>3. scored = {m \in T : Scored(series.folds[m])} /\ best = Best(series, scored, o) OBVIOUS
    <2>4. ASSUME scored # {}, \A m \in scored \ {best} : Less(series.folds[best], series.folds[m]),
                 NEW U \in SUBSET T, NEW o2 \in {o, [m \in AllModels |-> -o[m]]},
                 ({best} \cup Pick(series, T, o) \cup Partner(series, T, o)) \subseteq U
          PROVE  Pick(series, U, o2) = Pick(series, T, o) /\ Partner(series, U, o2) = Partner(series, T, o)
      <3> HIDE DEF o, T, scored, best
      <3>1. best \in U /\ Pick(series, T, o) \subseteq U /\ Partner(series, T, o) \subseteq U /\ o2 \in Orders
        BY <2>2, <2>4
      <3>2. Contested(series, T, o, scored, best)
        BY <1>1, <2>1, <2>2, <2>3, <2>4 DEF SelectionInv, Contested
      <3> QED BY <3>1, <3>2, ChoiceIsKept
    <2> QED BY ONLY <2>4 DEF ChoiceStands
  <1>2. SelectionInv => ContestStands BY <1>1, ListsRespected DEF ContestStands
  <1> QED BY <1>2, SelectionCorrect, PTL

-----------------------------------------------------------------------------
(* Anomalies *)

\* The sums along a sequence, up to each position.
SumsUpTo(s, n, g) == g = [i \in 0 .. n |-> IF i = 0 THEN 0 ELSE g[i - 1] + s[i]]

\* Every sequence of numbers has a total, a number.
LEMMA TotalIsInt ==
  ASSUME NEW s \in Seq(Int)
  PROVE  Total2(s) \in Int
  <1> DEFINE Until(n) == \E g \in [0 .. n -> Int] : SumsUpTo(s, n, g)
             Bad == {n \in 0 .. Len(s) : ~Until(n)}
  <1>1. Until(0)
    <2> DEFINE g == [i \in 0 .. 0 |-> 0]
    <2>1. g \in [0 .. 0 -> Int] OBVIOUS
    <2>2. g = [i \in 0 .. 0 |-> IF i = 0 THEN 0 ELSE g[i - 1] + s[i]] OBVIOUS
    <2> QED BY <2>1, <2>2 DEF SumsUpTo
  <1>2. ASSUME NEW n \in 0 .. Len(s), n # 0, Until(n - 1) PROVE Until(n)
    <2>1. PICK g \in [0 .. n - 1 -> Int] : SumsUpTo(s, n - 1, g) BY <1>2
    <2> DEFINE h == [i \in 0 .. n |-> IF i = n THEN g[n - 1] + s[n] ELSE g[i]]
    <2>2. n \in Nat /\ n - 1 \in Nat /\ n \in 1 .. Len(s) /\ s[n] \in Int BY <1>2
    <2>3. h \in [0 .. n -> Int] BY <2>2
    <2>4. ASSUME NEW i \in 0 .. n PROVE h[i] = IF i = 0 THEN 0 ELSE h[i - 1] + s[i]
      <3>1. CASE i = n
        <4>1. n - 1 \in 0 .. n /\ n - 1 # n BY <2>2
        <4>2. h[n - 1] = g[n - 1] /\ h[n] = g[n - 1] + s[n] BY <2>2, <4>1
        <4> QED BY <1>2, <3>1, <4>2
      <3>2. CASE i # n
        <4>1. i \in 0 .. n - 1 BY <2>2, <3>2
        <4>2. g[i] = IF i = 0 THEN 0 ELSE g[i - 1] + s[i] BY <2>1, <4>1 DEF SumsUpTo
        <4>3. i # 0 => i - 1 \in 0 .. n /\ i - 1 # n BY <2>2, <4>1
        <4> QED BY <3>2, <4>2, <4>3
      <3> QED BY <3>1, <3>2
    <2>5. h = [i \in 0 .. n |-> h[i]] OBVIOUS
    <2>6. h = [i \in 0 .. n |-> IF i = 0 THEN 0 ELSE h[i - 1] + s[i]]
      <3> HIDE DEF h
      <3> QED BY <2>4, <2>5, Zenon
    <2> HIDE DEF h
    <2> QED BY <2>3, <2>6 DEF SumsUpTo
  <1>3. Bad = {}
    <2>1. SUFFICES ASSUME Bad # {} PROVE FALSE OBVIOUS
    <2>2. Len(s) \in Nat /\ Bad \in SUBSET Nat OBVIOUS
    <2>3. PICK n \in Bad : \A k \in Bad : n <= k
      <3> HIDE DEF Bad
      <3> QED BY <2>1, <2>2, LeastExists
    <2>4. n \in 0 .. Len(s) /\ ~Until(n) BY <2>3
    <2>5. n # 0 BY <1>1, <2>4
    <2>6. n - 1 \in 0 .. Len(s) /\ ~(n <= n - 1) BY <2>2, <2>4, <2>5
    <2>7. Until(n - 1)
      <3> HIDE DEF Until
      <3> QED BY <2>3, <2>6
    <2> HIDE DEF Until
    <2> QED BY <1>2, <2>4, <2>5, <2>7
  <1>4. PICK g \in [0 .. Len(s) -> Int] : SumsUpTo(s, Len(s), g)
    <2>1. Len(s) \in Nat /\ Len(s) \in 0 .. Len(s) OBVIOUS
    <2>2. Until(Len(s))
      <3> HIDE DEF Until
      <3> QED BY <1>3, <2>1
    <2> QED BY <2>2
  <1> DEFINE f == CHOOSE f : SumsUpTo(s, Len(s), f)
  <1>5. Total2(s) = f[Len(s)] BY Zenon DEF Total2, SumsUpTo
  <1>6. SumsUpTo(s, Len(s), f) BY <1>4
  <1>7. ASSUME NEW i \in 0 .. Len(s) PROVE f[i] = g[i]
    <2> HIDE DEF f
    <2> DEFINE Apart == {k \in 0 .. Len(s) : f[k] # g[k]}
    <2>1. SUFFICES ASSUME Apart # {} PROVE FALSE BY <1>7
    <2>2. Len(s) \in Nat /\ Apart \in SUBSET Nat OBVIOUS
    <2>3. PICK n \in Apart : \A k \in Apart : n <= k
      <3> HIDE DEF Apart
      <3> QED BY <2>1, <2>2, LeastExists
    <2>4. n \in 0 .. Len(s) /\ f[n] # g[n] BY <2>3
    <2>5. /\ f[n] = IF n = 0 THEN 0 ELSE f[n - 1] + s[n]
          /\ g[n] = IF n = 0 THEN 0 ELSE g[n - 1] + s[n]
      BY <1>4, <1>6, <2>4 DEF SumsUpTo
    <2>6. n # 0 BY <2>4, <2>5
    <2>7. n - 1 \in 0 .. Len(s) /\ ~(n <= n - 1) BY <2>2, <2>4, <2>6
    <2>8. f[n - 1] = g[n - 1]
      <3>1. n - 1 \notin Apart
        <4> HIDE DEF Apart
        <4> QED BY <2>3, <2>7
      <3> QED BY <2>7, <3>1
    <2> QED BY <2>4, <2>5, <2>6, <2>8
  <1>8. Len(s) \in 0 .. Len(s) OBVIOUS
  <1> HIDE DEF f
  <1> QED BY <1>5, <1>7, <1>8

\* A finite set of numbers has a lowest and a highest.
LEMMA EndsExist ==
  ASSUME NEW S \in SUBSET Int, S # {}, IsFiniteSet(S)
  PROVE  /\ \E low \in S : \A x \in S : low <= x
         /\ \E top \in S : \A x \in S : x <= top
  <1> DEFINE Up == {p \in S \X S : p[1] < p[2]}
             Down == {p \in S \X S : p[2] < p[1]}
  <1>1. \A x, y \in S : (<<x, y>> \in Up <=> x < y) /\ (<<x, y>> \in Down <=> y < x) OBVIOUS
  <1>2. \A x \in S : x \in Int OBVIOUS
  <1> HIDE DEF Up, Down
  <1>3. /\ \A x, y \in S : x # y => <<x, y>> \in Up \/ <<y, x>> \in Up
        /\ \A x, y \in S : x # y => <<x, y>> \in Down \/ <<y, x>> \in Down
    BY <1>1, <1>2
  <1>4. \A x, y, z \in S : <<x, y>> \in Up /\ <<y, z>> \in Up => <<x, z>> \in Up
    <2>1. \A x, y, z \in Int : x < y /\ y < z => x < z OBVIOUS
    <2> QED BY <1>1, <1>2, <2>1
  <1>5. \A x, y, z \in S : <<x, y>> \in Down /\ <<y, z>> \in Down => <<x, z>> \in Down
    <2>1. \A x, y, z \in Int : y < x /\ z < y => z < x OBVIOUS
    <2> QED BY <1>1, <1>2, <2>1
  <1>6. PICK low \in S : \A x \in S \ {low} : <<low, x>> \in Up BY <1>3, <1>4, FirstExists
  <1>7. PICK top \in S : \A x \in S \ {top} : <<top, x>> \in Down BY <1>3, <1>5, FirstExists
  <1>8. \A x \in S \ {low} : low < x BY <1>1, <1>6
  <1>9. \A x \in S \ {top} : x < top BY <1>1, <1>7
  <1>10. ASSUME NEW x \in S PROVE low <= x /\ x <= top BY <1>2, <1>8, <1>9
  <1> QED BY <1>10

\* The values of a sequence have an order: there is a k-th of them.
LEMMA SortedIsInt ==
  ASSUME NEW s \in Seq(Int), NEW k \in 1 .. Len(s)
  PROVE  Sorted(s, k) \in Int
  <1> DEFINE At(x) == Cardinality({i \in DOMAIN s : s[i] <= x})
             S == {x \in Range(s) : At(x) >= k}
  <1>1. PICK n \in Nat : n = Len(s) /\ DOMAIN s = 1 .. n /\ 1 \in 1 .. n /\ k <= n OBVIOUS
  <1>2. \A i \in 1 .. n : s[i] \in Int BY <1>1
  <1>3. Range(s) = {s[i] : i \in 1 .. n} BY <1>1 DEF Range
  <1>4. Range(s) \in SUBSET Int /\ Range(s) # {} BY <1>1, <1>2, <1>3
  <1>5. IsFiniteSet(Range(s))
    <2>1. IsFiniteSet(1 .. n) BY <1>1, FS_Interval
    <2>2. s \in [1 .. n -> Range(s)] BY <1>1, <1>3
    <2>3. s \in Surjection(1 .. n, Range(s)) BY <1>3, <2>2 DEF Surjection
    <2> QED BY <2>1, <2>3, FS_Surjection
  <1>6. PICK top \in Range(s) : \A x \in Range(s) : x <= top BY <1>4, <1>5, EndsExist
  <1>7. At(top) = n
    <2>1. {i \in DOMAIN s : s[i] <= top} = 1 .. n BY <1>1, <1>3, <1>6
    <2>2. Cardinality(1 .. n) = n
      <3>1. n >= 1 /\ n - 1 + 1 = n /\ 1 \in Int /\ n \in Int /\ ~(1 > n) BY <1>1
      <3>2. Cardinality(1 .. n) = IF 1 > n THEN 0 ELSE n - 1 + 1 BY ONLY <3>1, FS_Interval
      <3> QED BY <3>1, <3>2
    <2> QED BY <1>1, <2>1, <2>2
  <1>8. top \in S BY <1>1, <1>7
  <1>9. S \in SUBSET Int /\ S # {} /\ IsFiniteSet(S) BY <1>4, <1>5, <1>8, FS_Subset
  <1>10. Sorted(s, k) = Min(S) BY Zenon DEF Sorted
  <1> HIDE DEF S
  <1>11. \E low \in S : \A x \in S : low <= x BY <1>9, EndsExist
  <1>12. Min(S) \in S BY <1>11 DEF Min
  <1> QED BY <1>9, <1>10, <1>12

\* Quartiles are numbers.
LEMMA QuartileIsInt ==
  ASSUME NEW s \in Seq(Int), Len(s) >= 4, NEW q \in {1, 3}
  PROVE  Quartile4(s, q) \in Int
  <1> DEFINE at == q * (Len(s) - 1)
             k == at \div 4 + 1
             r == at % 4
  <1>1. PICK n \in Nat : n = Len(s) /\ n >= 4 OBVIOUS
  <1>2. k \in 1 .. Len(s) /\ r \in Int /\ (r # 0 => k + 1 \in 1 .. Len(s))
    <2>1. CASE q = 1
      <3>1. at = n - 1 BY <1>1, <2>1
      <3> QED BY <1>1, <3>1
    <2>2. CASE q = 3
      <3>1. at = 3 * (n - 1) BY <1>1, <2>2
      <3> QED BY <1>1, <3>1
    <2> QED BY <2>1, <2>2
  <1>3. Quartile4(s, q) = Sorted(s, k) * (4 - r) + (IF r = 0 THEN 0 ELSE Sorted(s, k + 1) * r)
    BY Zenon DEF Quartile4
  <1> HIDE DEF at, k, r
  <1>4. Sorted(s, k) \in Int /\ (r # 0 => Sorted(s, k + 1) \in Int)
    <2>1. PICK j : j = k + 1 OBVIOUS
    <2>2. r # 0 => Sorted(s, j) \in Int BY <1>2, <2>1, SortedIsInt
    <2> QED BY <1>2, <2>1, <2>2, SortedIsInt
  <1>5. PICK x \in Int : x = Sorted(s, k) * (4 - r)
    <2>1. Sorted(s, k) * (4 - r) \in Int BY <1>2, <1>4
    <2> QED BY <2>1
  <1>6. CASE r = 0 BY <1>3, <1>5, <1>6
  <1>7. CASE r # 0
    <2>1. Sorted(s, k + 1) * r \in Int BY <1>2, <1>4, <1>7
    <2> QED BY <1>3, <1>5, <1>7, <2>1
  <1> QED BY <1>6, <1>7

\* A point beyond a threshold is beyond every lower one: by the deviation,
LEMMA ZFalls ==
  ASSUME NEW s \in Seq(Int), NEW i \in DOMAIN s, NEW t \in Nat, NEW u \in Nat, u <= t, ZAbove(s, i, t)
  PROVE  ZAbove(s, i, u)
  <1> DEFINE n == Len(s)
             total == Total2(s)
             d == [j \in DOMAIN s |-> n * s[j] - total]
             e == [j \in DOMAIN s |-> d[j] * d[j]]
             squares == Total2(e)
  <1>1. n \in Nat /\ DOMAIN s = 1 .. n /\ \A j \in DOMAIN s : s[j] \in Int OBVIOUS
  <1>2. total \in Int BY TotalIsInt
  <1>3. \A j \in DOMAIN s : d[j] \in Int
    <2> HIDE DEF n, total
    <2> QED BY <1>1, <1>2
  <1>4. e \in Seq(Int)
    <2> HIDE DEF d, n
    <2>1. e \in [1 .. n -> Int] BY <1>1, <1>3
    <2> HIDE DEF e
    <2> QED BY <1>1, <2>1
  <1>5. squares \in Int
    <2> HIDE DEF e
    <2> QED BY <1>4, TotalIsInt
  <1>6. \A w : ZAbove(s, i, w) <=> squares > 0 /\ 10000 * n * d[i] * d[i] > w * w * squares
    BY DEF ZAbove
  <1> HIDE DEF n, total, d, squares
  <1>7. PICK a \in Int : a = 10000 * n * d[i] * d[i]
    <2>1. 10000 * n * d[i] * d[i] \in Int BY <1>1, <1>3
    <2> QED BY <2>1
  <1>8. PICK v \in Int, w \in Int : v = u * u /\ w = t * t /\ v <= w
    <2>1. u * u <= u * t /\ u * t <= t * t
      <3>1. \A x, y, z \in Nat : x <= y => x * z <= y * z OBVIOUS
      <3>2. u * u <= t * u /\ u * t <= t * t BY <3>1
      <3> QED BY <3>2
    <2>2. u * u \in Int /\ u * t \in Int /\ t * t \in Int OBVIOUS
    <2> QED BY <2>1, <2>2
  <1>9. squares > 0 /\ a > w * squares BY <1>6, <1>7, <1>8
  <1>10. v * squares <= w * squares
    <2>1. \A x, y, z \in Int : x <= y /\ z > 0 => x * z <= y * z OBVIOUS
    <2> QED BY <1>5, <1>8, <1>9, <2>1
  <1>11. a > v * squares
    <2>1. v * squares \in Int /\ w * squares \in Int BY <1>5
    <2> QED BY <1>9, <1>10, <2>1
  <1> QED BY <1>6, <1>7, <1>8, <1>9, <1>11

\* by the quartiles,
LEMMA IqrFalls ==
  ASSUME NEW s \in Seq(Int), Len(s) >= 4, NEW i \in DOMAIN s, NEW t \in Nat, NEW u \in Nat, u <= t, OutsideIqr(s, i, t)
  PROVE  OutsideIqr(s, i, u)
  <1> DEFINE q1 == Quartile4(s, 1)
             q3 == Quartile4(s, 3)
             iqr == q3 - q1
  <1>1. \A w : OutsideIqr(s, i, w) <=> iqr > 0 /\ (40 * s[i] < 10 * q1 - w * iqr \/ 40 * s[i] > 10 * q3 + w * iqr)
    BY Zenon DEF OutsideIqr
  <1>2. q1 \in Int /\ q3 \in Int BY QuartileIsInt
  <1>3. s[i] \in Int OBVIOUS
  <1> HIDE DEF q1, q3
  <1>4. iqr \in Int BY <1>2
  <1> HIDE DEF iqr
  <1>5. iqr > 0 /\ (40 * s[i] < 10 * q1 - t * iqr \/ 40 * s[i] > 10 * q3 + t * iqr) BY <1>1
  <1>6. PICK v \in Int, w \in Int : v = u * iqr /\ w = t * iqr /\ v <= w
    <2>1. \A x, y, z \in Int : x <= y /\ z > 0 => x * z <= y * z OBVIOUS
    <2>2. u * iqr <= t * iqr BY <1>4, <1>5, <2>1
    <2>3. u * iqr \in Int /\ t * iqr \in Int BY <1>4
    <2> QED BY <2>2, <2>3
  <1>7. 40 * s[i] < 10 * q1 - v \/ 40 * s[i] > 10 * q3 + v
    <2>1. PICK x \in Int, k \in Int, l \in Int : x = s[i] /\ k = q1 /\ l = q3 BY <1>2, <1>3
    <2>2. 40 * x < 10 * k - w \/ 40 * x > 10 * l + w BY <1>5, <1>6, <2>1
    <2>3. 40 * x < 10 * k - v \/ 40 * x > 10 * l + v
      <3>1. v \in Int /\ w \in Int /\ v <= w BY <1>6
      <3> QED BY ONLY <2>2, <3>1, x \in Int, k \in Int, l \in Int
    <2> QED BY <2>1, <2>3
  <1> QED BY <1>1, <1>5, <1>6, <1>7

\* and by a share.
LEMMA OffFalls ==
  ASSUME NEW a \in Int, NEW b \in Int, NEW t \in Nat, NEW u \in Nat, u <= t, OffBy(a, b, t)
  PROVE  OffBy(a, b, u)
  <1>0. a - b \in Int /\ \A k \in Int : Abs(k) \in Nat BY DEF Abs
  <1>1. PICK x \in Nat, y \in Nat : x = Abs(a - b) /\ y = Abs(b) BY <1>0
  <1>2. u * y <= t * y
    <2>1. \A k, l, z \in Nat : k <= l => k * z <= l * z OBVIOUS
    <2> QED BY <2>1
  <1>3. u * y \in Int /\ t * y \in Int OBVIOUS
  <1>4. b # 0 /\ x * 100 > t * y BY <1>1 DEF OffBy
  <1>5. x * 100 > u * y BY <1>2, <1>3, <1>4
  <1> QED BY <1>1, <1>4, <1>5 DEF OffBy

\* The line through a sequence has values.
LEMMA TrendIsInt ==
  ASSUME NEW s \in Seq(Int), NEW x \in Int
  PROVE  TrendAt(s, x) \in Int /\ TrendScale(s) \in Int
  <1> DEFINE e == [j \in DOMAIN s |-> (j - 1) * s[j]]
  <1>1. PICK n \in Nat : n = Len(s) /\ DOMAIN s = 1 .. n OBVIOUS
  <1>2. e \in Seq(Int)
    <2>1. \A j \in DOMAIN s : (j - 1) * s[j] \in Int BY <1>1
    <2>2. e \in [1 .. n -> Int] BY <1>1, <2>1
    <2> HIDE DEF e
    <2> QED BY <1>1, <2>2
  <1>3. PICK a \in Int, b \in Int : a = Total2(e) /\ b = Total2(s)
    <2> HIDE DEF e
    <2> QED BY <1>2, TotalIsInt
  <1>4. PICK slope \in Int : slope = 12 * a - 6 * (n - 1) * b
    <2>1. 12 * a - 6 * (n - 1) * b \in Int OBVIOUS
    <2> QED BY <2>1
  <1>5. TrendAt(s, x) = slope * x + (n * n - 1) * b - (slope \div 2) * (n - 1)
    BY <1>1, <1>3, <1>4, Zenon DEF TrendAt
  <1>6. slope \div 2 \in Int OBVIOUS
  <1>7. slope * x + (n * n - 1) * b - (slope \div 2) * (n - 1) \in Int BY <1>6
  <1>8. n * (n * n - 1) \in Int OBVIOUS
  <1> QED BY <1>1, <1>5, <1>7, <1>8 DEF TrendScale

\* Where the anomalies A are.
PlacesOf(A) == {<<a.source, a.method, a.at>> : a \in A}

\* Where the scan finds something: by the z-score,
LEMMA ZPlaces ==
  ASSUME NEW s, NEW src, NEW t, NEW p
  PROVE  p \in PlacesOf(ByZscore(s, src, t)) <=>
           ~(Len(s) < 3) /\ \E i \in DOMAIN s : ZAbove(s, i, t.z) /\ p = <<src, "zscore", i>>
  <1>1. CASE Len(s) < 3 BY <1>1 DEF ByZscore, PlacesOf
  <1>2. CASE ~(Len(s) < 3)
    <2>1. ASSUME NEW a \in ByZscore(s, src, t)
          PROVE  a.source = src /\ a.method = "zscore" /\ a.at \in DOMAIN s /\ \E i \in DOMAIN s : ZAbove(s, i, t.z) /\ a.at = i
      BY <1>2, <2>1 DEF ByZscore
    <2>2. ASSUME NEW i \in DOMAIN s, ZAbove(s, i, t.z)
          PROVE  \E a \in ByZscore(s, src, t) : a.source = src /\ a.method = "zscore" /\ a.at = i
      <3>1. PICK a \in ByZscore(s, src, t) : \E l : a = [source |-> src, method |-> "zscore", at |-> i, level |-> l]
        BY <1>2, <2>2 DEF ByZscore
      <3> QED BY <3>1
    <2> QED BY <1>2, <2>1, <2>2 DEF PlacesOf
  <1> QED BY <1>1, <1>2

\* by the quartiles,
LEMMA IqrPlaces ==
  ASSUME NEW s, NEW src, NEW t, NEW p
  PROVE  p \in PlacesOf(ByIqr(s, src, t)) <=>
           ~(Len(s) < 4) /\ \E i \in DOMAIN s : OutsideIqr(s, i, t.iqr) /\ p = <<src, "iqr", i>>
  <1>1. CASE Len(s) < 4 BY <1>1 DEF ByIqr, PlacesOf
  <1>2. CASE ~(Len(s) < 4)
    <2>1. ASSUME NEW a \in ByIqr(s, src, t)
          PROVE  a.source = src /\ a.method = "iqr" /\ a.at \in DOMAIN s /\ \E i \in DOMAIN s : OutsideIqr(s, i, t.iqr) /\ a.at = i
      BY <1>2, <2>1 DEF ByIqr
    <2>2. ASSUME NEW i \in DOMAIN s, OutsideIqr(s, i, t.iqr)
          PROVE  \E a \in ByIqr(s, src, t) : a.source = src /\ a.method = "iqr" /\ a.at = i
      <3>1. PICK a \in ByIqr(s, src, t) : \E l : a = [source |-> src, method |-> "iqr", at |-> i, level |-> l]
        BY <1>2, <2>2 DEF ByIqr
      <3> QED BY <3>1
    <2> QED BY <1>2, <2>1, <2>2 DEF PlacesOf
  <1> QED BY <1>1, <1>2

\* by the trend,
LEMMA TrendPlaces ==
  ASSUME NEW s, NEW src, NEW t, NEW p
  PROVE  p \in PlacesOf(ByTrend(s, src, t)) <=>
           ~(Len(s) < 4) /\ \E i \in DOMAIN s : OffBy(s[i] * TrendScale(s), TrendAt(s, i - 1), t.pct) /\ p = <<src, "trend_deviation", i>>
  <1>1. CASE Len(s) < 4 BY <1>1 DEF ByTrend, PlacesOf
  <1>2. CASE ~(Len(s) < 4)
    <2>1. ASSUME NEW a \in ByTrend(s, src, t)
          PROVE  a.source = src /\ a.method = "trend_deviation" /\ a.at \in DOMAIN s /\ \E i \in DOMAIN s : OffBy(s[i] * TrendScale(s), TrendAt(s, i - 1), t.pct) /\ a.at = i
      BY <1>2, <2>1 DEF ByTrend
    <2>2. ASSUME NEW i \in DOMAIN s, OffBy(s[i] * TrendScale(s), TrendAt(s, i - 1), t.pct)
          PROVE  \E a \in ByTrend(s, src, t) : a.source = src /\ a.method = "trend_deviation" /\ a.at = i
      <3>1. PICK a \in ByTrend(s, src, t) : \E l : a = [source |-> src, method |-> "trend_deviation", at |-> i, level |-> l]
        BY <1>2, <2>2 DEF ByTrend
      <3> QED BY <3>1
    <2> QED BY <1>2, <2>1, <2>2 DEF PlacesOf
  <1> QED BY <1>1, <1>2

\* and by a jump.
LEMMA JumpPlaces ==
  ASSUME NEW s, NEW t, NEW last, NEW p
  PROVE  p \in PlacesOf(ByJump(s, last, t)) <=> OffBy(s[1], last, t.pct) /\ p = <<"forecast", "actuals_jump", 1>>
  <1>1. CASE ~OffBy(s[1], last, t.pct) BY <1>1 DEF ByJump, PlacesOf
  <1>2. CASE OffBy(s[1], last, t.pct)
    <2>1. PICK a : /\ ByJump(s, last, t) = {a}
                   /\ \E l : a = [source |-> "forecast", method |-> "actuals_jump", at |-> 1, level |-> l]
      BY <1>2, Zenon DEF ByJump
    <2>2. a.source = "forecast" /\ a.method = "actuals_jump" /\ a.at = 1 BY <2>1
    <2> QED BY <1>2, <2>1, <2>2 DEF PlacesOf
  <1> QED BY <1>1, <1>2

\* Thresholds u are nowhere above t.
Sharper(u, t) ==
    /\ u \in [z : Nat, iqr : Nat, pct : Nat] /\ t \in [z : Nat, iqr : Nat, pct : Nat]
    /\ u.z <= t.z /\ u.iqr <= t.iqr /\ u.pct <= t.pct

\* No method loses a place to lower thresholds.
LEMMA PlacesKept ==
  ASSUME NEW s \in Seq(Int), NEW src, NEW t, NEW u, Sharper(u, t)
  PROVE  /\ PlacesOf(ByZscore(s, src, t)) \subseteq PlacesOf(ByZscore(s, src, u))
         /\ PlacesOf(ByIqr(s, src, t)) \subseteq PlacesOf(ByIqr(s, src, u))
         /\ PlacesOf(ByTrend(s, src, t)) \subseteq PlacesOf(ByTrend(s, src, u))
         /\ \A last \in Int : s # <<>> => PlacesOf(ByJump(s, last, t)) \subseteq PlacesOf(ByJump(s, last, u))
  <1>1. /\ t.z \in Nat /\ u.z \in Nat /\ u.z <= t.z /\ t.iqr \in Nat /\ u.iqr \in Nat /\ u.iqr <= t.iqr
        /\ t.pct \in Nat /\ u.pct \in Nat /\ u.pct <= t.pct
    BY DEF Sharper
  <1>2. \A j \in DOMAIN s : ZAbove(s, j, t.z) => ZAbove(s, j, u.z) BY <1>1, ZFalls
  <1>3. Len(s) >= 4 => \A j \in DOMAIN s : OutsideIqr(s, j, t.iqr) => OutsideIqr(s, j, u.iqr) BY <1>1, IqrFalls
  <1>4. ASSUME NEW j \in DOMAIN s, OffBy(s[j] * TrendScale(s), TrendAt(s, j - 1), t.pct)
        PROVE  OffBy(s[j] * TrendScale(s), TrendAt(s, j - 1), u.pct)
    <2>1. PICK k \in Int : k = j - 1 OBVIOUS
    <2>2. PICK x \in Int : x = TrendAt(s, k) BY TrendIsInt
    <2>3. PICK y \in Int : y = s[j] * TrendScale(s)
      <3>1. s[j] \in Int /\ TrendScale(s) \in Int BY <2>1, TrendIsInt
      <3>2. s[j] * TrendScale(s) \in Int BY <3>1
      <3> QED BY <3>2
    <2>4. OffBy(y, x, t.pct) BY <1>4, <2>1, <2>2, <2>3
    <2>5. OffBy(y, x, u.pct) BY <1>1, <2>4, OffFalls
    <2> QED BY <2>1, <2>2, <2>3, <2>5
  <1>5. ASSUME NEW last \in Int, s # <<>>, OffBy(s[1], last, t.pct) PROVE OffBy(s[1], last, u.pct)
    <2>1. s[1] \in Int BY <1>5
    <2> QED BY <1>1, <1>5, <2>1, OffFalls
  <1>6. Len(s) \in Nat /\ (~(Len(s) < 4) => Len(s) >= 4) OBVIOUS
  <1>7. PlacesOf(ByZscore(s, src, t)) \subseteq PlacesOf(ByZscore(s, src, u)) BY <1>2, ZPlaces
  <1>8. PlacesOf(ByIqr(s, src, t)) \subseteq PlacesOf(ByIqr(s, src, u)) BY <1>3, <1>6, IqrPlaces
  <1>9. PlacesOf(ByTrend(s, src, t)) \subseteq PlacesOf(ByTrend(s, src, u)) BY <1>4, TrendPlaces
  <1>10. ASSUME NEW last \in Int, s # <<>> PROVE PlacesOf(ByJump(s, last, t)) \subseteq PlacesOf(ByJump(s, last, u))
    BY <1>5, <1>10, JumpPlaces
  <1> QED BY <1>7, <1>8, <1>9, <1>10

\* The places of the scan with thresholds t.
LEMMA PlacesScanned ==
  ASSUME NEW sensitivity, NEW t, t = Thresholds(sensitivity), NEW s, s = past \o strayed, NEW p
  PROVE  p \in Places(sensitivity) <=>
           \/ /\ ~(Len(s) < 4)
              /\ \/ p \in PlacesOf(ByZscore(s, "actuals", t))
                 \/ p \in PlacesOf(ByIqr(s, "actuals", t))
                 \/ p \in PlacesOf(ByTrend(s, "actuals", t))
           \/ /\ ~(Len(ahead) < 3)
              /\ \/ s # <<>> /\ p \in PlacesOf(ByJump(ahead, s[Len(s)], t))
                 \/ p \in PlacesOf(ByZscore(ahead, "forecast", t))
                 \/ p \in PlacesOf(ByIqr(ahead, "forecast", t))
  <1>1. Places(sensitivity) = PlacesOf(Scan(sensitivity)) BY DEF Places, PlacesOf
  <1>2. Scan(sensitivity) = ScanActuals(t) \cup ScanForecast(t) BY DEF Scan
  <1>3. \A A, B : p \in PlacesOf(A \cup B) <=> p \in PlacesOf(A) \/ p \in PlacesOf(B) BY DEF PlacesOf
  <1>4. p \notin PlacesOf({}) BY DEF PlacesOf
  <1>5. ScanActuals(t) = IF Len(s) < 4 THEN {}
                         ELSE ByZscore(s, "actuals", t) \cup ByIqr(s, "actuals", t) \cup ByTrend(s, "actuals", t)
    BY Zenon DEF ScanActuals
  <1>6. ScanForecast(t) = IF Len(ahead) < 3 THEN {}
                          ELSE (IF s = <<>> THEN {} ELSE ByJump(ahead, s[Len(s)], t))
                               \cup ByZscore(ahead, "forecast", t) \cup ByIqr(ahead, "forecast", t)
    BY Zenon DEF ScanForecast
  <1>7. p \in PlacesOf(ScanActuals(t)) <=>
          /\ ~(Len(s) < 4)
          /\ \/ p \in PlacesOf(ByZscore(s, "actuals", t))
             \/ p \in PlacesOf(ByIqr(s, "actuals", t))
             \/ p \in PlacesOf(ByTrend(s, "actuals", t))
    <2>1. CASE Len(s) < 4 BY <1>4, <1>5, <2>1
    <2>2. CASE ~(Len(s) < 4)
      <3>1. PICK A, B, C : A = ByZscore(s, "actuals", t) /\ B = ByIqr(s, "actuals", t) /\ C = ByTrend(s, "actuals", t) OBVIOUS
      <3>2. ScanActuals(t) = (A \cup B) \cup C BY <1>5, <2>2, <3>1
      <3>3. p \in PlacesOf(ScanActuals(t)) <=> p \in PlacesOf(A) \/ p \in PlacesOf(B) \/ p \in PlacesOf(C)
        BY ONLY <1>3, <3>2
      <3> QED BY <2>2, <3>1, <3>3
    <2> QED BY <2>1, <2>2
  <1>8. p \in PlacesOf(ScanForecast(t)) <=>
          /\ ~(Len(ahead) < 3)
          /\ \/ s # <<>> /\ p \in PlacesOf(ByJump(ahead, s[Len(s)], t))
             \/ p \in PlacesOf(ByZscore(ahead, "forecast", t))
             \/ p \in PlacesOf(ByIqr(ahead, "forecast", t))
    <2>1. CASE Len(ahead) < 3 BY <1>4, <1>6, <2>1
    <2>2. CASE ~(Len(ahead) < 3)
      <3>1. PICK A, B, C : /\ A = IF s = <<>> THEN {} ELSE ByJump(ahead, s[Len(s)], t)
                           /\ B = ByZscore(ahead, "forecast", t) /\ C = ByIqr(ahead, "forecast", t)
        OBVIOUS
      <3>2. ScanForecast(t) = (A \cup B) \cup C BY <1>6, <2>2, <3>1
      <3>3. p \in PlacesOf(ScanForecast(t)) <=> p \in PlacesOf(A) \/ p \in PlacesOf(B) \/ p \in PlacesOf(C)
        BY ONLY <1>3, <3>2
      <3>4. p \in PlacesOf(A) <=> s # <<>> /\ p \in PlacesOf(ByJump(ahead, s[Len(s)], t))
        <4>1. CASE s = <<>>
          <5>1. A = {} BY <3>1, <4>1
          <5> QED BY <1>4, <4>1, <5>1
        <4>2. CASE s # <<>>
          <5>1. A = ByJump(ahead, s[Len(s)], t) BY <3>1, <4>2
          <5> QED BY <4>2, <5>1
        <4> QED BY <4>1, <4>2
      <3> QED BY <2>2, <3>1, <3>3, <3>4
    <2> QED BY <2>1, <2>2
  <1> QED BY <1>1, <1>2, <1>3, <1>7, <1>8

\* What is looked at are sequences of numbers.
SeriesOk == past \in Seq(Int) /\ strayed \in Seq(Int) /\ ahead \in Seq(Int)

\* Lower thresholds lose nothing of the scan.
LEMMA ScanKept ==
  ASSUME SeriesOk, NEW mild, NEW sharp, Sharper(Thresholds(sharp), Thresholds(mild))
  PROVE  Places(mild) \subseteq Places(sharp)
  <1>1. PICK s \in Seq(Int) : s = past \o strayed
    <2>1. past \o strayed \in Seq(Int) BY DEF SeriesOk
    <2> QED BY <2>1
  <1>2. PICK t, u : t = Thresholds(mild) /\ u = Thresholds(sharp) OBVIOUS
  <1>3. Sharper(u, t) BY <1>2
  <1>4. ahead \in Seq(Int) BY DEF SeriesOk
  <1>5. /\ PlacesOf(ByZscore(s, "actuals", t)) \subseteq PlacesOf(ByZscore(s, "actuals", u))
        /\ PlacesOf(ByIqr(s, "actuals", t)) \subseteq PlacesOf(ByIqr(s, "actuals", u))
        /\ PlacesOf(ByTrend(s, "actuals", t)) \subseteq PlacesOf(ByTrend(s, "actuals", u))
    BY <1>3, PlacesKept
  <1>6. /\ PlacesOf(ByZscore(ahead, "forecast", t)) \subseteq PlacesOf(ByZscore(ahead, "forecast", u))
        /\ PlacesOf(ByIqr(ahead, "forecast", t)) \subseteq PlacesOf(ByIqr(ahead, "forecast", u))
    BY <1>3, <1>4, PlacesKept
  <1>7. ASSUME ~(Len(ahead) < 3), s # <<>>
        PROVE  PlacesOf(ByJump(ahead, s[Len(s)], t)) \subseteq PlacesOf(ByJump(ahead, s[Len(s)], u))
    <2>1. PICK last \in Int : last = s[Len(s)]
      <3>1. s[Len(s)] \in Int BY <1>7
      <3> QED BY <3>1
    <2>2. ahead # <<>> BY <1>4, <1>7
    <2>3. PlacesOf(ByJump(ahead, last, t)) \subseteq PlacesOf(ByJump(ahead, last, u)) BY <1>3, <1>4, <2>2, PlacesKept
    <2> QED BY <2>1, <2>3
  <1>8. ASSUME NEW p \in Places(mild) PROVE p \in Places(sharp)
    <2>1. \/ /\ ~(Len(s) < 4)
             /\ \/ p \in PlacesOf(ByZscore(s, "actuals", t))
                \/ p \in PlacesOf(ByIqr(s, "actuals", t))
                \/ p \in PlacesOf(ByTrend(s, "actuals", t))
          \/ /\ ~(Len(ahead) < 3)
             /\ \/ s # <<>> /\ p \in PlacesOf(ByJump(ahead, s[Len(s)], t))
                \/ p \in PlacesOf(ByZscore(ahead, "forecast", t))
                \/ p \in PlacesOf(ByIqr(ahead, "forecast", t))
      BY <1>1, <1>2, <1>8, PlacesScanned
    <2>2. \/ /\ ~(Len(s) < 4)
             /\ \/ p \in PlacesOf(ByZscore(s, "actuals", u))
                \/ p \in PlacesOf(ByIqr(s, "actuals", u))
                \/ p \in PlacesOf(ByTrend(s, "actuals", u))
          \/ /\ ~(Len(ahead) < 3)
             /\ \/ s # <<>> /\ p \in PlacesOf(ByJump(ahead, s[Len(s)], u))
                \/ p \in PlacesOf(ByZscore(ahead, "forecast", u))
                \/ p \in PlacesOf(ByIqr(ahead, "forecast", u))
      BY <1>5, <1>6, <1>7, <2>1
    <2> QED BY <1>1, <1>2, <2>2, PlacesScanned
  <1> QED BY <1>8

\* What the dashboard shows of a jump or an outlier the sharpest scan finds, of one dataset.
LEMMA DashboardFound ==
  ASSUME SeriesOk, strayed = <<>>, Len(ahead) >= 3, NEW f \in DashboardFindings
  PROVE  /\ f.type = "forecast_jump"    => <<"forecast", "actuals_jump", 1>> \in Places("high")
         /\ f.type = "forecast_outlier" => <<"forecast", "zscore", f.at>> \in Places("high")
         /\ f.type = "actuals_outlier"  => <<"actuals", "iqr", f.at>> \in Places("high")
  <1>1. PICK t : t = Thresholds("high") /\ t.z = 200 /\ t.iqr = 10 /\ t.pct = 20
    <2>1. Thresholds("high") = [z |-> 200, iqr |-> 10, pct |-> 20] BY DEF Thresholds
    <2> QED BY <2>1
  <1>2. past = past \o strayed /\ past \in Seq(Int) /\ ahead \in Seq(Int) BY DEF SeriesOk
  <1>3. ~(Len(ahead) < 3) BY <1>2
  <1>4. ASSUME NEW p
        PROVE  /\ Len(past) >= 4 /\ p \in PlacesOf(ByIqr(past, "actuals", t)) => p \in Places("high")
               /\ past # <<>> /\ p \in PlacesOf(ByJump(ahead, past[Len(past)], t)) => p \in Places("high")
               /\ p \in PlacesOf(ByZscore(ahead, "forecast", t)) => p \in Places("high")
    <2>1. Len(past) \in Nat /\ (Len(past) >= 4 => ~(Len(past) < 4)) BY <1>2
    <2>2. p \in Places("high") <=>
            \/ /\ ~(Len(past) < 4)
               /\ \/ p \in PlacesOf(ByZscore(past, "actuals", t))
                  \/ p \in PlacesOf(ByIqr(past, "actuals", t))
                  \/ p \in PlacesOf(ByTrend(past, "actuals", t))
            \/ /\ ~(Len(ahead) < 3)
               /\ \/ past # <<>> /\ p \in PlacesOf(ByJump(ahead, past[Len(past)], t))
                  \/ p \in PlacesOf(ByZscore(ahead, "forecast", t))
                  \/ p \in PlacesOf(ByIqr(ahead, "forecast", t))
      BY <1>1, <1>2, PlacesScanned
    <2> QED BY <1>3, <2>1, <2>2
  <1>5. /\ \A g \in ForecastJump : g.type = "forecast_jump"
        /\ \A g \in ForecastOutliers : g.type = "forecast_outlier"
        /\ \A g \in ActualsOutliers : g.type = "actuals_outlier"
        /\ \A g \in TrendBreak : g.type = "trend_break"
        /\ \A g \in HighUncertainty : g.type = "high_uncertainty"
    <2>1. \A g \in ForecastJump : g.type = "forecast_jump" BY DEF ForecastJump, Finding
    <2>2. \A g \in ForecastOutliers : g.type = "forecast_outlier" BY DEF ForecastOutliers, Finding
    <2>3. \A g \in ActualsOutliers : g.type = "actuals_outlier" BY DEF ActualsOutliers, Finding
    <2>0. \A type, at, level : Finding(type, at, level).type = type BY DEF Finding
    <2>4. \A g \in TrendBreak : g.type = "trend_break"
      <3>1. \A g \in TrendBreak : \E at, level : g = Finding("trend_break", at, level) BY Zenon DEF TrendBreak
      <3> QED BY <2>0, <3>1
    <2>5. \A g \in HighUncertainty : g.type = "high_uncertainty"
      <3>1. \A g \in HighUncertainty : \E at, level : g = Finding("high_uncertainty", at, level) BY Zenon DEF HighUncertainty
      <3> QED BY <2>0, <3>1
    <2> QED BY <2>1, <2>2, <2>3, <2>4, <2>5
  <1>6. /\ f.type = "forecast_jump" => f \in ForecastJump
        /\ f.type = "forecast_outlier" => f \in ForecastOutliers
        /\ f.type = "actuals_outlier" => f \in ActualsOutliers
    BY <1>5 DEF DashboardFindings
  <1>7. ASSUME f \in ForecastJump PROVE <<"forecast", "actuals_jump", 1>> \in Places("high")
    <2>1. Len(past) >= 2 /\ OffBy(ahead[1], past[Len(past)], 20) BY <1>7 DEF ForecastJump
    <2>2. past # <<>> BY <1>2, <2>1
    <2>3. <<"forecast", "actuals_jump", 1>> \in PlacesOf(ByJump(ahead, past[Len(past)], t)) BY <1>1, <2>1, JumpPlaces
    <2> QED BY <1>4, <2>2, <2>3
  <1>8. ASSUME f \in ForecastOutliers PROVE <<"forecast", "zscore", f.at>> \in Places("high")
    <2>1. PICK i \in DOMAIN ahead : ZAbove(ahead, i, 200) /\ f.at = i BY <1>8 DEF ForecastOutliers, Finding
    <2>2. <<"forecast", "zscore", i>> \in PlacesOf(ByZscore(ahead, "forecast", t)) BY <1>1, <1>3, <2>1, ZPlaces
    <2> QED BY <1>4, <2>1, <2>2
  <1>9. ASSUME f \in ActualsOutliers PROVE <<"actuals", "iqr", f.at>> \in Places("high")
    <2>1. ~(Len(past) < 6) /\ \E i \in DOMAIN past : OutsideIqr(past, i, 15) /\ f.at = i
      BY <1>9 DEF ActualsOutliers, Finding
    <2>2. PICK i \in DOMAIN past : OutsideIqr(past, i, 15) /\ f.at = i BY <2>1
    <2>3. Len(past) >= 4 /\ ~(Len(past) < 4) BY <1>2, <2>1
    <2>4. OutsideIqr(past, i, 10) BY <1>2, <2>2, <2>3, IqrFalls
    <2>5. <<"actuals", "iqr", i>> \in PlacesOf(ByIqr(past, "actuals", t)) BY <1>1, <2>3, <2>4, IqrPlaces
    <2> QED BY <1>4, <2>2, <2>3, <2>5
  <1> QED BY <1>6, <1>7, <1>8, <1>9

\* The variables of the line that is watched keep their types.
THEOREM AnomaliesTypeCorrect == AnomaliesSpec => []AnomaliesTypeOK
  <1>1. AnomaliesInit => AnomaliesTypeOK
    <2> SUFFICES ASSUME AnomaliesInit PROVE AnomaliesTypeOK OBVIOUS
    <2>1. Base \in [DOMAIN Base -> Points2 \cup {Base[i] : i \in DOMAIN Base}] BY AnomaliesAssumption
    <2> QED BY <2>1, AnomaliesAssumption DEF AnomaliesInit, AnomaliesTypeOK
  <1>2. AnomaliesTypeOK /\ [AnomaliesNext]_anomalyVars => AnomaliesTypeOK'
    <2> SUFFICES ASSUME AnomaliesTypeOK, [AnomaliesNext]_anomalyVars PROVE AnomaliesTypeOK' OBVIOUS
    <2>1. CASE MovePoint BY <2>1, AnomaliesAssumption DEF MovePoint, AnomaliesTypeOK
    <2>2. CASE LandOther BY <2>2, AnomaliesAssumption DEF LandOther, AnomaliesTypeOK
    <2>3. CASE AnomalySweep BY <2>3 DEF AnomalySweep, AnomaliesTypeOK
    <2>4. ASSUME NEW u \in Watchers, DismissAnomaly(u) PROVE AnomaliesTypeOK' BY <2>4 DEF DismissAnomaly, AnomaliesTypeOK
    <2>5. ASSUME NEW u \in Watchers, UndismissAnomaly(u) PROVE AnomaliesTypeOK' BY <2>5 DEF UndismissAnomaly, AnomaliesTypeOK
    <2>6. CASE UNCHANGED anomalyVars BY <2>6 DEF anomalyVars, AnomaliesTypeOK
    <2> QED BY <2>1, <2>2, <2>3, <2>4, <2>5, <2>6 DEF AnomaliesNext
  <1> QED BY <1>1, <1>2, PTL DEF AnomaliesSpec

\* Turning the scan's sensitivity up never loses an anomaly, and what the dashboard shows of
\* a jump or an outlier of one dataset the scan finds at high sensitivity (_get_thresholds,
\* get_anomalies).
THEOREM AnomaliesAgreeAlways == AnomaliesSpec => []AnomaliesAgree
  <1>1. ASSUME AnomaliesTypeOK PROVE SeriesOk
    <2>0. <<>> \in Seq(Int) OBVIOUS
    <2>1. past \in Seq(Int) /\ strayed \in Seq(Int) BY <1>1, <2>0, AnomaliesAssumption DEF AnomaliesTypeOK
    <2>2. PICK n \in Nat : DOMAIN Base = 1 .. n /\ \A i \in 1 .. n : Base[i] \in Int BY AnomaliesAssumption
    <2>3. ahead \in [1 .. n -> Int] BY <1>1, <2>2, AnomaliesAssumption DEF AnomaliesTypeOK
    <2> QED BY <2>1, <2>3 DEF SeriesOk
  <1>2. ASSUME SeriesOk PROVE AnomaliesAgree
    <2>1. Sharper(Thresholds("medium"), Thresholds("low")) /\ Sharper(Thresholds("high"), Thresholds("medium"))
      BY DEF Sharper, Thresholds
    <2>2. Places("low") \subseteq Places("medium") /\ Places("medium") \subseteq Places("high")
      BY <1>2, <2>1, ScanKept
    <2> QED BY <1>2, <2>2, DashboardFound DEF AnomaliesAgree
  <1> QED BY <1>1, <1>2, AnomaliesTypeCorrect, PTL

-----------------------------------------------------------------------------
(* Accuracy *)

\* Figures are added up as SumOf adds them.
LEMMA SummedIs ==
  ASSUME NEW S, NEW f
  PROVE  Summed(S, f) = SumOf(f, S)
  BY ZenonT(60) DEF Summed, MapThenSumSet, MapThenFoldSet, SumOf

\* A mean is a sum and a count.
LEMMA MeanIs ==
  ASSUME NEW S, NEW f
  PROVE  Mean(S, f) = [sum |-> SumOf(f, S), n |-> Cardinality(S)]
  BY SummedIs DEF Mean

\* The periods forecast are finitely many, and so are the cells.
LEMMA CellsFinite ==
  /\ MonthsAhead \in SUBSET Int /\ \A m \in MonthsAhead : m > 1 => m - 1 \in MonthsAhead
  /\ IsFiniteSet(ScoredCells)
  /\ \A c \in ScoredCells : c.v \in Vintages /\ c.l \in ScoredLines /\ c.m \in MonthsAhead
  <1> DEFINE B == {BaseOf[v] : v \in Vintages} \cup {0}
  <1>1. B \in SUBSET Int /\ B # {} BY AccuracyAssumption
  <1>2. IsFiniteSet(B)
    <2>1. PICK U : U = {BaseOf[v] : v \in Vintages} OBVIOUS
    <2>2. BaseOf \in Surjection(Vintages, U)
      <3>1. BaseOf \in [Vintages -> U] BY <2>1, AccuracyAssumption
      <3> QED BY <2>1, <3>1 DEF Surjection
    <2>3. IsFiniteSet(U) BY <2>2, FS_Surjection, AccuracyAssumption
    <2>4. IsFiniteSet(U \cup {0}) BY <2>3, FS_AddElement
    <2> QED BY <2>1, <2>4
  <1>3. Max(B) \in Int
    <2> HIDE DEF B
    <2>1. \E x \in B : \A y \in B : y <= x BY <1>1, <1>2, EndsExist
    <2>2. \E x \in B : \A y \in B : x >= y BY <1>1, <2>1
    <2>3. Max(B) \in B BY <2>2 DEF Max
    <2> QED BY <1>1, <2>3
  <1>4. PICK k \in Int : MonthsAhead = 1 .. k
    <2>1. MonthsAhead = 1 .. Max(B) + Horizon BY DEF MonthsAhead
    <2> HIDE DEF B
    <2>2. Max(B) + Horizon \in Int BY <1>3, AccuracyAssumption
    <2> QED BY <2>1, <2>2
  <1>5. MonthsAhead \in SUBSET Int /\ \A m \in MonthsAhead : m > 1 => m - 1 \in MonthsAhead BY <1>4
  <1>6. IsFiniteSet(MonthsAhead) BY <1>4, FS_Interval
  <1> DEFINE R == [v : Vintages, l : ScoredLines, m : MonthsAhead]
             g == [p \in (Vintages \X ScoredLines) \X MonthsAhead |-> [v |-> p[1][1], l |-> p[1][2], m |-> p[2]]]
  <1>7. IsFiniteSet((Vintages \X ScoredLines) \X MonthsAhead) BY <1>6, FS_Product, AccuracyAssumption
  <1>8. g \in Surjection((Vintages \X ScoredLines) \X MonthsAhead, R)
    <2>1. g \in [(Vintages \X ScoredLines) \X MonthsAhead -> R] OBVIOUS
    <2>2. ASSUME NEW c \in R PROVE \E p \in (Vintages \X ScoredLines) \X MonthsAhead : g[p] = c
      <3>1. PICK p : p = <<<<c.v, c.l>>, c.m>> OBVIOUS
      <3>2. p \in (Vintages \X ScoredLines) \X MonthsAhead BY <3>1
      <3>3. g[p] = [v |-> c.v, l |-> c.l, m |-> c.m] BY <3>1, <3>2
      <3>4. c = [v |-> c.v, l |-> c.l, m |-> c.m] OBVIOUS
      <3> QED BY <3>2, <3>3, <3>4
    <2> HIDE DEF g, R
    <2> QED BY <2>1, <2>2 DEF Surjection
  <1>9. IsFiniteSet(R)
    <2> HIDE DEF g, R
    <2> QED BY <1>7, <1>8, FS_Surjection
  <1>10. ScoredCells \in SUBSET R BY DEF ScoredCells
  <1>11. IsFiniteSet(ScoredCells)
    <2> HIDE DEF R
    <2> QED BY <1>9, <1>10, FS_Subset
  <1> QED BY <1>5, <1>10, <1>11

\* The distance of two figures is a number, above zero when they differ.
LEMMA OffIsNat ==
  ASSUME NEW a \in Int, NEW b \in Int
  PROVE  Off(a, b) \in Nat /\ (a # b => Off(a, b) > 0)
  BY DEF Off

\* A whole part of a number is a number, and not above zero unless the number is.
LEMMA PartIsInt ==
  ASSUME NEW a \in Int, NEW b \in Nat, b > 0
  PROVE  a \div b \in Int /\ (a <= 0 => a \div b <= 0)
  <1>1. PICK q \in Int : q = a \div b
    <2>1. a \div b \in Int OBVIOUS
    <2> QED BY <2>1
  <1>2. b * q <= a BY <1>1
  <1>3. ASSUME a <= 0, q > 0 PROVE FALSE
    <2>1. b * q > 0 BY <1>3
    <2>2. b * q \in Int OBVIOUS
    <2> QED BY <1>2, <1>3, <2>1, <2>2
  <1> QED BY <1>1, <1>3

\* The error of a cell is a number unless nothing was there to miss.
LEMMA PctIs ==
  ASSUME NEW p \in Int, NEW a \in Int
  PROVE  /\ a = 0 => PctError(p, a) = Unreported
         /\ a # 0 => PctError(p, a) \in Int /\ PctError(p, a) # Unreported
  <1>1. CASE a = 0 BY <1>1 DEF PctError
  <1>2. CASE a # 0
    <2>0. 0 \in Int /\ Off(p, a) \in Nat /\ Off(a, 0) \in Nat /\ Off(a, 0) > 0 BY <1>2, OffIsNat
    <2>1. PICK x \in Nat, y \in Nat : x = Off(p, a) /\ y = Off(a, 0) /\ y > 0 BY <2>0
    <2>2. 100 * x \in Int OBVIOUS
    <2>3. (100 * x) \div y \in Int BY <2>1, <2>2, PartIsInt
    <2>4. PctError(p, a) = (100 * x) \div y BY <1>2, <2>1 DEF PctError
    <2> QED BY <1>2, <2>3, <2>4, AccuracyAssumption
  <1> QED BY <1>1, <1>2

-----------------------------------------------------------------------------
(* What records are made of *)

\* The one dataset's actual of a cell.
LandedAt(c) == landed[1][c.l][c.m]

\* Without a dataset nothing is recorded; with one, nothing it does not report is, and what it
\* reports is recorded as it now is, unless something of the version changed unscored.
RecordsFollow ==
    /\ Len(landed) = 0 => \A c \in ScoredCells : records[c] = Unreported
    /\ Len(landed) = 1 => \A c \in ScoredCells :
        /\ LandedAt(c) = Unreported => records[c] = Unreported
        /\ LandedAt(c) # Unreported /\ c.v \notin moved.who =>
            records[c] # Unreported /\ records[c].pct = PctError(outlook[c], LandedAt(c))

AccuracyInv == AccuracyTypeOK /\ RecordsFollow

\* A book tells an actual or none, for every cell.
LEMMA ReportTells ==
  ASSUME NEW book \in ReportTypes, NEW c \in ScoredCells
  PROVE  book[c.l][c.m] \in Int \cup {Unreported}
  BY CellsFinite DEF ReportTypes

\* The benchmark is an actual or none.
LEMMA NaiveIs ==
  ASSUME NEW data \in Seq(ReportTypes), NEW pick, NEW c \in ScoredCells
  PROVE  Naive(data, pick, c) \in Int \cup {Unreported}
  <1> DEFINE known == {i \in DOMAIN data : c.m > 1 /\ data[i][c.l][c.m - 1] # Unreported}
  <1>1. CASE known = {} BY <1>1 DEF Naive
  <1>2. CASE known # {}
    <2>1. DOMAIN data \in SUBSET Nat /\ known \in SUBSET Nat OBVIOUS
    <2>2. PICK i : i = IF pick \in known THEN pick ELSE Min(known) OBVIOUS
    <2>3. i \in known
      <3> HIDE DEF known
      <3>1. \E x \in known : \A y \in known : x <= y BY <1>2, <2>1, LeastExists
      <3>2. Min(known) \in known BY <3>1 DEF Min
      <3> QED BY <2>2, <3>2
    <2>4. Naive(data, pick, c) = data[i][c.l][c.m - 1] BY <1>2, <2>2, Zenon DEF Naive
    <2>5. c.l \in ScoredLines /\ c.m \in MonthsAhead /\ c.m > 1 /\ data[i] \in ReportTypes BY <2>3, CellsFinite
    <2>6. c.m - 1 \in MonthsAhead BY <2>5, CellsFinite
    <2> QED BY <2>4, <2>5, <2>6 DEF ReportTypes
  <1> QED BY <1>1, <1>2

\* What is recorded is a record.
LEMMA RecordedIs ==
  ASSUME NEW c \in ScoredCells, outlook[c] \in Int, NEW actual \in Int, NEW naive \in Int \cup {Unreported}
  PROVE  /\ RecordedFor(c, actual, naive) \in RecordTypes
         /\ RecordedFor(c, actual, naive) # Unreported
         /\ RecordedFor(c, actual, naive).pct = PctError(outlook[c], actual)
  <1>1. PctError(outlook[c], actual) \in Int \cup {Unreported} BY PctIs
  <1>2. InBand(c, actual) \in BOOLEAN
    <2>1. Outlook[c.l] \in Int BY CellsFinite, AccuracyAssumption
    <2>2. Off(Outlook[c.l], actual) \in Nat BY <2>1, OffIsNat
    <2> QED BY <2>2, AccuracyAssumption DEF InBand
  <1>3. PICK p, w : p = PctError(outlook[c], actual) /\ w = InBand(c, actual) OBVIOUS
  <1>4. RecordedFor(c, actual, naive) = [p50 |-> outlook[c], actual |-> actual, pct |-> p, within |-> w, naive |-> naive]
    BY <1>3 DEF RecordedFor
  <1>5. RecordedFor(c, actual, naive) \in RecordTypes BY <1>1, <1>2, <1>3, <1>4 DEF RecordTypes
  <1> QED BY <1>3, <1>4, <1>5, AccuracyAssumption

\* Scoring a dataset: what it reports is recorded, and the rest stays.
LEMMA ScoredIs ==
  ASSUME AccuracyTypeOK, NEW data \in Seq(ReportTypes), NEW i \in DOMAIN data, NEW pick
  PROVE  /\ ScoredBy(data, i, pick) \in [ScoredCells -> RecordTypes \cup {Unreported}]
         /\ \A c \in ScoredCells :
              /\ data[i][c.l][c.m] = Unreported => ScoredBy(data, i, pick)[c] = records[c]
              /\ data[i][c.l][c.m] # Unreported =>
                   /\ ScoredBy(data, i, pick)[c] # Unreported
                   /\ ScoredBy(data, i, pick)[c].pct = PctError(outlook[c], data[i][c.l][c.m])
  <1>1. PICK f : f = ScoredBy(data, i, pick) OBVIOUS
  <1>2. f = [c \in ScoredCells |-> IF data[i][c.l][c.m] = Unreported THEN records[c]
                                    ELSE RecordedFor(c, data[i][c.l][c.m], Naive(data, pick, c))]
    BY <1>1, Zenon DEF ScoredBy
  <1>3. ASSUME NEW c \in ScoredCells
        PROVE  /\ f[c] \in RecordTypes \cup {Unreported}
               /\ data[i][c.l][c.m] = Unreported => f[c] = records[c]
               /\ data[i][c.l][c.m] # Unreported => f[c] # Unreported /\ f[c].pct = PctError(outlook[c], data[i][c.l][c.m])
    <2>1. PICK a : a = data[i][c.l][c.m] OBVIOUS
    <2>2. a \in Int \cup {Unreported} BY <2>1, ReportTells
    <2>3. PICK n \in Int \cup {Unreported} : n = Naive(data, pick, c) BY NaiveIs
    <2>4. f[c] = IF a = Unreported THEN records[c] ELSE RecordedFor(c, a, n) BY <1>2, <2>1, <2>3
    <2>5. outlook[c] \in Int /\ records[c] \in RecordTypes \cup {Unreported} BY DEF AccuracyTypeOK
    <2>6. CASE a = Unreported BY <2>1, <2>4, <2>5, <2>6
    <2>7. CASE a # Unreported
      <3>1. /\ RecordedFor(c, a, n) \in RecordTypes /\ RecordedFor(c, a, n) # Unreported
            /\ RecordedFor(c, a, n).pct = PctError(outlook[c], a)
        BY <2>2, <2>5, <2>7, RecordedIs
      <3> QED BY <2>1, <2>4, <2>7, <3>1
    <2> QED BY <2>6, <2>7
  <1>4. f \in [ScoredCells -> RecordTypes \cup {Unreported}]
    <2>1. f = [c \in ScoredCells |-> f[c]] BY <1>2
    <2> QED BY <1>3, <2>1
  <1> QED BY <1>1, <1>3, <1>4

\* A refreshed dataset tells what it told unless it is told anew.
LEMMA RefreshedIs ==
  ASSUME AccuracyTypeOK, NEW i \in DOMAIN landed, NEW book \in Reports
  PROVE  /\ Refreshed(i, book) \in Seq(ReportTypes) /\ Len(Refreshed(i, book)) = Len(landed)
         /\ DOMAIN Refreshed(i, book) = DOMAIN landed
         /\ \A c \in ScoredCells : Refreshed(i, book)[i][c.l][c.m] = Unreported => landed[i][c.l][c.m] = Unreported
  <1>1. landed \in Seq(ReportTypes) /\ landed[i] \in ReportTypes /\ book \in ReportTypes BY AccuracyAssumption DEF AccuracyTypeOK
  <1>2. PICK b : b = [l \in ScoredLines |-> [m \in MonthsAhead |-> IF book[l][m] = Unreported THEN landed[i][l][m] ELSE book[l][m]]]
    OBVIOUS
  <1>3. Refreshed(i, book) = [landed EXCEPT ![i] = b] BY <1>2, Zenon DEF Refreshed
  <1>4. \A l \in ScoredLines, m \in MonthsAhead : landed[i][l][m] \in Int \cup {Unreported} /\ book[l][m] \in Int \cup {Unreported}
    BY <1>1 DEF ReportTypes
  <1>5. b \in ReportTypes BY <1>2, <1>4 DEF ReportTypes
  <1>6. [landed EXCEPT ![i] = b] \in Seq(ReportTypes) /\ Len([landed EXCEPT ![i] = b]) = Len(landed)
    BY <1>1, <1>5
  <1>7. DOMAIN [landed EXCEPT ![i] = b] = DOMAIN landed /\ [landed EXCEPT ![i] = b][i] = b OBVIOUS
  <1>8. ASSUME NEW c \in ScoredCells, b[c.l][c.m] = Unreported PROVE landed[i][c.l][c.m] = Unreported
    BY <1>2, <1>8, CellsFinite
  <1> QED BY <1>3, <1>6, <1>7, <1>8

\* The records follow what lands.
THEOREM AccuracyCorrect == AccuracySpec => []AccuracyInv
  <1>1. AccuracyInit => AccuracyInv
    <2> SUFFICES ASSUME AccuracyInit PROVE AccuracyInv OBVIOUS
    <2>1. \A c \in ScoredCells : Outlook[c.l] \in Int BY CellsFinite, AccuracyAssumption
    <2>2. outlook \in [ScoredCells -> Int] BY <2>1 DEF AccuracyInit
    <2>3. landed \in Seq(ReportTypes) /\ Len(landed) = 0 BY DEF AccuracyInit
    <2>4. records \in [ScoredCells -> RecordTypes \cup {Unreported}] /\ \A c \in ScoredCells : records[c] = Unreported
      BY DEF AccuracyInit
    <2>5. moved \in [who : SUBSET Vintages, times : 0..MaxShifts] BY AccuracyAssumption DEF AccuracyInit
    <2> QED BY <2>2, <2>3, <2>4, <2>5 DEF AccuracyInv, AccuracyTypeOK, RecordsFollow
  <1>2. AccuracyInv /\ [AccuracyNext]_accuracyVars => AccuracyInv'
    <2> SUFFICES ASSUME AccuracyInv, [AccuracyNext]_accuracyVars PROVE AccuracyInv' OBVIOUS
    <2>1. /\ AccuracyTypeOK /\ RecordsFollow
          /\ outlook \in [ScoredCells -> Int] /\ landed \in Seq(ReportTypes)
          /\ records \in [ScoredCells -> RecordTypes \cup {Unreported}]
          /\ moved \in [who : SUBSET Vintages, times : 0..MaxShifts]
      BY DEF AccuracyInv, AccuracyTypeOK
    <2>2. ASSUME NEW book \in Reports
          PROVE  /\ Append(landed, book) \in Seq(ReportTypes) /\ Len(Append(landed, book)) = Len(landed) + 1
                 /\ Len(Append(landed, book)) \in DOMAIN Append(landed, book)
      BY <2>1, AccuracyAssumption
    <2>3. Len(landed) \in Nat BY <2>1
    <2>4. CASE LandActuals
      <3>1. PICK data \in Arrived, pick \in 1 .. Len(landed) + 1 : landed' = data /\ records' = ScoredBy(data, Len(data), pick)
        BY <2>4 DEF LandActuals
      <3>2. moved' = [moved EXCEPT !.who = {}] /\ outlook' = outlook BY <2>4 DEF LandActuals
      <3>3. PICK book \in Reports : data = Append(landed, book)
        <4>1. data \in {Append(landed, b) : b \in IF Len(landed) < MaxLandings THEN Reports ELSE {}} BY <3>1 DEF Arrived
        <4> QED BY <4>1
      <3>4. data \in Seq(ReportTypes) /\ Len(data) \in DOMAIN data /\ Len(data) = Len(landed) + 1 BY <2>2, <3>3
      <3>5. /\ records' \in [ScoredCells -> RecordTypes \cup {Unreported}]
            /\ \A c \in ScoredCells :
                 /\ data[Len(data)][c.l][c.m] = Unreported => records'[c] = records[c]
                 /\ data[Len(data)][c.l][c.m] # Unreported =>
                      records'[c] # Unreported /\ records'[c].pct = PctError(outlook[c], data[Len(data)][c.l][c.m])
        BY <2>1, <3>1, <3>4, ScoredIs
      <3>6. AccuracyTypeOK' BY <2>1, <3>1, <3>2, <3>4, <3>5 DEF AccuracyTypeOK
      <3>7. Len(landed') # 0 BY <2>3, <3>1, <3>4
      <3>8. ASSUME Len(landed') = 1, NEW c \in ScoredCells
            PROVE  /\ LandedAt(c)' = Unreported => records'[c] = Unreported
                   /\ LandedAt(c)' # Unreported => records'[c] # Unreported /\ records'[c].pct = PctError(outlook'[c], LandedAt(c)')
        <4>1. Len(data) = 1 /\ Len(landed) = 0
          <5>1. Len(data) = 1 BY <3>1, <3>8
          <5>2. Len(landed) + 1 = 1 BY <3>4, <5>1
          <5> QED BY <2>3, <5>1, <5>2
        <4>2. records[c] = Unreported BY <2>1, <4>1 DEF RecordsFollow
        <4>3. LandedAt(c)' = data[Len(data)][c.l][c.m] BY <3>1, <4>1 DEF LandedAt
        <4> QED BY <3>2, <3>5, <4>2, <4>3
      <3>9. RecordsFollow' BY <3>7, <3>8 DEF RecordsFollow
      <3> QED BY <3>6, <3>9 DEF AccuracyInv
    <2>5. CASE RefreshActuals
      <3>1. PICK i \in DOMAIN landed, book \in Reports, pick \in DOMAIN landed :
              landed' = Refreshed(i, book) /\ records' = ScoredBy(landed', i, pick)
        BY <2>5 DEF RefreshActuals
      <3>2. moved' = [moved EXCEPT !.who = {}] /\ outlook' = outlook BY <2>5 DEF RefreshActuals
      <3>3. PICK data : data = landed' OBVIOUS
      <3>4. /\ data \in Seq(ReportTypes) /\ Len(data) = Len(landed) /\ i \in DOMAIN data
            /\ \A c \in ScoredCells : data[i][c.l][c.m] = Unreported => landed[i][c.l][c.m] = Unreported
        BY <2>1, <3>1, <3>3, RefreshedIs
      <3>5. /\ records' \in [ScoredCells -> RecordTypes \cup {Unreported}]
            /\ \A c \in ScoredCells :
                 /\ data[i][c.l][c.m] = Unreported => records'[c] = records[c]
                 /\ data[i][c.l][c.m] # Unreported =>
                      records'[c] # Unreported /\ records'[c].pct = PctError(outlook[c], data[i][c.l][c.m])
        BY <2>1, <3>1, <3>3, <3>4, ScoredIs
      <3>6. AccuracyTypeOK' BY <2>1, <3>2, <3>3, <3>4, <3>5 DEF AccuracyTypeOK
      <3>7. Len(landed') # 0 BY <2>1, <2>3, <3>3, <3>4
      <3>8. ASSUME Len(landed') = 1, NEW c \in ScoredCells
            PROVE  /\ LandedAt(c)' = Unreported => records'[c] = Unreported
                   /\ LandedAt(c)' # Unreported => records'[c] # Unreported /\ records'[c].pct = PctError(outlook'[c], LandedAt(c)')
        <4>1. Len(landed) = 1 /\ i = 1
          <5>1. Len(landed) = 1 BY <3>3, <3>4, <3>8
          <5> QED BY <2>1, <5>1
        <4>2. LandedAt(c)' = data[i][c.l][c.m] BY <3>3, <4>1 DEF LandedAt
        <4>3. LandedAt(c) = landed[i][c.l][c.m] BY <4>1 DEF LandedAt
        <4>4. LandedAt(c) = Unreported => records[c] = Unreported BY <2>1, <4>1 DEF RecordsFollow
        <4> QED BY <3>2, <3>4, <3>5, <4>2, <4>3, <4>4
      <3>9. RecordsFollow' BY <3>7, <3>8 DEF RecordsFollow
      <3> QED BY <3>6, <3>9 DEF AccuracyInv
    <2>6. CASE LandUnscored
      <3>1. moved' = [moved EXCEPT !.who = Vintages] /\ outlook' = outlook /\ records' = records BY <2>6 DEF LandUnscored
      <3>2. PICK data : data = landed' OBVIOUS
      <3>3. /\ data \in Seq(ReportTypes) /\ Len(data) # 0
            /\ Len(data) = 1 => \A c \in ScoredCells : data[1][c.l][c.m] = Unreported => records[c] = Unreported
        <4>1. CASE landed' \in Arrived
          <5>1. PICK book \in Reports : data = Append(landed, book)
            <6>1. data \in {Append(landed, b) : b \in IF Len(landed) < MaxLandings THEN Reports ELSE {}}
              BY <3>2, <4>1 DEF Arrived
            <6> QED BY <6>1
          <5>2. data \in Seq(ReportTypes) /\ Len(data) = Len(landed) + 1 BY <2>2, <5>1
          <5>3. Len(data) # 0 /\ (Len(data) = 1 => Len(landed) = 0) BY <2>3, <5>2
          <5> QED BY <2>1, <5>2, <5>3 DEF RecordsFollow
        <4>2. CASE \E i \in DOMAIN landed, book \in Reports : landed' = Refreshed(i, book)
          <5>1. PICK i \in DOMAIN landed, book \in Reports : data = Refreshed(i, book) BY <3>2, <4>2
          <5>2. /\ data \in Seq(ReportTypes) /\ Len(data) = Len(landed)
                /\ \A c \in ScoredCells : data[i][c.l][c.m] = Unreported => landed[i][c.l][c.m] = Unreported
            BY <2>1, <5>1, RefreshedIs
          <5>3. Len(data) # 0 /\ (Len(data) = 1 => Len(landed) = 1 /\ i = 1) BY <2>1, <2>3, <5>2
          <5>4. Len(landed) = 1 => \A c \in ScoredCells : landed[1][c.l][c.m] = Unreported => records[c] = Unreported
            BY <2>1 DEF RecordsFollow, LandedAt
          <5> QED BY <5>2, <5>3, <5>4
        <4> QED BY <2>6, <4>1, <4>2 DEF LandUnscored
      <3>4. AccuracyTypeOK' BY <2>1, <3>1, <3>2, <3>3 DEF AccuracyTypeOK
      <3>5. \A c \in ScoredCells : c.v \in moved'.who BY <2>1, <3>1, CellsFinite
      <3>6. RecordsFollow' BY <3>1, <3>2, <3>3, <3>5 DEF RecordsFollow, LandedAt
      <3> QED BY <3>4, <3>6 DEF AccuracyInv
    <2>7. CASE ShiftPoint
      <3>1. PICK c \in ScoredCells : /\ outlook' = [outlook EXCEPT ![c] = @ + 5]
                                     /\ moved' = [who |-> moved.who \cup {c.v}, times |-> moved.times + 1]
        BY <2>7 DEF ShiftPoint
      <3>2. landed' = landed /\ records' = records /\ moved.times < MaxShifts BY <2>7 DEF ShiftPoint
      <3>3. outlook' \in [ScoredCells -> Int] BY <2>1, <3>1
      <3>4. moved' \in [who : SUBSET Vintages, times : 0..MaxShifts]
        <4>1. moved.who \cup {c.v} \in SUBSET Vintages BY <2>1, CellsFinite
        <4>2. moved.times + 1 \in 0..MaxShifts BY <2>1, <3>2, AccuracyAssumption
        <4> QED BY <3>1, <4>1, <4>2
      <3>5. AccuracyTypeOK' BY <2>1, <3>2, <3>3, <3>4 DEF AccuracyTypeOK
      <3>6. \A d \in ScoredCells : d.v \notin moved'.who => d.v \notin moved.who /\ outlook'[d] = outlook[d]
        BY <2>1, <3>1
      <3>7. RecordsFollow' BY <2>1, <3>2, <3>6 DEF RecordsFollow, LandedAt
      <3> QED BY <3>5, <3>7 DEF AccuracyInv
    <2>8. CASE UNCHANGED accuracyVars
      BY <2>1, <2>8 DEF accuracyVars, AccuracyInv, AccuracyTypeOK, RecordsFollow, LandedAt, PctError, Off
    <2> QED BY <2>4, <2>5, <2>6, <2>7, <2>8 DEF AccuracyNext
  <1> QED BY <1>1, <1>2, PTL DEF AccuracySpec

-----------------------------------------------------------------------------
(* What the readers say of them *)

\* Some records of a version: finitely many, of numbers.
LEMMA RecordsAre ==
  ASSUME AccuracyTypeOK, NEW v
  PROVE  /\ IsFiniteSet(RecordsOf(v)) /\ RecordsOf(v) \in SUBSET ScoredCells
         /\ \A c \in RecordsOf(v) : records[c] # Unreported /\ records[c] \in RecordTypes
  <1>1. RecordsOf(v) \in SUBSET ScoredCells BY DEF RecordsOf, CellsOf
  <1>2. IsFiniteSet(RecordsOf(v)) BY <1>1, CellsFinite, FS_Subset
  <1>3. \A c \in RecordsOf(v) : records[c] # Unreported /\ records[c] \in RecordTypes
    BY <1>1 DEF RecordsOf, AccuracyTypeOK
  <1> QED BY <1>1, <1>2, <1>3

\* The chat's error per horizon is the dashboard's.
LEMMA HorizonsAgree ==
  ASSUME AccuracyTypeOK, NEW v
  PROVE  ReportByHorizon(v) = PanelByHorizon(v)
  <1>1. ASSUME NEW b \in HorizonBuckets PROVE ReportByHorizon(v)[b] = PanelByHorizon(v)[b]
    <2> DEFINE S == {c \in RecordsOf(v) : Bucket(c) = b}
               items == {i \in VintageItems(v) : i.pct # Unreported /\ Bucket(i.cell) = b}
    <2>1. PICK H, f : H = HasPct(S) /\ f = [c \in H |-> records[c].pct] OBVIOUS
    <2>2. PICK I, h : I = items /\ h = [i \in I |-> i.pct] OBVIOUS
    <2>3. PICK m : m = [c \in H |-> [cell |-> c, from |-> 0, pct |-> records[c].pct]] OBVIOUS
    <2>4. ReportByHorizon(v)[b] = Mean(H, f) BY <1>1, <2>1, Zenon DEF ReportByHorizon, Mape
    <2>5. PanelByHorizon(v)[b] = Mean(I, h) BY <1>1, <2>2, Zenon DEF PanelByHorizon
    <2>6. H = {c \in RecordsOf(v) : Bucket(c) = b /\ records[c].pct # Unreported} BY <2>1 DEF HasPct
    <2>7. IsFiniteSet(H) /\ \A c \in H : f[c] \in Int
      <3>1. H \in SUBSET RecordsOf(v) BY <2>6
      <3>2. IsFiniteSet(H) BY <3>1, RecordsAre, FS_Subset
      <3>3. \A c \in H : records[c] \in RecordTypes /\ records[c].pct # Unreported BY <2>6, RecordsAre
      <3>4. \A c \in H : records[c].pct \in Int BY <3>3 DEF RecordTypes
      <3> QED BY <2>1, <3>2, <3>4
    <2>8. I = {m[c] : c \in H}
      <3>1. VintageItems(v) = {[cell |-> c, from |-> 0, pct |-> records[c].pct] : c \in RecordsOf(v)} BY DEF VintageItems
      <3>2. ASSUME NEW i \in I PROVE \E c \in H : i = m[c]
        <4>1. PICK c \in RecordsOf(v) : i = [cell |-> c, from |-> 0, pct |-> records[c].pct] BY <2>2, <3>1
        <4>2. i.pct # Unreported /\ Bucket(i.cell) = b /\ i.pct = records[c].pct /\ i.cell = c BY <2>2, <4>1
        <4>3. c \in H BY <2>6, <4>2
        <4> QED BY <2>3, <4>1, <4>3
      <3>3. ASSUME NEW c \in H PROVE m[c] \in I
        <4>1. m[c] = [cell |-> c, from |-> 0, pct |-> records[c].pct] BY <2>3
        <4>2. m[c] \in VintageItems(v) BY <2>6, <3>1, <4>1
        <4>3. m[c].pct # Unreported /\ Bucket(m[c].cell) = b BY <2>6, <4>1
        <4> QED BY <2>2, <4>2, <4>3
      <3> QED BY <3>2, <3>3
    <2>9. \A c, d \in H : m[c] = m[d] => c = d
      <3>1. \A c \in H : m[c].cell = c BY <2>3
      <3> QED BY <3>1
    <2>10. \A c \in H : h[m[c]] = f[c]
      <3>1. \A c \in H : m[c] \in I /\ m[c].pct = f[c] BY <2>1, <2>3, <2>8
      <3> QED BY <2>2, <3>1
    <2>11. SumOf(h, I) = SumOf(f, H) BY <2>7, <2>8, <2>9, <2>10, SumAlong
    <2>12. Cardinality(I) = Cardinality(H)
      <3>1. m \in Bijection(H, I)
        <4>1. m \in [H -> I] BY <2>3, <2>8
        <4>2. \A i \in I : \E c \in H : m[c] = i BY <2>8
        <4> QED BY <2>9, <4>1, <4>2 DEF Bijection, Injection, Surjection, IsInjective
      <3>2. ExistsBijection(H, I) BY <3>1 DEF ExistsBijection
      <3> QED BY <2>7, <3>2, FS_Bijection
    <2> QED BY <2>4, <2>5, <2>11, <2>12, MeanIs
  <1>2. ReportByHorizon(v) = [b \in HorizonBuckets |-> ReportByHorizon(v)[b]] BY DEF ReportByHorizon
  <1>3. PanelByHorizon(v) = [b \in HorizonBuckets |-> PanelByHorizon(v)[b]] BY DEF PanelByHorizon
  <1> QED BY <1>1, <1>2, <1>3, Zenon

\* Where every record has a benchmark, the two figures of value added are one fraction.
LEMMA ValuesAgree ==
  ASSUME AccuracyTypeOK, NEW v, WithNaive(v) = RecordsOf(v)
  PROVE  MetricsFva(v)[1] * PanelFva(v)[2] = PanelFva(v)[1] * MetricsFva(v)[2]
  <1>1. PICK S : S = RecordsOf(v) OBVIOUS
  <1>2. IsFiniteSet(S) /\ \A c \in S : records[c] \in RecordTypes BY <1>1, RecordsAre
  <1>3. \A c \in S : records[c].naive # Unreported BY <1>1 DEF WithNaive
  <1>4. \A c \in S : records[c].p50 \in Int /\ records[c].actual \in Int /\ records[c].naive \in Int
    BY <1>2, <1>3 DEF RecordTypes
  <1>5. PICK e, n, z : e = Errs(S) /\ n = NaiveErrs(S) /\ z = Sizes(S) OBVIOUS
  <1>6. \A c \in S : e[c] \in Int /\ n[c] \in Int /\ z[c] \in Int
    <2>1. \A x, y \in Int : Off(x, y) \in Int
      <3>1. \A k \in Nat : k \in Int OBVIOUS
      <3> QED BY <3>1, OffIsNat
    <2>2. \A c \in S : /\ e[c] = Off(records[c].p50, records[c].actual)
                       /\ n[c] = Off(records[c].naive, records[c].actual)
                       /\ z[c] = Off(records[c].actual, 0)
      BY <1>5 DEF Errs, NaiveErrs, Sizes
    <2>3. ASSUME NEW c \in S PROVE e[c] \in Int /\ n[c] \in Int /\ z[c] \in Int
      <3>1. PICK a, b, d : a = records[c].p50 /\ b = records[c].actual /\ d = records[c].naive OBVIOUS
      <3>2. a \in Int /\ b \in Int /\ d \in Int /\ 0 \in Int BY <1>4, <3>1
      <3>3. e[c] = Off(a, b) /\ n[c] = Off(d, b) /\ z[c] = Off(b, 0) BY <2>2, <3>1
      <3> QED BY ONLY <2>1, <3>2, <3>3
    <2> QED BY <2>3
  <1>7. PICK E, N, Z : E = Summed(S, e) /\ N = Summed(S, n) /\ Z = Summed(S, z) OBVIOUS
  <1>8. E \in Int /\ N \in Int /\ Z \in Int
    <2>1. SumOf(e, S) \in Int /\ SumOf(n, S) \in Int /\ SumOf(z, S) \in Int BY <1>2, <1>6, SumOfWithout
    <2> QED BY <1>7, <2>1, SummedIs
  <1>9. MetricsFva(v) = <<N - E, Z>> BY <1>1, <1>5, <1>7 DEF MetricsFva, ValueAdded
  <1>10. PanelFva(v) = <<N * Z - E * Z, Z * Z>> BY <1>1, <1>5, <1>7, Zenon DEF PanelFva
  <1>11. (N - E) * (Z * Z) = (N * Z - E * Z) * Z BY <1>8
  <1> QED BY <1>9, <1>10, <1>11

\* A line said to be forecast too high has a record that is.
LEMMA BiasMeans ==
  ASSUME AccuracyTypeOK, NEW v, NEW l, BiasOf(v, l) = "over"
  PROVE  \E c \in RecordsOf(v) : records[c].p50 > records[c].actual
  <1> SUFFICES ASSUME \A c \in RecordsOf(v) : ~(records[c].p50 > records[c].actual) PROVE FALSE OBVIOUS
  <1>1. PICK S : S = {c \in RecordsOf(v) : c.l = l /\ records[c].actual # 0} OBVIOUS
  <1>2. PICK f : f = [c \in S |-> (100 * (records[c].p50 - records[c].actual)) \div Off(records[c].actual, 0)] OBVIOUS
  <1>3. IsFiniteSet(S) /\ Cardinality(S) \in Nat
    <2>1. S \in SUBSET RecordsOf(v) BY <1>1
    <2> QED BY <2>1, RecordsAre, FS_Subset, FS_CardinalityType
  <1>4. ASSUME NEW c \in S PROVE f[c] \in Int /\ f[c] <= 0
    <2>1. PICK p \in Int, a \in Int : p = records[c].p50 /\ a = records[c].actual /\ a # 0 /\ ~(p > a)
      <3>1. c \in RecordsOf(v) /\ records[c].actual # 0 BY <1>1
      <3>2. records[c].p50 \in Int /\ records[c].actual \in Int BY <3>1, RecordsAre DEF RecordTypes
      <3> QED BY <3>1, <3>2
    <2>2. PICK b \in Nat : b = Off(a, 0) /\ b > 0
      <3>1. 0 \in Int /\ a \in Int BY <2>1
      <3> QED BY <2>1, <3>1, OffIsNat
    <2>3. PICK k \in Int : k = 100 * (p - a) /\ k <= 0
      <3>1. 100 * (p - a) \in Int /\ 100 * (p - a) <= 0 BY <2>1
      <3> QED BY <3>1
    <2>4. k \div b \in Int /\ k \div b <= 0 BY <2>2, <2>3, PartIsInt
    <2>5. f[c] = k \div b BY <1>2, <2>1, <2>2, <2>3
    <2> QED BY <2>4, <2>5
  <1>5. SumOf(f, S) \in Int /\ SumOf(f, S) <= 0 BY <1>3, <1>4, SumNotAbove
  <1>6. PICK mean : mean = Mean(S, f) OBVIOUS
  <1>7. mean.sum = SumOf(f, S) /\ mean.n = Cardinality(S) BY <1>6, MeanIs
  <1>8. BiasOf(v, l) = IF mean.sum > 5 * mean.n THEN "over" ELSE IF mean.sum < -5 * mean.n THEN "under" ELSE "neutral"
    BY <1>1, <1>2, <1>6, Zenon DEF BiasOf
  <1>9. ~(mean.sum > 5 * mean.n) BY <1>3, <1>5, <1>7
  <1> QED BY <1>8, <1>9

\* The hits counted per line and per version are the same hits.
LEMMA CoverageAgrees ==
  ASSUME AccuracyTypeOK, \A l \in ScoredLines : RealizedCoverage(l) # <<>>
  PROVE  Summed(ScoredLines, [l \in ScoredLines |-> RealizedCoverage(l)[1]])
            = Summed(Vintages, [v \in Vintages |-> ReportCoverage(v).sum])
  <1>1. PICK R : R = {c \in ScoredCells : records[c] # Unreported} OBVIOUS
  <1>2. PICK f : f = [c \in R |-> IF records[c].within THEN 1 ELSE 0] OBVIOUS
  <1>3. IsFiniteSet(R) /\ \A c \in R : f[c] \in {0, 1} /\ f[c] \in Int /\ c.v \in Vintages /\ c.l \in ScoredLines
    <2>1. R \in SUBSET ScoredCells BY <1>1
    <2>2. IsFiniteSet(R) BY <2>1, CellsFinite, FS_Subset
    <2>3. \A c \in R : f[c] \in {0, 1} /\ f[c] \in Int BY <1>2
    <2> QED BY <2>1, <2>2, <2>3, CellsFinite
  <1>4. PICK P, Q : /\ P = [l \in ScoredLines |-> RealizedCoverage(l)[1]]
                    /\ Q = [v \in Vintages |-> ReportCoverage(v).sum]
    OBVIOUS
  <1>5. PICK byLine, byVintage : byLine = [c \in R |-> c.l] /\ byVintage = [c \in R |-> c.v] OBVIOUS
  <1>6. ASSUME NEW l \in ScoredLines PROVE P[l] = SumOf(f, {c \in R : byLine[c] = l})
    <2>1. PICK S : S = {c \in ScoredCells : c.l = l /\ records[c] # Unreported} OBVIOUS
    <2>2. S = {c \in R : byLine[c] = l} /\ S \in SUBSET R BY <1>1, <1>5, <2>1
    <2>3. RealizedCoverage(l) = <<Cardinality({c \in S : records[c].within}), Cardinality(S)>>
      <3>1. RealizedCoverage(l) = IF Cardinality(S) < MinObserved \/ Cardinality({c.v : c \in S}) < MinCycles THEN <<>>
                                  ELSE <<Cardinality({c \in S : records[c].within}), Cardinality(S)>>
        BY <2>1, Zenon DEF RealizedCoverage
      <3> QED BY <3>1
    <2>4. IsFiniteSet(S) BY <1>3, <2>2, FS_Subset
    <2>5. {c \in S : f[c] = 1} = {c \in S : records[c].within} BY <1>2, <2>2
    <2>6. SumOf(f, S) = Cardinality({c \in S : f[c] = 1}) BY <1>3, <2>2, <2>4, SumOfOnes
    <2>7. PICK k, n : k = Cardinality({c \in S : records[c].within}) /\ n = Cardinality(S) OBVIOUS
    <2>8. RealizedCoverage(l)[1] = k BY <2>3, <2>7
    <2>9. P[l] = k BY <1>4, <2>8
    <2>10. SumOf(f, S) = k BY <2>5, <2>6, <2>7
    <2> QED BY <2>2, <2>9, <2>10
  <1>7. ASSUME NEW v \in Vintages PROVE Q[v] = SumOf(f, {c \in R : byVintage[c] = v})
    <2>1. PICK S, g : S = RecordsOf(v) /\ g = [c \in RecordsOf(v) |-> IF records[c].within THEN 1 ELSE 0] OBVIOUS
    <2>2. S = {c \in R : byVintage[c] = v} /\ S \in SUBSET R BY <1>1, <1>5, <2>1 DEF RecordsOf, CellsOf
    <2>3. ReportCoverage(v).sum = SumOf(g, S)
      <3>1. ReportCoverage(v) = Mean(S, g) BY <2>1 DEF ReportCoverage
      <3> QED BY <3>1, MeanIs
    <2>4. IsFiniteSet(S) BY <1>3, <2>2, FS_Subset
    <2>5. \A c \in S : f[c] \in Int /\ g[c] = f[c] BY <1>2, <1>3, <2>1, <2>2
    <2>6. SumOf(g, S) = SumOf(f, S) BY <2>4, <2>5, SumSame
    <2> QED BY <1>4, <2>2, <2>3, <2>6
  <1>8. SumOf(P, ScoredLines) = SumOf(f, R)
    <2>1. IsFiniteSet(ScoredLines) /\ \A c \in R : byLine[c] \in ScoredLines BY <1>3, <1>5, AccuracyAssumption
    <2>2. PartSums(P, f, R, byLine, ScoredLines) BY <1>6, Zenon DEF PartSums
    <2> QED BY <1>3, <2>1, <2>2, SumByPart
  <1>9. SumOf(Q, Vintages) = SumOf(f, R)
    <2>1. IsFiniteSet(Vintages) /\ \A c \in R : byVintage[c] \in Vintages BY <1>3, <1>5, AccuracyAssumption
    <2>2. PartSums(Q, f, R, byVintage, Vintages) BY <1>7, Zenon DEF PartSums
    <2> QED BY <1>3, <2>1, <2>2, SumByPart
  <1> QED BY <1>4, <1>8, <1>9, SummedIs

\* The items of a version's records are those of rows and actuals.
LEMMA RecordsLive ==
  ASSUME AccuracyInv
  PROVE  RecordsAreLive
  <1> SUFFICES ASSUME NEW v \in Vintages, v \notin moved.who, Len(landed) = 1, RecordsOf(v) # {}
               PROVE  {<<i.cell, i.pct>> : i \in LiveItems(v)}
                        = {<<i.cell, i.pct>> : i \in {j \in DashboardItems(v) : j.pct # Unreported}}
    BY DEF RecordsAreLive
  <1>1. AccuracyTypeOK /\ RecordsFollow /\ landed \in Seq(ReportTypes) BY DEF AccuracyInv, AccuracyTypeOK
  <1>2. DOMAIN landed = {1} BY <1>1
  <1>3. ASSUME NEW c \in CellsOf(v)
        PROVE  /\ c \in ScoredCells /\ LandedAt(c) \in Int \cup {Unreported}
               /\ LandedAt(c) = Unreported => records[c] = Unreported
               /\ LandedAt(c) # Unreported =>
                    records[c] # Unreported /\ records[c].pct = PctError(outlook[c], LandedAt(c))
               /\ LandedAt(c) \in Int => (PctError(outlook[c], LandedAt(c)) # Unreported <=> LandedAt(c) # 0)
    <2>1. c \in ScoredCells /\ c.v = v BY DEF CellsOf
    <2>2. landed[1] \in ReportTypes BY <1>1, <1>2
    <2>3. LandedAt(c) \in Int \cup {Unreported} BY <2>1, <2>2, ReportTells DEF LandedAt
    <2>4. outlook[c] \in Int BY <1>1, <2>1 DEF AccuracyTypeOK
    <2>5. LandedAt(c) \in Int => (PctError(outlook[c], LandedAt(c)) # Unreported <=> LandedAt(c) # 0) BY <2>4, PctIs
    <2> QED BY <1>1, <2>1, <2>3, <2>5 DEF RecordsFollow
  <1>4. Unreported \notin Int BY AccuracyAssumption
  <1>5. ASSUME NEW p
        PROVE  p \in {<<i.cell, i.pct>> : i \in LiveItems(v)} <=>
                 \E c \in CellsOf(v) : LandedAt(c) \notin {Unreported, 0} /\ p = <<c, PctError(outlook[c], LandedAt(c))>>
    <2> DEFINE joined == {q \in CellsOf(v) \X DOMAIN landed : landed[q[2]][q[1].l][q[1].m] \notin {Unreported, 0}}
    <2>1. LiveItems(v) = {[cell |-> q[1], from |-> q[2], pct |-> PctError(outlook[q[1]], landed[q[2]][q[1].l][q[1].m])] : q \in joined}
      BY Zenon DEF LiveItems
    <2>2. ASSUME NEW i \in LiveItems(v)
          PROVE  \E c \in CellsOf(v) : /\ LandedAt(c) \notin {Unreported, 0}
                                       /\ i.cell = c /\ i.pct = PctError(outlook[c], LandedAt(c))
      <3>1. PICK q \in joined : i = [cell |-> q[1], from |-> q[2], pct |-> PctError(outlook[q[1]], landed[q[2]][q[1].l][q[1].m])]
        BY <2>1
      <3>2. q[1] \in CellsOf(v) /\ q[2] = 1 /\ LandedAt(q[1]) \notin {Unreported, 0} BY <1>2 DEF LandedAt
      <3> QED BY <3>1, <3>2 DEF LandedAt
    <2>3. ASSUME NEW c \in CellsOf(v), LandedAt(c) \notin {Unreported, 0}
          PROVE  \E i \in LiveItems(v) : i.cell = c /\ i.pct = PctError(outlook[c], LandedAt(c))
      <3>1. PICK q : q = <<c, 1>> OBVIOUS
      <3>2. q \in joined /\ q[1] = c /\ q[2] = 1 BY <1>2, <2>3, <3>1 DEF LandedAt
      <3>3. PICK i : i = [cell |-> q[1], from |-> q[2], pct |-> PctError(outlook[q[1]], landed[q[2]][q[1].l][q[1].m])] OBVIOUS
      <3>4. i \in LiveItems(v) BY <2>1, <3>2, <3>3
      <3> QED BY <3>2, <3>3, <3>4 DEF LandedAt
    <2> QED BY <2>2, <2>3
  <1>6. DashboardItems(v) = {[cell |-> c, from |-> 0, pct |-> records[c].pct] : c \in RecordsOf(v)}
    BY DEF DashboardItems, VintageItems
  <1>7. ASSUME NEW p
        PROVE  p \in {<<i.cell, i.pct>> : i \in {j \in DashboardItems(v) : j.pct # Unreported}} <=>
                 \E c \in CellsOf(v) : records[c] # Unreported /\ records[c].pct # Unreported /\ p = <<c, records[c].pct>>
    <2>1. ASSUME NEW i \in DashboardItems(v), i.pct # Unreported
          PROVE  \E c \in CellsOf(v) : records[c] # Unreported /\ records[c].pct # Unreported /\ i.cell = c /\ i.pct = records[c].pct
      <3>1. PICK c \in RecordsOf(v) : i = [cell |-> c, from |-> 0, pct |-> records[c].pct] BY <1>6
      <3> QED BY <2>1, <3>1 DEF RecordsOf
    <2>2. ASSUME NEW c \in CellsOf(v), records[c] # Unreported, records[c].pct # Unreported
          PROVE  \E i \in DashboardItems(v) : i.pct # Unreported /\ i.cell = c /\ i.pct = records[c].pct
      <3>1. PICK i : i = [cell |-> c, from |-> 0, pct |-> records[c].pct] OBVIOUS
      <3>2. i \in DashboardItems(v) BY <1>6, <2>2, <3>1 DEF RecordsOf
      <3> QED BY <2>2, <3>1, <3>2
    <2> QED BY <2>1, <2>2
  <1>8. \A c \in CellsOf(v) : LandedAt(c) \notin {Unreported, 0} <=> records[c] # Unreported /\ records[c].pct # Unreported
    BY <1>3, <1>4
  <1>9. \A c \in CellsOf(v) : LandedAt(c) \notin {Unreported, 0} => records[c].pct = PctError(outlook[c], LandedAt(c))
    BY <1>3
  <1>10. ASSUME NEW p
         PROVE  p \in {<<i.cell, i.pct>> : i \in LiveItems(v)} <=>
                p \in {<<i.cell, i.pct>> : i \in {j \in DashboardItems(v) : j.pct # Unreported}}
    BY <1>5, <1>7, <1>8, <1>9
  <1> QED BY <1>10

\* The readers of a version's records tell the same of them, per horizon, per line and in
\* value added, and of one dataset the records are what the dashboard would compute itself
\* (auto_accuracy_report, get_accuracy_tracking, realized_coverage_by_line, compute_fva).
THEOREM AccuracyAgreesAlways == AccuracySpec => []AccuracyAgrees
  <1>1. ASSUME AccuracyInv PROVE AccuracyAgrees
    <2>1. AccuracyTypeOK BY <1>1 DEF AccuracyInv
    <2>2. \A v \in Vintages : ReportByHorizon(v) = PanelByHorizon(v) BY <2>1, HorizonsAgree
    <2>3. \A v \in Vintages : WithNaive(v) = RecordsOf(v) =>
            MetricsFva(v)[1] * PanelFva(v)[2] = PanelFva(v)[1] * MetricsFva(v)[2]
      BY <2>1, ValuesAgree
    <2>4. \A v \in Vintages, l \in ScoredLines :
            BiasOf(v, l) = "over" => \E c \in RecordsOf(v) : records[c].p50 > records[c].actual
      BY <2>1, BiasMeans
    <2>5. (\A l \in ScoredLines : RealizedCoverage(l) # <<>>) =>
            Summed(ScoredLines, [l \in ScoredLines |-> RealizedCoverage(l)[1]])
              = Summed(Vintages, [v \in Vintages |-> ReportCoverage(v).sum])
      BY <2>1, CoverageAgrees
    <2>6. ReportsAgree BY <2>2, <2>3, <2>4, <2>5 DEF ReportsAgree
    <2> QED BY <1>1, <2>6, RecordsLive DEF AccuracyAgrees
  <1> QED BY <1>1, AccuracyCorrect, PTL

-----------------------------------------------------------------------------
\* A reference as it was resolved: to a line of that name or code, or to a category some line has.
MeantItem(n) ==
    /\ RefOf[n].kind # "category"
    /\ \E l \in chart : /\ kpi.meant[n] = <<"item", l.id>>
                        /\ l.name = RefOf[n].key \/ l.code = RefOf[n].key

MeantCategory(n) ==
    /\ RefOf[n].kind # "item"
    /\ kpi.meant[n] = <<"category", RefOf[n].key>>
    /\ \E l \in chart : l.category = RefOf[n].key

KpiInv ==
    /\ IsFiniteSet(chart)
    /\ DOMAIN kpi.meant \subseteq Names
    /\ \A n \in DOMAIN kpi.meant : MeantItem(n) \/ MeantCategory(n)

\* The one item a key names is named or coded like it.
LEMMA OneItem ==
  ASSUME IsFiniteSet(chart), NEW key, Cardinality(ItemsOf(key)) = 1
  PROVE  \E l \in chart : /\ ItemsOf(key) = {l}
                          /\ (CHOOSE m \in ItemsOf(key) : TRUE) = l
                          /\ l.name = key \/ l.code = key
  <1> DEFINE S == ItemsOf(key)
  <1>1. S \subseteq chart /\ \A l \in S : l.name = key \/ l.code = key BY DEF ItemsOf
  <1>3. IsFiniteSet(S) BY <1>1, FS_Subset
  <1>2. PICK l : S = {l}
    <2> HIDE DEF S
    <2>0. Cardinality(S) = 1 BY DEF S
    <2> QED BY <2>0, <1>3, FS_Singleton
  <1> QED BY <1>1, <1>2

\* The three outcomes of resolving a reference.
LEMMA ResolvedIs ==
  ASSUME IsFiniteSet(chart), NEW n \in Names
  PROVE  \/ /\ RefOf[n].kind # "category"
            /\ \E l \in chart : /\ ItemsOf(RefOf[n].key) = {l}
                                /\ Resolved(n) = <<"item", l.id>>
                                /\ l.name = RefOf[n].key \/ l.code = RefOf[n].key
            /\ RefOf[n].kind = "any" => \A l \in chart : l.category # RefOf[n].key
         \/ /\ RefOf[n].kind # "item"
            /\ Resolved(n) = <<"category", RefOf[n].key>>
            /\ \E l \in chart : l.category = RefOf[n].key
            /\ RefOf[n].kind = "any" => ItemsOf(RefOf[n].key) = {}
         \/ Resolved(n) = Unresolved
  <1> DEFINE key  == RefOf[n].key
             kind == RefOf[n].kind
             isCategory == \E l \in chart : l.category = key
             asItem == kind # "category" /\ Cardinality(ItemsOf(key)) = 1 /\ (kind = "any" => ~isCategory)
             asCategory == kind # "item" /\ isCategory /\ (kind = "any" => ItemsOf(key) = {})
  <1>1. Resolved(n) = CASE asItem -> <<"item", (CHOOSE m \in ItemsOf(key) : TRUE).id>>
                        [] asCategory -> <<"category", key>>
                        [] OTHER -> Unresolved
    BY DEF Resolved
  <1>2. asItem /\ asCategory => FALSE
    <2> SUFFICES ASSUME asItem, asCategory PROVE FALSE OBVIOUS
    <2>1. kind \in {"any", "item", "category"} BY ReferencesAssumption
    <2> QED BY <2>1
  <1>3. CASE asItem
    <2>1. PICK l \in chart : /\ ItemsOf(key) = {l}
                             /\ (CHOOSE m \in ItemsOf(key) : TRUE) = l
                             /\ l.name = key \/ l.code = key
      BY <1>3, OneItem
    <2>2. Resolved(n) = <<"item", (CHOOSE m \in ItemsOf(key) : TRUE).id>> BY <1>1, <1>2, <1>3
    <2> QED BY <1>3, <2>1, <2>2
  <1>4. CASE asCategory /\ ~ asItem
    <2>1. Resolved(n) = <<"category", key>>
      <3> HIDE DEF asItem, asCategory
      <3> QED BY <1>1, <1>4
    <2> QED BY <1>4, <2>1
  <1>5. CASE ~ asCategory /\ ~ asItem
    <2> HIDE DEF asItem, asCategory
    <2> QED BY <1>1, <1>5
  <1> QED BY <1>3, <1>4, <1>5

\* Only a token that names something is resolved, and what is saved is no error.
LEMMA KpiInvKept ==
  ASSUME KpiInv, [KpisNext]_kpiVars
  PROVE  KpiInv'
  <1>1. CASE AddLine
    <2>1. PICK l \in ChartLines \ chart : chart' = chart \cup {l} BY <1>1 DEF AddLine
    <2>2. IsFiniteSet(chart') BY <2>1, FS_AddElement DEF KpiInv
    <2>3. kpi' = kpi BY <1>1 DEF AddLine
    <2>4. \A n \in DOMAIN kpi.meant : MeantItem(n)' \/ MeantCategory(n)'
      BY <2>1, <2>3 DEF KpiInv, MeantItem, MeantCategory
    <2> QED BY <2>2, <2>3, <2>4 DEF KpiInv
  <1>2. CASE SaveKpi
    <2>1. PICK f \in SavedFormulas :
            Compiles(f) /\ kpi' = [formula |-> f, meant |-> [n \in RefsIn(f) |-> Resolved(n)]]
      BY <1>2 DEF SaveKpi
    <2>2. chart' = chart BY <1>2 DEF SaveKpi
    <2>3. DOMAIN kpi'.meant = RefsIn(f) /\ \A n \in RefsIn(f) : kpi'.meant[n] = Resolved(n) BY <2>1
    <2>4. RefsIn(f) \subseteq Names BY DEF RefsIn
    <2>5. ASSUME NEW n \in RefsIn(f) PROVE MeantItem(n)' \/ MeantCategory(n)'
      <3>1. n \in Names /\ Resolved(n) # Unresolved BY <2>1, <2>4 DEF Compiles
      <3>2. kpi'.meant[n] = Resolved(n) BY <2>3
      <3> QED BY <2>2, <3>1, <3>2, ResolvedIs DEF KpiInv, MeantItem, MeantCategory
    <2> QED BY <2>2, <2>3, <2>4, <2>5 DEF KpiInv
  <1>3. CASE DeleteKpi
    <2>1. kpi' = NoKpi /\ chart' = chart BY <1>3 DEF DeleteKpi
    <2>2. DOMAIN kpi'.meant = {} BY <2>1 DEF NoKpi
    <2> QED BY <2>1, <2>2 DEF KpiInv
  <1>4. CASE UNCHANGED <<chart, kpi>>
    BY <1>4 DEF KpiInv, MeantItem, MeantCategory
  <1> QED BY <1>1, <1>2, <1>3, <1>4 DEF KpisNext, WriteFigures, kpiVars

\* What a saved reference was resolved to, it still is, or it has become ambiguous: a line whose
\* name is no other's code cannot take the place of the line a code meant.
LEMMA MeaningFollows ==
  ASSUME KpiInv
  PROVE  MeaningKept
  <1> SUFFICES ASSUME \A a, b \in chart : a.name = b.code => a = b, NEW n \in DOMAIN kpi.meant
               PROVE  Resolved(n) \in {kpi.meant[n], Unresolved}
    BY DEF MeaningKept
  <1> DEFINE key == RefOf[n].key
  <1>1. n \in Names /\ IsFiniteSet(chart) BY DEF KpiInv
  <1>2. ASSUME NEW l \in chart, l.name = key \/ l.code = key PROVE l \in ItemsOf(key)
    <2>1. CASE l.name = key BY <2>1 DEF ItemsOf
    <2>2. CASE l.code = key
      <3>1. {a \in chart : a.name = key} \subseteq {l} BY <2>2
      <3> QED BY <2>2, <3>1 DEF ItemsOf
    <2> QED BY <1>2, <2>1, <2>2
  <1>3. CASE MeantItem(n)
    <2>1. PICK l \in chart : kpi.meant[n] = <<"item", l.id>> /\ (l.name = key \/ l.code = key)
      BY <1>3 DEF MeantItem
    <2>2. l \in ItemsOf(key) BY <1>2, <2>1
    <2>3. RefOf[n].kind # "category" BY <1>3 DEF MeantItem
    <2>4. RefOf[n].kind \in {"any", "item", "category"} BY <1>1, ReferencesAssumption
    <2>5. CASE \E m \in chart : ItemsOf(key) = {m} /\ Resolved(n) = <<"item", m.id>>
      BY <2>1, <2>2, <2>5
    <2>6. CASE RefOf[n].kind # "item" /\ (RefOf[n].kind = "any" => ItemsOf(key) = {})
      BY <2>2, <2>3, <2>4, <2>6
    <2> QED BY <1>1, <2>5, <2>6, ResolvedIs
  <1>4. CASE MeantCategory(n)
    <2>1. kpi.meant[n] = <<"category", key>> /\ (\E l \in chart : l.category = key) /\ RefOf[n].kind # "item"
      BY <1>4 DEF MeantCategory
    <2>2. RefOf[n].kind \in {"any", "item", "category"} BY <1>1, ReferencesAssumption
    <2>3. CASE RefOf[n].kind # "category" /\ (RefOf[n].kind = "any" => \A l \in chart : l.category # key)
      BY <2>1, <2>2, <2>3
    <2> QED BY <1>1, <2>1, <2>3, ResolvedIs
  <1> QED BY <1>3, <1>4 DEF KpiInv

\* A saved key figure means what it meant when it was saved, or is an error, however the chart of
\* accounts grows, as long as no line has another's code as its name (services/kpis.py).
THEOREM MeaningKeptAlways == KpiSpec => []MeaningKept
  <1>1. ReferencesInit => KpiInv
    <2> SUFFICES ASSUME ReferencesInit PROVE KpiInv OBVIOUS
    <2>1. DOMAIN kpi.meant = {} /\ chart = {} BY DEF ReferencesInit, NoKpi
    <2> QED BY <2>1, FS_EmptySet DEF KpiInv
  <1>2. KpiInv /\ [KpisNext]_kpiVars => KpiInv' BY KpiInvKept
  <1>3. KpiInv => MeaningKept BY MeaningFollows
  <1> QED BY <1>1, <1>2, <1>3, PTL DEF KpiSpec
==============================================================================
