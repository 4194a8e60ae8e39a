----------------------- MODULE SequenceReaders_proofs -----------------------
(***************************************************************************)
(* Proofs that the safety invariants of SequenceReaders hold for any       *)
(* readers, any page size and any log.  A page is an interval of positions *)
(* after the cursor (PageOf); everything follows from where it ends.       *)
(***************************************************************************)
EXTENDS SequenceReaders, FiniteSetTheorems, TLAPS

Shaped == TypeOK /\ CursorBehind

\* Where the page of r ends.
PageEnd(r) == IF cursor[r] + Limit < high[r] THEN cursor[r] + Limit ELSE high[r]

LEMMA Numbers ==
    ASSUME Shaped, NEW r \in Reader
    PROVE  /\ cursor[r] \in Nat /\ high[r] \in Nat /\ Len(log) \in Nat
           /\ cursor[r] <= high[r] /\ high[r] <= Len(log) /\ Len(log) <= MaxLog
           /\ DOMAIN log = 1..Len(log) /\ Limit \in Nat \ {0} /\ MaxLog \in Nat
BY ReadersAssumption DEF Shaped, TypeOK, CursorBehind, Store!LogTypeOK

\* The page is the interval from the cursor to PageEnd, and the cursor moves
\* there.
LEMMA PageOf ==
    ASSUME Shaped, NEW r \in Reader
    PROVE  /\ PageEnd(r) \in Nat
           /\ cursor[r] <= PageEnd(r) /\ PageEnd(r) <= high[r]
           /\ Rows(r) = (cursor[r] + 1)..high[r]
           /\ Page(r) = (cursor[r] + 1)..PageEnd(r)
           /\ NextPosition(r) = PageEnd(r)
<1>1. /\ PageEnd(r) \in Nat
      /\ cursor[r] <= PageEnd(r) /\ PageEnd(r) <= high[r]
  BY Numbers DEF PageEnd
<1>2. Rows(r) = (cursor[r] + 1)..high[r]
  BY Numbers DEF Rows
<1>3. Page(r) = (cursor[r] + 1)..PageEnd(r)
  BY <1>2, Numbers DEF Page, PageEnd
<1>4. NextPosition(r) = PageEnd(r)
  <2> DEFINE ends == Page(r) \cup {cursor[r]}
  <2>1. /\ PageEnd(r) \in ends
        /\ \A n \in ends : n \in Nat /\ PageEnd(r) >= n
    BY <1>1, <1>3, Numbers
  <2> HIDE DEF ends
  <2>2. \A m \in ends : (\A n \in ends : m >= n) => m = PageEnd(r)
    BY <1>1, <2>1
  <2>3. Max(ends) = PageEnd(r)
    BY <2>1, <2>2 DEF Max
  <2>4. QED
    BY <2>3 DEF NextPosition, ends
<1>5. QED
  BY <1>1, <1>2, <1>3, <1>4

\* Every step leaves the cursors behind the watermarks, and these in the log.
LEMMA ShapeStep == Shaped /\ [Next]_vars => Shaped'
<1> SUFFICES ASSUME Shaped, [Next]_vars PROVE Shaped'
  OBVIOUS
<1> USE ReadersAssumption
<1>1. ASSUME NEW p \in Payload, AppendObservation(p) PROVE Shaped'
  <2>1. log' = Append(log, p) /\ log \in Seq(Payload) /\ Len(log) < MaxLog
    BY <1>1 DEF AppendObservation, Store!AppendObservation, Shaped, TypeOK,
                Store!LogTypeOK
  <2>2. log' \in Seq(Payload) /\ Len(log') = Len(log) + 1 /\ Len(log) \in Nat
    BY <2>1
  <2>3. QED
    BY <1>1, <2>1, <2>2, Numbers
    DEF AppendObservation, Shaped, TypeOK, CursorBehind, Store!LogTypeOK
<1>2. ASSUME NEW r \in Reader, ReadHighWatermark(r) PROVE Shaped'
  BY <1>2, Numbers
  DEF ReadHighWatermark, Shaped, TypeOK, CursorBehind, Store!LogTypeOK
<1>3. ASSUME NEW s \in Scanner, CompareMaxEntry(s) PROVE Shaped'
  BY <1>3, Numbers
  DEF CompareMaxEntry, Shaped, TypeOK, CursorBehind, Store!LogTypeOK, Reader
<1>4. ASSUME NEW r \in Reader, ReadPage(r) PROVE Shaped'
  <2>1. PICK n \in 0..Limit : \E rows \in [1..n -> Page(r)] :
            received' = [received EXCEPT ![r] = @ \o rows]
    BY <1>4 DEF ReadPage
  <2>2. PICK rows \in [1..n -> Page(r)] :
            received' = [received EXCEPT ![r] = @ \o rows]
    BY <2>1
  <2>3. Page(r) \subseteq 1..MaxLog
    BY PageOf, Numbers
  <2>4. received[r] \o rows \in Seq(1..MaxLog)
    <3>1. rows \in Seq(1..MaxLog)
      BY <2>2, <2>3
    <3>2. QED
      BY <3>1 DEF Shaped, TypeOK
  <2>5. received' \in [Reader -> Seq(1..MaxLog)]
    BY <2>2, <2>4 DEF Shaped, TypeOK
  <2>6. cursor'[r] \in 0..MaxLog /\ cursor'[r] <= high[r]
    BY <1>4, PageOf, Numbers DEF ReadPage, Shaped, TypeOK
  <2>7. cursor' \in [Reader -> 0..MaxLog]
    BY <1>4, <2>6 DEF ReadPage, Shaped, TypeOK
  <2>8. has_more' \in [Reader -> BOOLEAN]
    <3>1. HasMore(r) \in BOOLEAN
      <4>1. CASE r \in Poller
        <5>1. (Cardinality(Rows(r)) > Limit) \in BOOLEAN
          BY SMT
        <5>2. QED
          BY <4>1, <5>1, Zenon DEF HasMore
      <4>2. CASE r \notin Poller
        BY <4>2, Zenon DEF HasMore
      <4>3. QED
        BY <4>1, <4>2
    <3>2. QED
      BY <1>4, <3>1 DEF ReadPage, Shaped, TypeOK
  <2>9. TypeOK'
    BY <1>4, <2>5, <2>7, <2>8 DEF ReadPage, Shaped, TypeOK, Store!LogTypeOK
  <2>10. CursorBehind'
    BY <1>4, <2>6 DEF ReadPage, Shaped, TypeOK, CursorBehind
  <2>11. QED
    BY <2>9, <2>10 DEF Shaped
<1>5. ASSUME NEW r \in Reader, CallFails(r) PROVE Shaped'
  BY <1>5, Numbers
  DEF CallFails, Shaped, TypeOK, CursorBehind, Store!LogTypeOK
<1>6. CASE UNCHANGED vars
  BY <1>6 DEF vars, Shaped, TypeOK, CursorBehind, Store!LogTypeOK
<1>7. QED
  BY <1>1, <1>2, <1>3, <1>4, <1>5, <1>6 DEF Next

LEMMA InitialShape == Init => Shaped
BY ReadersAssumption
DEF Init, Store!Init, Shaped, TypeOK, CursorBehind, Store!LogTypeOK

(* Cursors, watermarks and positions handed out stay within the log,       *)
(* whatever page size the callers ask for.                                 *)
THEOREM TypeCorrect == Spec => []TypeOK
<1>1. Shaped => TypeOK
  BY DEF Shaped
<1>2. QED
  BY <1>1, InitialShape, ShapeStep, PTL DEF Spec

-----------------------------------------------------------------------------
(* What is received.                                                       *)

\* Two ascending sequences, the second beyond the first, ascend together.
LEMMA Joined ==
    ASSUME NEW bound \in Nat, NEW f \in Seq(Nat), NEW g \in Seq(Nat),
           InIngestOrder(f), InIngestOrder(g),
           \A i \in DOMAIN f : f[i] <= bound, \A i \in DOMAIN g : bound < g[i]
    PROVE  /\ InIngestOrder(f \o g)
           /\ Range(f \o g) = Range(f) \cup Range(g)
<1> DEFINE h == f \o g
           m == Len(f)
<1>1. /\ m \in Nat /\ Len(g) \in Nat /\ DOMAIN f = 1..m /\ DOMAIN g = 1..Len(g)
      /\ DOMAIN h = 1..(m + Len(g))
      /\ \A i \in 1..m : h[i] = f[i]
      /\ \A i \in 1..(m + Len(g)) : i > m => h[i] = g[i - m]
      /\ \A i \in 1..Len(g) : h[m + i] = g[i]
  OBVIOUS
<1>2. /\ \A i \in 1..m : f[i] \in Nat
      /\ \A i \in 1..Len(g) : g[i] \in Nat
  BY <1>1
<1> HIDE DEF h, m
<1>3. ASSUME NEW i \in DOMAIN h, NEW j \in DOMAIN h, i < j PROVE h[i] < h[j]
  <2>1. CASE j <= m
    BY <1>1, <1>3, <2>1 DEF InIngestOrder
  <2>2. CASE i > m
    <3>1. i - m \in DOMAIN g /\ j - m \in DOMAIN g /\ i - m < j - m
      BY <1>1, <1>3, <2>2
    <3>2. QED
      BY <1>1, <1>3, <2>2, <3>1 DEF InIngestOrder
  <2>3. CASE i <= m /\ j > m
    <3>1. i \in DOMAIN f /\ j - m \in DOMAIN g
      BY <1>1, <2>3
    <3>2. h[i] = f[i] /\ h[j] = g[j - m]
      BY <1>1, <2>3
    <3>3. f[i] \in Nat /\ g[j - m] \in Nat
      BY <1>1, <1>2, <3>1
    <3>4. QED
      BY <3>1, <3>2, <3>3
  <2>4. QED
    BY <1>1, <2>1, <2>2, <2>3
<1>4. Range(h) = Range(f) \cup Range(g)
  <2>1. ASSUME NEW i \in DOMAIN h
        PROVE  (\E k \in DOMAIN f : h[i] = f[k]) \/ (\E k \in DOMAIN g : h[i] = g[k])
    <3>1. CASE i <= m
      BY <1>1, <3>1
    <3>2. CASE i > m
      <4>1. i - m \in DOMAIN g
        BY <1>1, <3>2
      <4>2. QED
        BY <1>1, <3>2, <4>1
    <3>3. QED
      BY <1>1, <3>1, <3>2
  <2>2. \A i \in DOMAIN f : \E k \in DOMAIN h : f[i] = h[k]
    BY <1>1
  <2>3. ASSUME NEW i \in DOMAIN g PROVE \E k \in DOMAIN h : g[i] = h[k]
    <3>1. m + i \in DOMAIN h /\ h[m + i] = g[i]
      BY <1>1
    <3>2. QED
      BY <3>1
  <2>4. QED
    BY <2>1, <2>2, <2>3 DEF Range
<1>5. QED
  BY <1>3, <1>4 DEF InIngestOrder, h

\* A reader that receives nothing keeps what is exact, however the log grows.
LEMMA KeepsExact ==
    ASSUME Shaped, ReadsExact, UNCHANGED << cursor, received >>,
           \A n \in DOMAIN log : log'[n] = log[n]
    PROVE  ReadsExact'
<1>1. ASSUME NEW r \in Reader
      PROVE  Selected(r, 1..cursor[r])' = Selected(r, 1..cursor[r])
  <2>1. \A n \in 1..cursor[r] : n \in DOMAIN log
    BY Numbers
  <2>2. \A n \in 1..cursor[r] : InScope(r, n)' <=> InScope(r, n)
    BY <2>1 DEF InScope
  <2>3. QED
    BY <2>2 DEF Selected
<1>2. QED
  BY <1>1 DEF ReadsExact

LEMMA ReadStep == Shaped /\ ReadsExact /\ [Next]_vars => ReadsExact'
<1> SUFFICES ASSUME Shaped, ReadsExact, [Next]_vars PROVE ReadsExact'
  OBVIOUS
<1>1. ASSUME NEW p \in Payload, AppendObservation(p) PROVE ReadsExact'
  <2>1. log' = Append(log, p) /\ log \in Seq(Payload)
    BY <1>1 DEF AppendObservation, Store!AppendObservation, Shaped, TypeOK,
                Store!LogTypeOK
  <2>2. \A n \in DOMAIN log : log'[n] = log[n]
    BY <2>1
  <2>3. QED
    BY <1>1, <2>2, KeepsExact DEF AppendObservation
<1>2. ASSUME NEW r \in Reader, ReadPage(r) PROVE ReadsExact'
  <2>1. PICK n \in 0..Limit : \E rows \in [1..n -> Page(r)] :
            /\ IsAnswer(rows, r)
            /\ received' = [received EXCEPT ![r] = @ \o rows]
    BY <1>2 DEF ReadPage
  <2>2. PICK rows \in [1..n -> Page(r)] :
            /\ IsAnswer(rows, r)
            /\ received' = [received EXCEPT ![r] = @ \o rows]
    BY <2>1
  <2>3. /\ cursor' = [cursor EXCEPT ![r] = PageEnd(r)] /\ log' = log
        /\ cursor'[r] = PageEnd(r)
        /\ received'[r] = received[r] \o rows
        /\ \A x \in Reader \ {r} : received'[x] = received[x] /\ cursor'[x] = cursor[x]
    BY <1>2, <2>2, PageOf DEF ReadPage, Shaped, TypeOK
  <2>4. rows \in Seq(Nat) /\ \A i \in DOMAIN rows : cursor[r] < rows[i]
    <3>1. \A k \in Page(r) : k \in Nat /\ cursor[r] < k
      BY PageOf, Numbers
    <3>2. QED
      BY <2>2, <3>1
  <2>5. received[r] \in Seq(Nat) /\ \A i \in DOMAIN received[r] :
                                       received[r][i] <= cursor[r]
    <3>1. received[r] \in Seq(Nat)
      BY ReadersAssumption DEF Shaped, TypeOK
    <3>2. \A i \in DOMAIN received[r] : received[r][i] \in Selected(r, 1..cursor[r])
      BY DEF ReadsExact, Range
    <3>3. QED
      BY <3>1, <3>2 DEF Selected
  <2>6. /\ InIngestOrder(received'[r])
        /\ Range(received'[r]) = Range(received[r]) \cup Range(rows)
    <3>1. InIngestOrder(received[r]) /\ InIngestOrder(rows)
      BY <2>2 DEF ReadsExact, IsAnswer
    <3>2. cursor[r] \in Nat
      BY Numbers
    <3>3. /\ InIngestOrder(received[r] \o rows)
          /\ Range(received[r] \o rows) = Range(received[r]) \cup Range(rows)
      BY <2>4, <2>5, <3>1, <3>2, Joined
    <3>4. QED
      BY <2>3, <3>3
  <2>7. Range(received'[r]) = Selected(r, 1..cursor[r]) \cup Selected(r, Page(r))
    BY <2>2, <2>6 DEF ReadsExact, IsAnswer
  <2>8. 1..PageEnd(r) = 1..cursor[r] \cup Page(r)
    BY PageOf, Numbers
  <2>9. Selected(r, 1..PageEnd(r))
           = Selected(r, 1..cursor[r]) \cup Selected(r, Page(r))
    BY <2>8 DEF Selected
  <2>10. \A x \in Reader :
            Selected(x, 1..cursor[x])' = Selected(x, 1..cursor'[x])
    BY <2>3 DEF Selected, InScope
  <2>11. ASSUME NEW x \in Reader
         PROVE  /\ Range(received'[x]) = Selected(x, 1..cursor'[x])
                /\ InIngestOrder(received'[x])
    <3>1. CASE x = r
      BY <2>3, <2>6, <2>7, <2>9, <3>1
    <3>2. CASE x # r
      <4>1. received'[x] = received[x] /\ cursor'[x] = cursor[x]
        BY <2>3, <3>2
      <4>2. QED
        BY <4>1 DEF ReadsExact
    <3>3. QED
      BY <3>1, <3>2
  <2>12. QED
    BY <2>10, <2>11 DEF ReadsExact
<1>3. ASSUME NEW r \in Reader,
             \/ ReadHighWatermark(r) \/ CallFails(r)
             \/ r \in Scanner /\ CompareMaxEntry(r)
      PROVE  ReadsExact'
  BY <1>3, KeepsExact DEF ReadHighWatermark, CallFails, CompareMaxEntry
<1>4. CASE UNCHANGED vars
  BY <1>4, KeepsExact DEF vars
<1>5. QED
  BY <1>1, <1>2, <1>3, <1>4 DEF Next, Reader

(* A reader has been handed the positions of its scope up to its cursor,   *)
(* once each and in ingest order, however the log grows between the        *)
(* statements of its calls and whichever of them fail.                     *)
THEOREM ReadsAreExact == Spec => []ReadsExact
<1>1. Init => ReadsExact
  <2> SUFFICES ASSUME Init PROVE ReadsExact
    OBVIOUS
  <2>1. ASSUME NEW r \in Reader
        PROVE  received[r] = << >> /\ Selected(r, 1..cursor[r]) = {}
    BY DEF Init, Selected
  <2>2. QED
    BY <2>1 DEF ReadsExact, InIngestOrder, Range
<1>2. QED
  BY <1>1, InitialShape, ShapeStep, ReadStep, PTL DEF Spec

-----------------------------------------------------------------------------
(* What has_more says.                                                     *)

LEMMA HasMoreOfPage ==
    ASSUME Shaped, NEW r \in Reader
    PROVE  HasMore(r) <=> NextPosition(r) < high[r]
<1>1. CASE r \in Poller
  <2>1. /\ cursor[r] \in Nat /\ high[r] \in Nat /\ cursor[r] <= high[r]
        /\ Limit \in Nat
    BY Numbers
  <2>2. Cardinality((cursor[r] + 1)..high[r]) = high[r] - cursor[r]
    <3>1. cursor[r] + 1 \in Int /\ high[r] \in Int
      BY <2>1
    <3>2. Cardinality((cursor[r] + 1)..high[r]) =
             IF cursor[r] + 1 > high[r] THEN 0 ELSE high[r] - (cursor[r] + 1) + 1
      BY <3>1, FS_Interval
    <3>3. QED
      BY <2>1, <3>2
  <2>3. HasMore(r) <=> high[r] - cursor[r] > Limit
    BY <1>1, <2>2, PageOf DEF HasMore
  <2>4. NextPosition(r) = PageEnd(r)
    BY PageOf
  <2>5. QED
    BY <2>1, <2>3, <2>4 DEF PageEnd
<1>2. CASE r \notin Poller
  <2>1. /\ cursor[r] \in Nat /\ high[r] \in Nat /\ Limit \in Nat \ {0}
        /\ Page(r) = (cursor[r] + 1)..PageEnd(r) /\ NextPosition(r) = PageEnd(r)
    BY Numbers, PageOf
  <2>2. PageEnd(r) < high[r] => Page(r) # {}
    <3>1. PageEnd(r) < high[r] => cursor[r] + 1 \in (cursor[r] + 1)..PageEnd(r)
      BY <2>1 DEF PageEnd
    <3>2. QED
      BY <2>1, <3>1
  <2>3. QED
    BY <1>2, <2>1, <2>2 DEF HasMore
<1>3. QED
  BY <1>1, <1>2

LEMMA HasMoreStep == Shaped /\ HasMoreExact /\ [Next]_vars => HasMoreExact'
<1> SUFFICES ASSUME Shaped, HasMoreExact, [Next]_vars PROVE HasMoreExact'
  OBVIOUS
<1>1. ASSUME NEW p \in Payload, AppendObservation(p) PROVE HasMoreExact'
  BY <1>1 DEF AppendObservation, HasMoreExact
<1>2. ASSUME NEW r \in Reader, ReadHighWatermark(r) PROVE HasMoreExact'
  BY <1>2 DEF ReadHighWatermark, HasMoreExact, Shaped, TypeOK
<1>3. ASSUME NEW s \in Scanner, CompareMaxEntry(s) PROVE HasMoreExact'
  BY <1>3 DEF CompareMaxEntry, HasMoreExact, Shaped, TypeOK, Reader
<1>4. ASSUME NEW r \in Reader, ReadPage(r) PROVE HasMoreExact'
  <2>1. has_more'[r] <=> cursor'[r] < high'[r]
    BY <1>4, HasMoreOfPage DEF ReadPage, Shaped, TypeOK
  <2>2. QED
    BY <1>4, <2>1 DEF ReadPage, HasMoreExact, Shaped, TypeOK
<1>5. ASSUME NEW r \in Reader, CallFails(r) PROVE HasMoreExact'
  BY <1>5 DEF CallFails, HasMoreExact, Shaped, TypeOK
<1>6. CASE UNCHANGED vars
  BY <1>6 DEF vars, HasMoreExact
<1>7. QED
  BY <1>1, <1>2, <1>3, <1>4, <1>5, <1>6 DEF Next

(* A page says that more follows exactly if it ends before the watermark   *)
(* it reports, whether it looked one row ahead or compared positions.      *)
THEOREM HasMoreIsExact == Spec => []HasMoreExact
<1>1. Init => HasMoreExact
  BY DEF Init, HasMoreExact
<1>2. QED
  BY <1>1, InitialShape, ShapeStep, HasMoreStep, PTL DEF Spec

=============================================================================
