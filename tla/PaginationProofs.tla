-------------------------- MODULE PaginationProofs --------------------------
(***************************************************************************)
(* Proofs about Pagination, for any finite set of devices, any page size   *)
(* and any unit of time the store keeps: a walk shows every device that    *)
(* was there when it began, and none twice.                                *)
(***************************************************************************)
EXTENDS Pagination, FiniteSetTheorems, WellFoundedInduction, TLAPS

----------------------------------------------------------------------------
(* The order of the list.                                                  *)

\* A set of natural numbers that is not empty has a least element.
LEMMA LeastNat ==
    ASSUME NEW S, S \subseteq Nat, S # {}
    PROVE  \E x \in S : \A y \in S : x <= y
<1>1. PICK x \in S : \A y \in S : ~(<<y, x>> \in OpToRel(<, Nat))
    BY NatLessThanWellFounded, WFMin
<1>2. ASSUME NEW y \in S PROVE x <= y
    <2>1. x \in Nat /\ y \in Nat
        OBVIOUS
    <2>2. ~(y < x)
        BY <1>1, <2>1 DEF OpToRel
    <2> QED
        BY <2>1, <2>2
<1> QED
    BY <1>2

\* The list is ordered strictly and totally.
LEMMA NewerOrder ==
    ASSUME NEW i \in Ids, NEW j \in Ids, NEW k \in Ids, at \in [Ids -> Nat]
    PROVE  /\ ~Newer(i, i)
           /\ Newer(i, j) /\ Newer(j, k) => Newer(i, k)
           /\ i # j => Newer(i, j) \/ Newer(j, i)
BY PaginationAssumption DEF Newer

\* Devices that are not none have a last one.
LEMMA LastExists ==
    ASSUME NEW P, P \subseteq Ids, P # {}, at \in [Ids -> Nat]
    PROVE  /\ LastOf(P) \in P
           /\ \A j \in P : j # LastOf(P) => Newer(j, LastOf(P))
<1> USE PaginationAssumption
<1>1. PICK t \in {at[i] : i \in P} : \A u \in {at[i] : i \in P} : t <= u
    <2>1. {at[i] : i \in P} \subseteq Nat /\ {at[i] : i \in P} # {}
        OBVIOUS
    <2> QED
        BY <2>1, LeastNat
<1> DEFINE Earliest == {i \in P : at[i] = t}
<1>2. PICK i \in Earliest : \A j \in Earliest : i <= j
    <2>1. Earliest \subseteq Nat /\ Earliest # {}
        OBVIOUS
    <2> QED
        BY <2>1, LeastNat
<1>3. ASSUME NEW j \in P, j # i PROVE Newer(j, i)
    <2>1. at[j] \in Nat /\ at[i] = t /\ t \in Nat /\ t <= at[j] /\ i \in Nat /\ j \in Nat
        BY <1>1
    <2>2. at[j] = t => i <= j
        BY <1>2
    <2> QED
        BY <2>1, <2>2, <1>3 DEF Newer
<1> QED
    BY <1>3 DEF LastOf

----------------------------------------------------------------------------
(* What a page is.                                                         *)

\* The rows of R that come before i, and the first Limit rows of R.
Before(R, i) == {j \in R : Newer(j, i)}
PageOf(R)    == {i \in R : Cardinality(Before(R, i)) < Limit}

\* Finitely many rows come before a row.
LEMMA BeforeFinite ==
    ASSUME NEW R, R \subseteq Ids, NEW i
    PROVE  /\ IsFiniteSet(Before(R, i))
           /\ Cardinality(Before(R, i)) \in Nat
<1>1. Before(R, i) \in SUBSET Ids
    BY DEF Before
<1> QED
    BY <1>1, FS_Subset, FS_CardinalityType, PaginationAssumption

\* What is left of the list after the page is older than all of the page.
LEMMA PageIsFirst ==
    ASSUME NEW R, R \subseteq Ids, at \in [Ids -> Nat],
           NEW i \in PageOf(R), NEW j \in R \ PageOf(R)
    PROVE  Newer(i, j)
<1> SUFFICES ASSUME ~Newer(i, j) PROVE FALSE
    OBVIOUS
<1>1. i \in R /\ j \in R /\ i # j
    BY DEF PageOf
<1>2. Newer(j, i)
    BY <1>1, NewerOrder
<1>3. Before(R, j) \in SUBSET Before(R, i)
    BY <1>1, <1>2, NewerOrder DEF Before
<1>4. Cardinality(Before(R, j)) <= Cardinality(Before(R, i))
    BY <1>3, BeforeFinite, FS_Subset
<1>5. Cardinality(Before(R, j)) < Limit
    <2>1. Cardinality(Before(R, i)) \in Nat /\ Cardinality(Before(R, j)) \in Nat
        BY BeforeFinite
    <2>2. Cardinality(Before(R, i)) < Limit
        BY DEF PageOf
    <2> QED
        BY <1>4, <2>1, <2>2, PaginationAssumption
<1> QED
    BY <1>1, <1>5 DEF PageOf

\* A page is empty only if nothing is left.
LEMMA PageNotEmpty ==
    ASSUME NEW R, R \subseteq Ids, R # {}, at \in [Ids -> Nat]
    PROVE  PageOf(R) # {}
<1> DEFINE Counts == {Cardinality(Before(R, i)) : i \in R}
<1>1. Counts \subseteq Nat /\ Counts # {}
    BY BeforeFinite
<1>2. PICK n \in Counts : \A m \in Counts : n <= m
    BY <1>1, LeastNat
<1>3. PICK i \in R : n = Cardinality(Before(R, i))
    OBVIOUS
<1>4. Before(R, i) = {}
    <2> SUFFICES ASSUME NEW k \in Before(R, i) PROVE FALSE
        OBVIOUS
    <2>1. k \in R /\ Newer(k, i)
        BY DEF Before
    <2>2. Before(R, k) \in SUBSET Before(R, i) /\ k \notin Before(R, k)
        BY <2>1, NewerOrder DEF Before
    <2>3. Cardinality(Before(R, k)) < Cardinality(Before(R, i))
        BY <2>2, BeforeFinite, FS_Subset
    <2>4. n <= Cardinality(Before(R, k))
        BY <1>2, <2>1
    <2> QED
        BY <1>3, <2>3, <2>4, <2>1, BeforeFinite
<1>5. Cardinality(Before(R, i)) = 0
    BY <1>4, FS_EmptySet
<1> QED
    BY <1>5, PaginationAssumption DEF PageOf

----------------------------------------------------------------------------
(* The inductive invariant.                                                *)

\* A row that is in the table keeps its timestamp.
NotStampedAgain == stamped \cap table = {}

\* Nothing has been shown before the first page.
NothingShown == walk \in {"idle", "first"} => seen = {}

\* Between two pages the cursor divides the list: what was shown is on its
\* near side, and what was there at the beginning is shown or beyond it.
CursorDivides == walk = "more" =>
    /\ \A i \in seen : ~Older(i)
    /\ \A i \in start : i \in seen \/ Older(i)

\* The cursor is not later than the first page.
CursorNotLater == walk = "more" => curAt <= opened

IInv ==
    /\ TypeOK /\ NotStampedAgain /\ NothingShown /\ CursorDivides /\ CursorNotLater
    /\ NoneSkipped /\ NoneRepeated /\ LaterOnesStayOut

\* The invariant holds with an empty table.
LEMMA IInvInit == Init => IInv
BY PaginationAssumption
   DEF Init, IInv, TypeOK, NotStampedAgain, NothingShown, CursorDivides,
       CursorNotLater, NoneSkipped, NoneRepeated, LaterOnesStayOut

----------------------------------------------------------------------------
(* Fetching a page preserves it.                                           *)

\* A stored timestamp is not in the future.
LEMMA StoredType == ASSUME NEW t \in Nat PROVE Stored(t) \in 0..t
<1>1. t % Granularity \in Nat /\ t % Granularity <= t
    BY PaginationAssumption
<1> QED
    BY <1>1 DEF Stored

\* Timestamps are numbers.
LEMMA AtIsNat == ASSUME TypeOK PROVE at \in [Ids -> Nat]
BY DEF TypeOK

\* No row the query ranges over is later than the walk's first page.
LEMMA RemainingNotLater ==
    ASSUME IInv, FetchPage, NEW i \in Remaining
    PROVE  at[i] <= opened' /\ opened' = IF walk = "first" THEN now ELSE opened
<1>1. i \in Ids /\ at[i] \in 0..now /\ now \in Nat /\ curAt \in Nat /\ opened \in Nat
    BY DEF IInv, TypeOK, Remaining
<1>2. CASE walk = "first"
    BY <1>1, <1>2 DEF FetchPage
<1>3. CASE walk = "more"
    <2>1. Older(i) /\ curAt <= opened /\ opened' = opened
        BY <1>3 DEF IInv, CursorNotLater, FetchPage, Remaining
    <2> QED
        BY <1>1, <1>3, <2>1 DEF Older
<1> QED
    BY <1>2, <1>3 DEF FetchPage

\* A page has nothing on it that was shown.
LEMMA PageIsNew ==
    ASSUME IInv, FetchPage
    PROVE  seen \cap Page = {}
BY DEF IInv, FetchPage, NothingShown, CursorDivides, Page, Remaining

\* The page with more behind it: the new cursor is a row of it, all of it is
\* on the near side, and all that is left on the far side.
LEMMA PageDivides ==
    ASSUME TypeOK, Page # Remaining
    PROVE  /\ LastOf(Page) \in Page
           /\ \A i \in Page : ~Newer(LastOf(Page), i)
           /\ \A i \in Remaining \ Page : Newer(LastOf(Page), i)
<1>1. Page = PageOf(Remaining)
    BY DEF Page, PageOf, Before
<1>2. Remaining \subseteq Ids /\ at \in [Ids -> Nat] /\ Page \subseteq Remaining
    BY AtIsNat DEF TypeOK, Remaining, Page
<1>3. Page # {}
    BY <1>1, <1>2, PageNotEmpty
<1>4. LastOf(Page) \in Page /\ \A j \in Page : j # LastOf(Page) => Newer(j, LastOf(Page))
    BY <1>2, <1>3, LastExists
<1>5. ASSUME NEW i \in Page PROVE ~Newer(LastOf(Page), i)
    BY <1>2, <1>4, NewerOrder
<1>6. ASSUME NEW i \in Remaining \ Page PROVE Newer(LastOf(Page), i)
    BY <1>1, <1>2, <1>4, PageIsFirst
<1> QED
    BY <1>4, <1>5, <1>6

\* Fetching a page keeps the invariant.
LEMMA FetchNext == IInv /\ FetchPage => IInv'
<1> SUFFICES ASSUME IInv, FetchPage PROVE IInv'
    OBVIOUS
<1> USE DEF IInv, FetchPage
<1>1. Page \subseteq Remaining /\ Remaining \subseteq table
    BY DEF Page, Remaining
<1>2. NotStampedAgain' /\ NothingShown'
    BY DEF NotStampedAgain, NothingShown
<1>3. NoneRepeated'
    BY PageIsNew DEF NoneRepeated
<1>4. opened' \in 0..now /\ now' = now /\ at' = at
    BY DEF TypeOK
<1>5. LaterOnesStayOut'
    <2> SUFFICES ASSUME NEW i \in seen' PROVE at[i] <= opened'
        BY <1>4 DEF LaterOnesStayOut
    <2>1. CASE i \in Page
        BY <1>1, <2>1, RemainingNotLater
    <2>2. CASE i \in seen
        BY <2>2 DEF LaterOnesStayOut, NothingShown
    <2> QED
        BY <2>1, <2>2
<1>6. CASE Page = Remaining
    <2>1. walk' = "done" /\ UNCHANGED <<curAt, curId>>
        BY <1>6
    <2>2. TypeOK' /\ CursorNotLater'
        BY <1>1, <1>4, <2>1 DEF TypeOK, CursorNotLater
    <2>3. CursorDivides'
        BY <2>1 DEF CursorDivides
    <2>4. NoneSkipped'
        BY <1>6, <2>1 DEF NoneSkipped, CursorDivides, Remaining, TypeOK
    <2> QED
        BY <1>2, <1>3, <1>5, <2>2, <2>3, <2>4
<1>7. CASE Page # Remaining
    <2> DEFINE last == LastOf(Page)
    <2>1. walk' = "more" /\ curAt' = at[last] /\ curId' = last
        BY <1>7 DEF NextCursor
    <2>2. last \in Page /\ last \in Ids
        BY <1>1, <1>7, PageDivides DEF TypeOK
    <2>3. TypeOK' /\ CursorNotLater'
        <3>1. at[last] <= opened' /\ at[last] \in 0..now
            BY <1>1, <2>2, RemainingNotLater DEF TypeOK
        <3>2. CursorNotLater'
            BY <2>1, <3>1 DEF CursorNotLater
        <3>3. curAt' \in 0..now /\ curId' \in Nat
            BY <2>1, <2>2, <3>1, PaginationAssumption
        <3>4. seen' \subseteq table /\ again' \subseteq table
            BY <1>1 DEF TypeOK
        <3>5. TypeOK'
            BY <1>4, <2>1, <3>3, <3>4 DEF TypeOK
        <3> QED
            BY <3>2, <3>5
    <2>4. NoneSkipped'
        BY <2>1 DEF NoneSkipped
    <2>5. ASSUME NEW i \in Ids PROVE Older(i)' <=> Newer(last, i)
        BY <2>1, <2>2, PaginationAssumption DEF Older, Newer, TypeOK
    <2>6. ASSUME NEW i \in seen' PROVE ~Older(i)'
        <3>1. CASE i \in Page
            BY <3>1, <1>1, <1>7, <2>5, PageDivides DEF TypeOK
        <3>2. CASE i \in seen
            <4>1. walk = "more" /\ ~Older(i) /\ Older(last)
                BY <3>2, <1>1, <2>2 DEF NothingShown, CursorDivides, Remaining
            <4>2. /\ at[last] \in Nat /\ at[i] \in Nat /\ last \in Nat /\ i \in Nat
                  /\ curAt \in Nat /\ curId \in Nat
                <5>1. at \in [Ids -> Nat] /\ seen \subseteq Ids /\ curAt \in Nat /\ curId \in Nat
                    BY AtIsNat DEF TypeOK
                <5> HIDE DEF last, IInv
                <5> QED
                    BY <2>2, <3>2, <5>1, PaginationAssumption
            <4>3. ~Newer(last, i)
                <5> HIDE DEF last
                <5> QED
                    BY <4>1, <4>2 DEF Older, Newer
            <4> QED
                BY <4>3, <3>2, <2>5 DEF TypeOK
        <3> QED
            BY <3>1, <3>2
    <2>7. ASSUME NEW i \in start', i \notin seen' PROVE Older(i)'
        <3>1. i \in start /\ i \in table /\ i \notin seen /\ i \notin Page
            BY <2>7 DEF TypeOK
        <3>2. i \in Remaining
            BY <3>1 DEF CursorDivides, Remaining
        <3> QED
            BY <3>1, <3>2, <1>7, <2>5, PageDivides DEF TypeOK
    <2>8. CursorDivides'
        BY <2>6, <2>7 DEF CursorDivides
    <2> QED
        BY <1>2, <1>3, <1>5, <2>3, <2>4, <2>8
<1> QED
    BY <1>6, <1>7

----------------------------------------------------------------------------
(* So does every other step.                                               *)

\* Every step keeps the invariant.
LEMMA IInvNext == IInv /\ [Next]_vars => IInv'
<1> SUFFICES ASSUME IInv, [Next]_vars PROVE IInv'
    OBVIOUS
<1> USE PaginationAssumption
<1> USE DEF IInv, TypeOK, NotStampedAgain, NothingShown, CursorDivides, Older,
            CursorNotLater, NoneSkipped, NoneRepeated, LaterOnesStayOut, walkVars
<1>1. ASSUME NEW i \in Ids, Stamp(i) PROVE IInv'
    <2>1. Stored(now) \in 0..now
        BY StoredType
    <2>2. \A j \in table : at'[j] = at[j]
        BY <1>1 DEF Stamp
    <2> QED
        BY <1>1, <2>1, <2>2 DEF Stamp
<1>2. ASSUME NEW i \in Ids, Insert(i) PROVE IInv'
    BY <1>2 DEF Insert
<1>3. CASE BeginWalk
    BY <1>3 DEF BeginWalk
<1>4. CASE FetchPage
    BY <1>4, FetchNext
<1>5. CASE Tick
    BY <1>5 DEF Tick
<1>6. CASE UNCHANGED vars
    BY <1>6 DEF vars
<1> QED
    BY <1>1, <1>2, <1>3, <1>4, <1>5, <1>6 DEF Next

\* The inductive invariant holds of every walk through the list.
THEOREM PaginationInvariant == Spec => []IInv
BY IInvInit, IInvNext, PTL DEF Spec

----------------------------------------------------------------------------
(* What follows from it.                                                   *)

(***************************************************************************)
(* The variables keep their types: only devices in the table are shown,    *)
(* and the cursor is one the store can have given out.                     *)
(***************************************************************************)
THEOREM TypeCorrect == Spec => []TypeOK
<1>1. IInv => TypeOK
    BY DEF IInv
<1> QED
    BY <1>1, PaginationInvariant, PTL

(***************************************************************************)
(* A finished walk has shown every device that was registered when it      *)
(* began, whatever the page size, however many devices share a timestamp   *)
(* and wherever in the list others appear meanwhile.                       *)
(***************************************************************************)
THEOREM NeverSkips == Spec => []NoneSkipped
<1>1. IInv => NoneSkipped
    BY DEF IInv
<1> QED
    BY <1>1, PaginationInvariant, PTL

(***************************************************************************)
(* No walk shows a device on two pages.                                    *)
(***************************************************************************)
THEOREM NeverRepeats == Spec => []NoneRepeated
<1>1. IInv => NoneRepeated
    BY DEF IInv
<1> QED
    BY <1>1, PaginationInvariant, PTL

(***************************************************************************)
(* Whatever registers while the list is walked, the walk shows no device   *)
(* of a later second than its first page.                                  *)
(***************************************************************************)
THEOREM NeverFed == Spec => []LaterOnesStayOut
<1>1. IInv => LaterOnesStayOut
    BY DEF IInv
<1> QED
    BY <1>1, PaginationInvariant, PTL
=============================================================================
