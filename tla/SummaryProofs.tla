---------------------------- MODULE SummaryProofs ----------------------------
(***************************************************************************)
(* Proof that the summary of a report counts every attempt once, for any   *)
(* jobs, runs and page sizes and any number of retries and tasks: a job    *)
(* appears twice in the list only if one was retried between two pages,    *)
(* and a sum along the rows is the sum over the set of them.               *)
(***************************************************************************)
EXTENDS CommandProofs, AdviceProofs, FiniteSetTheorems

-----------------------------------------------------------------------------
(* Counting the IDs of a list *)

\* A list has at most as many IDs as places, and as many only if they differ.
LEMMA IdsOfList ==
    ASSUME NEW list, NEW n \in Nat, DOMAIN list = 1..n
    PROVE  /\ IsFiniteSet(Ids(list)) /\ Cardinality(Ids(list)) \in Nat
           /\ Cardinality(Ids(list)) <= n
           /\ Cardinality(Ids(list)) = n <=>
                 \A i, k \in 1..n : i # k => list[i].id # list[k].id
<1> DEFINE S == 1..n
           T == Ids(list)
           f == [i \in S |-> list[i].id]
<1>1. IsFiniteSet(S) /\ Cardinality(S) = n
    BY FS_Interval
<1>2. f \in Surjection(S, T)
    <2>1. f \in [S -> T]
        BY DEF Ids
    <2>2. \A t \in T : \E s \in S : f[s] = t
        BY DEF Ids
    <2> QED
        BY <2>1, <2>2 DEF Surjection
<1>3. f \in Injection(S, T) <=> \A i, k \in S : i # k => list[i].id # list[k].id
    <2>1. f \in [S -> T]
        BY DEF Ids
    <2> QED
        BY <2>1 DEF Injection, IsInjective
<1> HIDE DEF S, T, f
<1>4. IsFiniteSet(T) /\ Cardinality(T) <= Cardinality(S)
      /\ (Cardinality(T) = Cardinality(S) <=> f \in Injection(S, T))
    BY <1>1, <1>2, FS_Surjection
<1>5. Cardinality(T) \in Nat
    BY <1>4, FS_CardinalityType
<1> QED
    BY <1>1, <1>3, <1>4, <1>5 DEF S, T

\* A page P of the places B to come adds IDs to those listed, I, unless they
\* are listed already; C is what is still to come.
LEMMA CountPage ==
    ASSUME NEW I, IsFiniteSet(I), NEW B, IsFiniteSet(B),
           NEW P, P \subseteq B, NEW C, C \subseteq B, C \cap P = {}
    PROVE  /\ Cardinality(I \cup P) \in Nat /\ Cardinality(C \cap (I \cup P)) \in Nat
           /\ Cardinality(P) + Cardinality(C \cap (I \cup P)) + Cardinality(I)
                <= Cardinality(B \cap I) + Cardinality(I \cup P)
<1>1. IsFiniteSet(P) /\ IsFiniteSet(C)
    BY FS_Subset
<1> DEFINE X == C \cap I
           Y == P \cap I
<1>2. IsFiniteSet(X) /\ IsFiniteSet(Y) /\ IsFiniteSet(B \cap I) /\ IsFiniteSet(I \cup P)
    BY <1>1, FS_Intersection, FS_Union
<1>3. C \cap (I \cup P) = X /\ X \cap Y = {} /\ X \cup Y \subseteq B \cap I /\ I \cap P = Y
    OBVIOUS
<1> HIDE DEF X, Y
<1>4. Cardinality(X \cup Y) = Cardinality(X) + Cardinality(Y) - Cardinality(X \cap Y)
    BY <1>2, FS_Union
<1>5. Cardinality(X \cup Y) <= Cardinality(B \cap I)
    BY <1>2, <1>3, FS_Subset
<1>6. Cardinality(I \cup P) = Cardinality(I) + Cardinality(P) - Cardinality(Y)
    BY <1>1, <1>3, FS_Union
<1>7. Cardinality(X \cap Y) = 0
    BY <1>3, FS_EmptySet
<1>8. /\ Cardinality(X) \in Nat /\ Cardinality(Y) \in Nat /\ Cardinality(B \cap I) \in Nat
      /\ Cardinality(I) \in Nat /\ Cardinality(P) \in Nat /\ Cardinality(I \cup P) \in Nat
    BY <1>1, <1>2, FS_CardinalityType
<1>9. Cardinality(P) + Cardinality(X) + Cardinality(I) <= Cardinality(B \cap I) + Cardinality(I \cup P)
    <2>1. Cardinality(X \cup Y) = Cardinality(X) + Cardinality(Y)
        BY <1>4, <1>7, <1>8
    <2> QED
        BY <1>5, <1>6, <1>8, <2>1
<1> QED
    BY <1>3, <1>8, <1>9

-----------------------------------------------------------------------------
(* The list *)

\* The IDs at the places behind the pages read, and the invariant: what is
\* twice in the list or will be is at most what was retried.
Behind == {jobs[k].id : k \in {m \in DOMAIN jobs : m > (listing.page - 1) * PerPage}}
Twice == IF listing.page > 0 THEN Cardinality(Behind \cap Ids(listing.list)) ELSE 0
CountInv == Len(listing.list) + Twice <= Cardinality(Ids(listing.list)) + listing.retried

\* The sets of CountInv are finite.
LEMMA CountTypes ==
    ASSUME JobsOK
    PROVE  /\ Len(listing.list) \in Nat /\ listing.retried \in Nat /\ Twice \in Nat
           /\ IsFiniteSet(Ids(listing.list)) /\ Cardinality(Ids(listing.list)) \in Nat
           /\ IsFiniteSet(Ids(jobs)) /\ Behind \subseteq Ids(jobs) /\ IsFiniteSet(Behind)
<1>1. /\ listing.list \in Seq(Attempts) /\ jobs \in Seq(Attempts) /\ listing.retried \in Nat
    BY DEF JobsOK, JobsInv, ListingInv
<1>2. /\ Len(listing.list) \in Nat /\ DOMAIN listing.list = 1..Len(listing.list)
      /\ Len(jobs) \in Nat /\ DOMAIN jobs = 1..Len(jobs)
    BY <1>1
<1>3. IsFiniteSet(Ids(listing.list)) /\ Cardinality(Ids(listing.list)) \in Nat /\ IsFiniteSet(Ids(jobs))
    BY <1>2, IdsOfList
<1>4. Behind \subseteq Ids(jobs)
    BY DEF Behind, Ids
<1>5. IsFiniteSet(Behind)
    BY <1>3, <1>4, FS_Subset
<1>6. IsFiniteSet(Behind \cap Ids(listing.list))
    BY <1>5, FS_Intersection
<1>7. Twice \in Nat
    BY <1>6, FS_CardinalityType DEF Twice
<1> QED
    BY <1>1, <1>2, <1>3, <1>4, <1>5, <1>7

\* A new list is empty.
LEMMA StartCounts ==
    ASSUME StartListing
    PROVE  CountInv'
<1>1. /\ listing'.page = 1 /\ listing'.list = <<>> /\ listing'.retried = 0
    BY DEF StartListing
<1>2. Ids(<<>>) = {} /\ Len(<<>>) = 0
    BY DEF Ids
<1>3. Cardinality({}) = 0
    BY FS_EmptySet
<1>4. Ids(listing'.list) = {} /\ Len(listing'.list) = 0
    BY <1>1, <1>2
<1>5. Twice' = 0
    <2>1. Behind' \cap Ids(listing'.list) = {}
        BY <1>4
    <2> QED
        BY <1>3, <2>1 DEF Twice
<1>6. 0 + 0 <= 0 + 0
    OBVIOUS
<1> QED
    BY <1>1, <1>3, <1>4, <1>5, <1>6, Zenon DEF CountInv

\* Where a page begins and ends
LEMMA PageEnds ==
    ASSUME NEW c \in Nat \ {0}, NEW n \in Nat \ {0}
    PROVE  /\ (c - 1) * n \in Nat /\ c * n \in Nat
           /\ c * n = (c - 1) * n + n
           /\ ((c + 1) - 1) * n = c * n
<1>1. (c - 1) \in Nat
    OBVIOUS
<1> QED
    BY <1>1

\* The part of a sequence behind one place and up to another
LEMMA PageOf ==
    ASSUME NEW S, NEW s \in Seq(S), NEW a \in Nat, NEW b \in Nat, b <= Len(s)
    PROVE  LET part == SubSeq(s, a + 1, b) IN
           /\ part \in Seq(S) /\ Len(part) \in Nat /\ DOMAIN part = 1..Len(part)
           /\ \A i \in 1..Len(part) : a + i \in 1..Len(s) /\ a + i <= b /\ part[i] = s[a + i]
           /\ \A k \in 1..Len(s) : k > a /\ k <= b => k - a \in 1..Len(part)
<1> DEFINE part == SubSeq(s, a + 1, b)
<1>1. Len(s) \in Nat
    OBVIOUS
<1>2. /\ part \in Seq(S) /\ Len(part) = IF a + 1 <= b THEN b - a ELSE 0
      /\ \A i \in 1..Len(part) : part[i] = s[a + i]
    BY <1>1
<1> HIDE DEF part
<1>3. Len(part) \in Nat /\ DOMAIN part = 1..Len(part)
    BY <1>2
<1>4. \A i \in 1..Len(part) : a + i \in 1..Len(s) /\ a + i <= b
    BY <1>1, <1>2
<1>5. \A k \in 1..Len(s) : k > a /\ k <= b => k - a \in 1..Len(part)
    BY <1>1, <1>2
<1> QED
    BY <1>2, <1>3, <1>4, <1>5 DEF part

\* What a page adds is no longer behind it.
LEMMA PageCounts ==
    ASSUME JobsOK, CountInv, UNCHANGED <<jobs, lastJob>>, ListPage
    PROVE  CountInv'
<1> DEFINE done == (listing.page - 1) * PerPage
           next == listing.page * PerPage
           last == Smaller(next, Len(jobs))
           page == SubSeq(jobs, done + 1, last)
           list == listing.list
           I == Ids(list)
           P == Ids(page)
           C == IF listing'.page > 0 THEN Behind' ELSE {}
<1>1. /\ list \in Seq(Attempts) /\ jobs \in Seq(Attempts)
      /\ Len(jobs) \in Nat /\ DOMAIN jobs = 1..Len(jobs)
      /\ \A i, k \in DOMAIN jobs : i < k => jobs[k].id < jobs[i].id
      /\ \A i \in DOMAIN jobs : jobs[i].id \in Nat
    BY DEF JobsOK, JobsInv, ListingInv
<1>a. listing.page \in Nat \ {0} /\ PerPage \in Nat \ {0}
    BY PerPageAssumption DEF JobsOK, ListingInv, ListPage
<1>b. /\ done \in Nat /\ next \in Nat /\ next = done + PerPage
      /\ ((listing.page + 1) - 1) * PerPage = next
    BY <1>a, PageEnds
<1>3. /\ listing'.list = list \o page
      /\ listing'.page = IF next < Len(jobs) THEN listing.page + 1 ELSE 0
      /\ listing'.retried = listing.retried
    BY DEF ListPage, JobsOK, ListingInv
<1>c. Behind = {jobs[k].id : k \in {m \in DOMAIN jobs : m > done}}
    BY DEF Behind
<1>d. \A c : c = listing.page + 1 => (c - 1) * PerPage = next
    BY <1>b, Zenon
<1> HIDE DEF done, next
<1>e. Len(jobs) \in Nat
    BY <1>1
<1>2. /\ done \in Nat /\ next \in Nat /\ done < next
      /\ last \in Nat /\ last <= Len(jobs) /\ last <= next
    BY <1>a, <1>b, <1>e DEF Smaller
<1> HIDE DEF last
<1>4. /\ page \in Seq(Attempts) /\ Len(page) \in Nat /\ DOMAIN page = 1..Len(page)
      /\ \A i \in 1..Len(page) : done + i \in DOMAIN jobs /\ done + i <= last /\ page[i] = jobs[done + i]
      /\ \A k \in DOMAIN jobs : k > done /\ k <= last => k - done \in 1..Len(page)
    BY <1>1, <1>2, PageOf
<1> HIDE DEF page, list
<1>5. /\ Len(list) \in Nat /\ Len(list \o page) = Len(list) + Len(page)
      /\ DOMAIN (list \o page) = 1..(Len(list) + Len(page))
      /\ \A i \in 1..Len(list) : (list \o page)[i] = list[i]
      /\ \A i \in 1..Len(page) : (list \o page)[Len(list) + i] = page[i]
      /\ DOMAIN list = 1..Len(list)
    BY <1>1, <1>4
<1>6. Ids(list \o page) = I \cup P
    <2>1. I \cup P \subseteq Ids(list \o page)
        <3>1. ASSUME NEW i \in DOMAIN list PROVE list[i].id \in Ids(list \o page)
            BY <1>4, <1>5 DEF Ids
        <3>2. ASSUME NEW i \in DOMAIN page PROVE page[i].id \in Ids(list \o page)
            <4>1. Len(list) + i \in DOMAIN (list \o page)
                BY <1>4, <1>5
            <4> QED
                BY <1>4, <1>5, <4>1 DEF Ids
        <3> QED
            BY <3>1, <3>2 DEF Ids
    <2>2. ASSUME NEW i \in DOMAIN (list \o page) PROVE (list \o page)[i].id \in I \cup P
        <3>1. CASE i <= Len(list)
            BY <1>5, <3>1 DEF Ids
        <3>2. CASE i > Len(list)
            <4>1. i - Len(list) \in DOMAIN page /\ Len(list) + (i - Len(list)) = i
                BY <1>4, <1>5, <3>2
            <4>2. (list \o page)[i] = page[i - Len(list)]
                BY <1>4, <1>5, <4>1
            <4> QED
                BY <4>1, <4>2 DEF Ids
        <3> QED
            BY <1>4, <1>5, <3>1, <3>2
    <2> QED
        BY <2>1, <2>2 DEF Ids
<1>7. Cardinality(P) = Len(page)
    <2>1. ASSUME NEW i \in 1..Len(page), NEW k \in 1..Len(page), i < k
          PROVE  page[i].id # page[k].id
        <3>1. done + i < done + k
            BY <1>2, <1>4, <2>1
        <3>2. jobs[done + k].id < jobs[done + i].id
            BY <1>1, <1>4, <3>1
        <3>3. jobs[done + k].id \in Nat /\ jobs[done + i].id \in Nat
            BY <1>1, <1>4
        <3> QED
            BY <1>4, <3>2, <3>3
    <2>2. \A i, k \in 1..Len(page) : i # k => page[i].id # page[k].id
        <3> TAKE i, k \in 1..Len(page)
        <3>1. i < k \/ k < i \/ i = k
            BY <1>4
        <3> QED
            BY <2>1, <3>1
    <2> QED
        BY <1>4, <2>2, IdsOfList
<1>8. P \subseteq Behind
    <2>1. ASSUME NEW i \in DOMAIN page PROVE page[i].id \in Behind
        <3>1. done + i \in DOMAIN jobs /\ done + i > done /\ page[i] = jobs[done + i]
            BY <1>2, <1>4
        <3> QED
            BY <1>c, <3>1
    <2> QED
        BY <2>1 DEF Ids
<1>9. C \subseteq Behind /\ C \cap P = {}
    <2>1. CASE ~(listing'.page > 0)
        BY <2>1
    <2>2. CASE listing'.page > 0
        <3>1. listing'.page = listing.page + 1 /\ (listing'.page - 1) * PerPage = next
            <4>1. listing'.page = listing.page + 1 /\ listing'.page \in Nat
                BY <1>a, <1>3, <2>2
            <4> QED
                BY <1>d, <4>1
        <3>2. jobs' = jobs
            OBVIOUS
        <3>3. Behind' = {jobs[k].id : k \in {m \in DOMAIN jobs : m > next}}
            <4>1. Behind' = {jobs'[k].id : k \in {m \in DOMAIN jobs' : m > (listing'.page - 1) * PerPage}}
                BY Zenon DEF Behind
            <4> QED
                BY <3>1, <3>2, <4>1
        <3>4. ASSUME NEW k \in DOMAIN jobs, k > next
              PROVE  jobs[k].id \in Behind /\ jobs[k].id \notin P
            <4>1. k > done /\ k > last /\ k \in Nat
                <5>1. k \in Nat
                    BY <1>e, <1>1
                <5> QED
                    BY <1>2, <3>4, <5>1
            <4>2. ASSUME NEW i \in DOMAIN page PROVE page[i].id # jobs[k].id
                <5>1. done + i < k /\ done + i \in DOMAIN jobs /\ page[i] = jobs[done + i]
                    <6>1. done + i \in DOMAIN jobs /\ done + i <= last /\ page[i] = jobs[done + i]
                        BY <1>4
                    <6> QED
                        BY <1>2, <1>4, <4>1, <6>1
                <5>2. jobs[k].id < jobs[done + i].id /\ jobs[k].id \in Nat /\ jobs[done + i].id \in Nat
                    BY <1>1, <5>1
                <5> QED
                    BY <5>1, <5>2
            <4> QED
                BY <1>c, <4>1, <4>2 DEF Ids
        <3>5. C = Behind'
            BY <2>2
        <3> HIDE DEF C
        <3> QED
            BY <3>3, <3>4, <3>5
    <2> QED
        BY <2>1, <2>2
<1>10. IsFiniteSet(I) /\ IsFiniteSet(Behind) /\ Cardinality(I) \in Nat
    BY CountTypes DEF list
<1> HIDE DEF C, P, I
<1>11. /\ Cardinality(I \cup P) \in Nat /\ Cardinality(C \cap (I \cup P)) \in Nat
       /\ Cardinality(P) + Cardinality(C \cap (I \cup P)) + Cardinality(I)
            <= Cardinality(Behind \cap I) + Cardinality(I \cup P)
    BY <1>8, <1>9, <1>10, CountPage
<1>12. Twice' = Cardinality(C \cap (I \cup P))
    <2>1. Ids(listing.list)' = I \cup P
        BY <1>3, <1>6
    <2>2. CASE listing'.page > 0
        BY <2>1, <2>2 DEF Twice, C
    <2>3. CASE ~(listing'.page > 0)
        <3>1. C \cap (I \cup P) = {} /\ Twice' = 0
            BY <2>3 DEF Twice, C
        <3> QED
            BY <3>1, FS_EmptySet
    <2> QED
        BY <2>2, <2>3
<1>13. Twice = Cardinality(Behind \cap I) /\ Twice \in Nat
    BY <1>a, CountTypes DEF Twice, I, list
<1>14. Len(list) + Twice <= Cardinality(I) + listing.retried /\ listing.retried \in Nat
    BY CountTypes DEF CountInv, I, list
<1>15. Len(list) + Len(page) + Twice' <= Cardinality(I \cup P) + listing.retried
    <2> DEFINE p == Cardinality(P)
               b == Cardinality(Behind \cap I)
               c == Cardinality(C \cap (I \cup P))
               i == Cardinality(I)
               u == Cardinality(I \cup P)
               l == Len(list)
               r == listing.retried
    <2>1. /\ p \in Nat /\ b \in Nat /\ c \in Nat /\ i \in Nat /\ u \in Nat /\ l \in Nat /\ r \in Nat
          /\ l + b <= i + r /\ p + c + i <= b + u
        BY <1>4, <1>5, <1>7, <1>10, <1>11, <1>13, <1>14
    <2>2. Len(page) = p /\ Twice' = c
        BY <1>7, <1>12
    <2> HIDE DEF p, b, c, i, u, l, r
    <2>3. l + p + c <= u + r
        BY <2>1
    <2> QED
        BY <2>2, <2>3 DEF l, r, u
<1>16. Len(listing'.list) = Len(list) + Len(page) /\ Cardinality(Ids(listing'.list)) = Cardinality(I \cup P)
    BY <1>3, <1>5, <1>6
<1>17. CountInv' <=> Len(listing'.list) + Twice'
                          <= Cardinality(Ids(listing'.list)) + listing'.retried
    BY Zenon DEF CountInv
<1> QED
    BY <1>3, <1>15, <1>16, <1>17

\* A retry moves one attempt at most to a page still to come.
LEMMA RetryCounts ==
    ASSUME JobsOK, CountInv, NEW i \in DOMAIN jobs, Retry(i)
    PROVE  CountInv'
<1> DEFINE done == (listing.page - 1) * PerPage
           I == Ids(listing.list)
           x == IF done \in DOMAIN jobs THEN jobs[done].id ELSE lastJob + 1
<1>1. /\ listing'.page = listing.page /\ listing'.list = listing.list
      /\ listing'.retried = IF listing.page > 0 THEN listing.retried + 1 ELSE listing.retried
    BY DEF Retry, JobsOK, ListingInv
<1>2. /\ Len(listing.list) \in Nat /\ listing.retried \in Nat /\ Twice \in Nat
      /\ IsFiniteSet(Behind) /\ IsFiniteSet(I) /\ Cardinality(I) \in Nat
    BY CountTypes
<1>3. CountInv' <=> Len(listing'.list) + Twice' <= Cardinality(Ids(listing'.list)) + listing'.retried
    BY Zenon DEF CountInv
<1>4. CASE ~(listing.page > 0)
    <2>1. Twice' = Twice
        BY <1>1, <1>4 DEF Twice
    <2> QED
        BY <1>1, <1>3, <1>4, <2>1 DEF CountInv
<1>5. CASE listing.page > 0
    <2>1. Behind' = {jobs'[k].id : k \in {m \in DOMAIN jobs' : m > done}}
        BY <1>1 DEF Behind
    <2>2. Behind = {jobs[k].id : k \in {m \in DOMAIN jobs : m > done}}
        BY DEF Behind
    <2>3. done \in Nat
        <3>1. listing.page \in Nat \ {0} /\ PerPage \in Nat \ {0}
            BY <1>5, PerPageAssumption DEF JobsOK, ListingInv
        <3> QED
            BY <3>1, PageEnds
    <2>4. lastJob \in Nat /\ lastJob + 1 \notin I
        <3>1. lastJob \in Nat /\ \A k \in DOMAIN listing.list : listing.list[k].id \in 1..lastJob
            BY DEF JobsOK, JobsInv, ListingInv
        <3> QED
            BY <3>1 DEF Ids
    <2> HIDE DEF done, I
    <2>5. ASSUME NEW k \in DOMAIN jobs', k > done, jobs'[k].id \in I
          PROVE  jobs'[k].id \in Behind \/ jobs'[k].id = x
        <3>1. k # 1
            <4>1. jobs'[1].id = lastJob + 1
                <5>1. jobs'[1] = [id |-> lastJob + 1, name |-> jobs[i].name, run |-> NotRun]
                    BY RetryShifts DEF JobsOK
                <5> QED
                    BY <5>1
            <4> QED
                BY <2>4, <2>5, <4>1
        <3>2. PICK m \in DOMAIN jobs : m = (IF k <= i THEN k - 1 ELSE k) /\ jobs'[k] = jobs[m]
            BY <3>1, RetryFrom DEF JobsOK
        <3>3. k \in Nat /\ m \in Nat
            <4>1. jobs \in Seq(Attempts) /\ jobs' \in Seq(Attempts)
                BY RetryShifts DEF JobsOK, JobsInv
            <4> QED
                BY <4>1
        <3>4. m > done \/ m = done
            BY <2>3, <2>5, <3>2, <3>3
        <3> QED
            BY <2>2, <3>2, <3>4
    <2>6. Behind' \cap I \subseteq (Behind \cap I) \cup {x}
        BY <2>1, <2>5
    <2> HIDE DEF x
    <2>7. IsFiniteSet(Behind \cap I)
        BY <1>2, FS_Intersection DEF I
    <2>8. /\ IsFiniteSet((Behind \cap I) \cup {x}) /\ Cardinality(Behind \cap I) \in Nat
          /\ Cardinality((Behind \cap I) \cup {x}) <= Cardinality(Behind \cap I) + 1
        <3>1. Cardinality(Behind \cap I) \in Nat
            BY <2>7, FS_CardinalityType
        <3>2. /\ IsFiniteSet((Behind \cap I) \cup {x})
              /\ \/ Cardinality((Behind \cap I) \cup {x}) = Cardinality(Behind \cap I)
                 \/ Cardinality((Behind \cap I) \cup {x}) = Cardinality(Behind \cap I) + 1
            BY <2>7, FS_AddElement
        <3> QED
            BY <3>1, <3>2
    <2>9. Cardinality(Behind' \cap I) \in Nat /\ Cardinality(Behind' \cap I) <= Cardinality(Behind \cap I) + 1
        <3>1. /\ IsFiniteSet(Behind' \cap I)
              /\ Cardinality(Behind' \cap I) <= Cardinality((Behind \cap I) \cup {x})
            BY <2>6, <2>8, FS_Subset
        <3>2. Cardinality(Behind' \cap I) \in Nat /\ Cardinality((Behind \cap I) \cup {x}) \in Nat
            BY <2>8, <3>1, FS_CardinalityType
        <3> QED
            BY <2>8, <3>1, <3>2
    <2>10. Twice' = Cardinality(Behind' \cap I) /\ Twice = Cardinality(Behind \cap I)
        BY <1>1, <1>5 DEF Twice, I
    <2>11. Len(listing.list) + Twice <= Cardinality(I) + listing.retried
        BY DEF CountInv, I
    <2>12. Len(listing.list) + Twice' <= Cardinality(I) + (listing.retried + 1)
        BY <1>2, <2>9, <2>10, <2>11 DEF I
    <2> QED
        BY <1>1, <1>3, <1>5, <2>12 DEF I
<1> QED
    BY <1>4, <1>5

\* A run of a retried job changes no ID.
LEMMA RetryEndsCounts ==
    ASSUME JobsOK, CountInv, NEW i \in DOMAIN jobs, RetryEnds(i)
    PROVE  CountInv'
<1>1. PICK run : jobs' = [jobs EXCEPT ![i].run = run]
    BY DEF RetryEnds
<1>2. jobs \in Seq(Attempts) /\ listing' = listing
    BY DEF JobsOK, JobsInv, RetryEnds
<1>3. DOMAIN jobs' = DOMAIN jobs /\ \A k \in DOMAIN jobs : jobs'[k].id = jobs[k].id
    BY <1>1, <1>2 DEF Attempts
<1>4. Behind' = Behind
    BY <1>2, <1>3 DEF Behind
<1>5. Twice' = Twice
    BY <1>2, <1>4 DEF Twice
<1> QED
    BY <1>2, <1>5 DEF CountInv

LEMMA CountStep ==
    ASSUME JobsOK, CountInv, [Next]_vars
    PROVE  CountInv'
<1>1. CASE UNCHANGED jobVars
    <2>1. jobs' = jobs /\ listing' = listing
        BY <1>1 DEF jobVars
    <2>2. Behind' = Behind
        BY <2>1 DEF Behind
    <2>3. Twice' = Twice
        BY <2>1, <2>2 DEF Twice
    <2> QED
        BY <2>1, <2>3 DEF CountInv
<1>2. CASE UNCHANGED <<jobs, lastJob>> /\ StartListing
    BY <1>2, StartCounts
<1>3. CASE UNCHANGED <<jobs, lastJob>> /\ ListPage
    BY <1>3, PageCounts
<1>4. CASE \E i \in DOMAIN jobs : Retry(i)
    BY <1>4, RetryCounts
<1>5. CASE \E i \in DOMAIN jobs : RetryEnds(i)
    BY <1>5, RetryEndsCounts
<1> QED
    BY <1>1, <1>2, <1>3, <1>4, <1>5, JobSteps DEF JobsOK

\* Nothing is listed at first.
LEMMA CountStart ==
    ASSUME Init
    PROVE  CountInv
<1>1. listing.page = 0 /\ listing.list = <<>> /\ listing.retried = 0
    BY DEF Init, JobsInit
<1>2. Ids(listing.list) = {} /\ Len(listing.list) = 0 /\ Twice = 0
    BY <1>1 DEF Ids, Twice
<1>3. 0 + 0 <= 0 + 0 /\ Cardinality({}) = 0
    BY FS_EmptySet
<1> QED
    BY <1>1, <1>2, <1>3, Zenon DEF CountInv

-----------------------------------------------------------------------------
(* Sums *)

\* Sums, one for each u, of what the first n places of a sequence add
Sums(n, U, share) ==
    \E G \in [0..n -> [U -> Nat]] :
        /\ \A u \in U : G[0][u] = 0
        /\ \A m \in 1..n : \A u \in U : G[m][u] = G[m - 1][u] + share[<<m, u>>]

LEMMA SumsAlong ==
    ASSUME NEW n \in Nat, NEW U, NEW share \in [(1..n) \X U -> Nat]
    PROVE  Sums(n, U, share)
<1> DEFINE D == [U -> Nat]
           zero == [u \in U |-> 0]
           step == [p \in (1..n) \X D |-> [u \in U |-> p[2][u] + share[<<p[1], u>>]]]
<1>1. zero \in D /\ step \in [(1..n) \X D -> D]
    <2>1. ASSUME NEW p \in (1..n) \X D
          PROVE  [u \in U |-> p[2][u] + share[<<p[1], u>>]] \in D
        <3>1. p[1] \in 1..n /\ p[2] \in D
            OBVIOUS
        <3>2. \A u \in U : p[2][u] \in Nat /\ share[<<p[1], u>>] \in Nat
            BY <3>1
        <3>3. \A u \in U : p[2][u] + share[<<p[1], u>>] \in Nat
            BY <3>2
        <3> QED
            BY <3>3
    <2>2. zero \in D
        OBVIOUS
    <2> QED
        BY <2>1, <2>2
<1>2. \A m \in 1..n : \A d \in D : step[<<m, d>>] = [u \in U |-> d[u] + share[<<m, u>>]]
    OBVIOUS
<1>3. \A u \in U : zero[u] = 0
    OBVIOUS
<1> HIDE DEF D, zero, step
<1>4. PICK G \in [0..n -> D] : G[0] = zero /\ \A m \in 1..n : G[m] = step[<<m, G[m - 1]>>]
    <2>1. Iterates(D, zero, n, step)
        BY <1>1, Iterating
    <2> QED
        BY <2>1 DEF Iterates
<1>5. ASSUME NEW m \in 1..n, NEW u \in U PROVE G[m][u] = G[m - 1][u] + share[<<m, u>>]
    <2>1. m - 1 \in 0..n
        OBVIOUS
    <2>2. G[m - 1] \in D /\ G[m] = step[<<m, G[m - 1]>>]
        BY <1>4, <2>1
    <2>3. G[m] = [z \in U |-> G[m - 1][z] + share[<<m, z>>]]
        BY <1>2, <2>2, Zenon
    <2> QED
        BY <2>3
<1> QED
    BY <1>3, <1>4, <1>5 DEF D, Sums

\* A sum along a sequence whose members differ, of those in a set: nothing of
\* the empty set, and each member of a set adds its value.
SumsUp(G, n, x, S, v) ==
    /\ G \in [0..n -> [SUBSET S -> Nat]]
    /\ \A s \in SUBSET S : G[0][s] = 0
    /\ \A m \in 1..n : \A s \in SUBSET S :
          G[m][s] = G[m - 1][s] + (IF x[m] \in s THEN v[x[m]] ELSE 0)
    /\ G[n][{}] = 0
    /\ \A s \in SUBSET S : \A y \in s : G[n][s] = v[y] + G[n][s \ {y}]

LEMMA SumAlong ==
    ASSUME NEW X, NEW n \in Nat, NEW x \in [1..n -> X],
           \A i, k \in 1..n : i # k => x[i] # x[k],
           NEW S, \A s \in S : \E i \in 1..n : x[i] = s, NEW v \in [S -> Nat]
    PROVE  \E G : SumsUp(G, n, x, S, v)
<1> DEFINE U == SUBSET S
           Share(m, s) == IF x[m] \in s THEN v[x[m]] ELSE 0
           share == [p \in (1..n) \X U |-> Share(p[1], p[2])]
<1>1. \A m \in 1..n : \A s \in SUBSET S : Share(m, s) \in Nat
    OBVIOUS
<1> HIDE DEF Share
<1>2. /\ share \in [(1..n) \X U -> Nat]
      /\ \A m \in 1..n : \A s \in U : share[<<m, s>>] = Share(m, s)
    <2>1. ASSUME NEW p \in (1..n) \X U PROVE Share(p[1], p[2]) \in Nat
        <3>1. p[1] \in 1..n /\ p[2] \in SUBSET S
            OBVIOUS
        <3> QED
            BY <1>1, <3>1
    <2> QED
        BY <2>1
<1> HIDE DEF U, share
<1>3. PICK G \in [0..n -> [U -> Nat]] :
         /\ \A s \in U : G[0][s] = 0
         /\ \A m \in 1..n : \A s \in U : G[m][s] = G[m - 1][s] + share[<<m, s>>]
    <2>1. Sums(n, U, share)
        BY <1>2, SumsAlong
    <2> QED
        BY <2>1 DEF Sums
<1>4. G \in [0..n -> [SUBSET S -> Nat]]
    BY <1>3 DEF U
<1>6. ASSUME NEW m \in 1..n, NEW s \in SUBSET S PROVE G[m][s] = G[m - 1][s] + Share(m, s)
    <2>1. s \in U
        BY DEF U
    <2>2. share[<<m, s>>] = Share(m, s)
        BY <1>2, <2>1, Zenon
    <2>3. G[m][s] = G[m - 1][s] + share[<<m, s>>]
        BY <1>3, <2>1
    <2> QED
        BY <2>2, <2>3
<1>7. \A s \in SUBSET S : G[0][s] = 0
    BY <1>3 DEF U
<1>8. \A m \in 0..n : \A s \in SUBSET S : G[m][s] \in Nat
    BY <1>4
<1>9. G[n][{}] = 0
    <2> DEFINE T == {m \in Nat : m <= n => G[m][{}] = 0}
    <2>1. 0 \in T
        BY <1>7
    <2>2. ASSUME NEW m \in Nat, m \in T PROVE m + 1 \in T
        <3> SUFFICES ASSUME m + 1 <= n PROVE G[m + 1][{}] = 0
            OBVIOUS
        <3>1. m + 1 \in 1..n /\ (m + 1) - 1 = m /\ m <= n
            OBVIOUS
        <3>2. G[m + 1][{}] = G[m][{}] + Share(m + 1, {})
            BY <1>6, <3>1
        <3>3. Share(m + 1, {}) = 0
            BY DEF Share
        <3> QED
            BY <2>2, <3>1, <3>2, <3>3
    <2> HIDE DEF T
    <2>3. n \in T
        BY <2>1, <2>2, Counting
    <2> QED
        BY <2>3 DEF T
<1>10. ASSUME NEW s \in SUBSET S, NEW y \in s PROVE G[n][s] = v[y] + G[n][s \ {y}]
    <2>1. PICK i \in 1..n : x[i] = y
        OBVIOUS
    <2> DEFINE z == s \ {y}
               So(m) == IF i <= m THEN v[y] ELSE 0
               T == {m \in Nat : m <= n => G[m][s] = G[m][z] + So(m)}
    <2>2. z \in SUBSET S /\ v[y] \in Nat
        OBVIOUS
    <2>3. ASSUME NEW m \in 1..n
          PROVE  IF m = i THEN Share(m, s) = v[y] /\ Share(m, z) = 0 ELSE Share(m, s) = Share(m, z)
        <3>1. CASE m = i
            BY <2>1, <3>1 DEF Share
        <3>2. CASE m # i
            <4>1. x[m] # y
                BY <2>1, <3>2
            <4>2. x[m] \in s <=> x[m] \in z
                BY <4>1
            <4> QED
                BY <3>2, <4>2 DEF Share
        <3> QED
            BY <3>1, <3>2
    <2> HIDE DEF z
    <2>4. 0 \in T
        <3>1. So(0) = 0
            BY <2>1
        <3> QED
            <4>1. G[0][s] = 0 /\ G[0][z] = 0
                BY <1>7, <2>2
            <4> HIDE DEF So
            <4>2. G[0][s] = G[0][z] + So(0)
                BY <3>1, <4>1
            <4> QED
                BY <4>2
    <2>5. ASSUME NEW m \in Nat, m \in T PROVE m + 1 \in T
        <3> SUFFICES ASSUME m + 1 <= n PROVE G[m + 1][s] = G[m + 1][z] + So(m + 1)
            OBVIOUS
        <3>1. m + 1 \in 1..n /\ (m + 1) - 1 = m /\ m <= n /\ m \in 0..n
            OBVIOUS
        <3>2. /\ G[m + 1][s] = G[m][s] + Share(m + 1, s)
              /\ G[m + 1][z] = G[m][z] + Share(m + 1, z)
            BY <1>6, <2>2, <3>1
        <3>3. G[m][s] = G[m][z] + So(m)
            BY <2>5, <3>1
        <3>4. /\ G[m][s] \in Nat /\ G[m][z] \in Nat
              /\ Share(m + 1, s) \in Nat /\ Share(m + 1, z) \in Nat
            BY <1>1, <1>8, <2>2, <3>1
        <3>5. CASE m + 1 = i
            <4>1. So(m) = 0 /\ So(m + 1) = v[y]
                BY <3>5
            <4>2. Share(m + 1, s) = v[y] /\ Share(m + 1, z) = 0
                BY <2>3, <3>1, <3>5
            <4> HIDE DEF So
            <4> QED
                BY <2>2, <3>2, <3>3, <3>4, <4>1, <4>2
        <3>6. CASE m + 1 # i
            <4>1. So(m + 1) = So(m) /\ So(m) \in Nat
                BY <2>1, <2>2, <3>6
            <4>2. Share(m + 1, s) = Share(m + 1, z)
                BY <2>3, <3>1, <3>6
            <4> HIDE DEF So
            <4> QED
                BY <3>2, <3>3, <3>4, <4>1, <4>2
        <3> QED
            BY <3>5, <3>6
    <2> HIDE DEF T
    <2>6. n \in T
        BY <2>4, <2>5, Counting
    <2>7. So(n) = v[y] /\ G[n][z] \in Nat
        BY <1>8, <2>1, <2>2
    <2> HIDE DEF So
    <2>8. G[n][s] = G[n][z] + v[y]
        BY <2>6, <2>7 DEF T
    <2> QED
        BY <2>2, <2>7, <2>8 DEF z
<1> QED
    <2>1. SumsUp(G, n, x, S, v)
        BY <1>4, <1>6, <1>7, <1>9, <1>10 DEF Share, SumsUp
    <2> QED
        BY <2>1, Zenon

\* The sum over a finite set of rows, whichever way its members are chosen
LEMMA SumOfSet ==
    ASSUME NEW S, IsFiniteSet(S), NEW H \in [SUBSET S -> Nat], H[{}] = 0,
           \A s \in SUBSET S : \A y \in s : H[s] = y.usage.peak + H[s \ {y}]
    PROVE  MapThenSumSet(LAMBDA r : r.usage.peak, S) = H[S]
<1> DEFINE Is(h) == h = [s \in SUBSET S |->
                            IF s = {} THEN 0
                            ELSE LET y == CHOOSE z \in s : TRUE IN y.usage.peak + h[s \ {y}]]
           h == CHOOSE g : Is(g)
<1>1. MapThenSumSet(LAMBDA r : r.usage.peak, S) = h[S]
    BY Zenon DEF MapThenSumSet, MapThenFoldSet
<1>2. Is(H)
    <2>1. ASSUME NEW s \in SUBSET S
          PROVE  H[s] = IF s = {} THEN 0
                        ELSE LET y == CHOOSE z \in s : TRUE IN y.usage.peak + H[s \ {y}]
        <3>1. CASE s # {}
            <4>1. (CHOOSE z \in s : TRUE) \in s
                BY <3>1
            <4> QED
                BY <3>1, <4>1
        <3> QED
            BY <3>1
    <2>2. H = [s \in SUBSET S |-> H[s]]
        OBVIOUS
    <2> QED
        BY <2>1, <2>2
<1>3. Is(h)
    <2>1. \E g : Is(g)
        BY <1>2
    <2> HIDE DEF Is
    <2> QED
        BY <2>1, Zenon
<1> HIDE DEF h
<1>4. \A s \in SUBSET S :
         h[s] = IF s = {} THEN 0 ELSE LET y == CHOOSE z \in s : TRUE IN y.usage.peak + h[s \ {y}]
    <2> DEFINE F == [s \in SUBSET S |->
                        IF s = {} THEN 0
                        ELSE LET y == CHOOSE z \in s : TRUE IN y.usage.peak + h[s \ {y}]]
    <2>1. h = F
        BY <1>3, Zenon
    <2>2. \A s \in SUBSET S :
             F[s] = IF s = {} THEN 0
                    ELSE LET y == CHOOSE z \in s : TRUE IN y.usage.peak + h[s \ {y}]
        OBVIOUS
    <2> HIDE DEF F
    <2> QED
        BY <2>1, <2>2
<1> HIDE DEF Is
<1> DEFINE T == {n \in Nat : \A s \in SUBSET S : Cardinality(s) = n => h[s] = H[s]}
<1>5. 0 \in T
    <2>1. ASSUME NEW s \in SUBSET S, Cardinality(s) = 0 PROVE h[s] = H[s]
        <3>1. s = {}
            BY <2>1, FS_Subset, FS_EmptySet
        <3> QED
            BY <1>4, <3>1
    <2> QED
        BY <2>1
<1>6. ASSUME NEW n \in Nat, n \in T PROVE n + 1 \in T
    <2>1. ASSUME NEW s \in SUBSET S, Cardinality(s) = n + 1 PROVE h[s] = H[s]
        <3>1. IsFiniteSet(s) /\ Cardinality(s) # 0
            BY <2>1, FS_Subset
        <3>2. s # {}
            BY <3>1, FS_EmptySet
        <3> DEFINE y == CHOOSE z \in s : TRUE
        <3>3. y \in s
            BY <3>2
        <3>4. h[s] = y.usage.peak + h[s \ {y}]
            BY <1>4, <3>2
        <3> HIDE DEF y
        <3>5. Cardinality(s \ {y}) = n
            <4>1. Cardinality(s \ {y}) = Cardinality(s) - 1
                BY <3>1, <3>3, FS_RemoveElement
            <4> QED
                BY <2>1, <4>1
        <3>6. h[s \ {y}] = H[s \ {y}]
            BY <1>6, <3>5
        <3>7. H[s] = y.usage.peak + H[s \ {y}]
            BY <3>3
        <3> QED
            BY <3>4, <3>6, <3>7
    <2> QED
        BY <2>1
<1> HIDE DEF T
<1>7. Cardinality(S) \in T
    <2>1. Cardinality(S) \in Nat
        BY FS_CardinalityType
    <2> QED
        BY <1>5, <1>6, <2>1, Counting
<1>8. h[S] = H[S]
    BY <1>7 DEF T
<1> QED
    BY <1>1, <1>8

\* totals adds one row after the other.
TotalsAre(g, n, rows) ==
    /\ g[0] = [memory |-> 0, peak |-> 0]
    /\ \A m \in 1..n : g[m] = AddUsage(g[m - 1], rows[m])
    /\ Totals(rows) = g[n]

LEMMA TotalsSteps ==
    ASSUME NEW rows, NEW n \in Nat, Len(rows) = n,
           \A i \in 1..n : rows[i].usage # NoUsage => rows[i].usage.peak \in Nat
    PROVE  \E g : TotalsAre(g, n, rows)
<1> DEFINE D == [memory : Nat, peak : Nat]
           zero == [memory |-> 0, peak |-> 0]
           step == [p \in (1..n) \X D |-> AddUsage(p[2], rows[p[1]])]
           Is(g) == g = [m \in 0..n |-> IF m = 0 THEN zero ELSE AddUsage(g[m - 1], rows[m])]
<1>1. zero \in D /\ step \in [(1..n) \X D -> D]
    <2>1. ASSUME NEW i \in 1..n, NEW t \in D PROVE AddUsage(t, rows[i]) \in D
        BY DEF AddUsage
    <2> HIDE DEF D
    <2>2. ASSUME NEW p \in (1..n) \X D PROVE AddUsage(p[2], rows[p[1]]) \in D
        <3>1. p[1] \in 1..n /\ p[2] \in D
            OBVIOUS
        <3> QED
            BY <2>1, <3>1
    <2>3. zero \in D
        BY DEF D
    <2> QED
        BY <2>2, <2>3
<1>2. \A m \in 1..n : \A d \in D : step[<<m, d>>] = AddUsage(d, rows[m])
    OBVIOUS
<1> HIDE DEF D, zero, step
<1>3. PICK h \in [0..n -> D] : h[0] = zero /\ \A m \in 1..n : h[m] = step[<<m, h[m - 1]>>]
    <2>1. Iterates(D, zero, n, step)
        BY <1>1, Iterating
    <2> QED
        BY <2>1 DEF Iterates
<1>4. Is(h)
    <2>1. ASSUME NEW m \in 0..n PROVE h[m] = IF m = 0 THEN zero ELSE AddUsage(h[m - 1], rows[m])
        <3>1. CASE m = 0
            BY <1>3, <3>1
        <3>2. CASE m # 0
            <4>1. m \in 1..n /\ m - 1 \in 0..n
                BY <3>2
            <4>2. h[m - 1] \in D
                BY <1>3, <4>1
            <4> QED
                BY <1>2, <1>3, <3>2, <4>1, <4>2
        <3> QED
            BY <3>1, <3>2
    <2>2. h = [m \in 0..n |-> h[m]]
        BY <1>3
    <2> QED
        BY <2>1, <2>2
<1> DEFINE f == CHOOSE g : Is(g)
<1>5. Totals(rows) = f[n]
    BY Zenon DEF Totals, zero
<1>6. Is(f)
    BY <1>4, Zenon
<1> HIDE DEF f
<1> DEFINE F == [m \in 0..n |-> IF m = 0 THEN zero ELSE AddUsage(f[m - 1], rows[m])]
<1>7. F[0] = zero /\ \A m \in 1..n : F[m] = AddUsage(f[m - 1], rows[m])
    OBVIOUS
<1>8. f = F
    BY <1>6, Zenon
<1> HIDE DEF F
<1>9. f[0] = zero /\ \A m \in 1..n : f[m] = AddUsage(f[m - 1], rows[m])
    BY <1>7, <1>8
<1> QED
    BY <1>5, <1>9, Zenon DEF zero, TotalsAre

\* The memory of the measured among rows, each counted once.
PeakSum(rows) == MapThenSumSet(LAMBDA r : r.usage.peak, {r \in Range(rows) : r.usage # NoUsage})

\* The total of a report is the sum over the set of rows with usage, if no two
\* are the same row; the rows of the total need only have the same usage.
LEMMA TotalIsSum ==
    ASSUME NEW X, NEW n \in Nat, NEW x \in [1..n -> X], \A i, k \in 1..n : i # k => x[i] # x[k],
           \A i \in 1..n : x[i].usage # NoUsage => x[i].usage.peak \in Nat,
           NEW rows, Len(rows) = n, \A i \in 1..n : rows[i].usage = x[i].usage
    PROVE  Totals(rows).memory = PeakSum(x)
<1> DEFINE S == {r \in Range(x) : r.usage # NoUsage}
           v == [r \in S |-> r.usage.peak]
<1>1. \A s \in S : \E i \in 1..n : x[i] = s
    BY DEF Range
<1>2. v \in [S -> Nat]
    <2>1. ASSUME NEW r \in S PROVE r.usage.peak \in Nat
        <3>1. PICK i \in 1..n : x[i] = r
            BY <1>1
        <3> QED
            BY <3>1
    <2> QED
        BY <2>1
<1>3. \A r \in S : v[r] = r.usage.peak
    OBVIOUS
<1>4. \A i \in 1..n : x[i] \in S <=> x[i].usage # NoUsage
    BY DEF Range
<1>5. IsFiniteSet(S)
    <2>1. x \in Surjection(1..n, Range(x))
        BY DEF Surjection, Range
    <2>2. IsFiniteSet(1..n)
        BY FS_Interval
    <2>3. IsFiniteSet(Range(x))
        BY <2>1, <2>2, FS_Surjection
    <2> QED
        BY <2>3, FS_Subset
<1> HIDE DEF S, v
<1>a. PICK G : SumsUp(G, n, x, S, v)
    BY <1>1, <1>2, SumAlong
<1>6. /\ G \in [0..n -> [SUBSET S -> Nat]]
      /\ \A s \in SUBSET S : G[0][s] = 0
      /\ \A m \in 1..n : \A s \in SUBSET S :
            G[m][s] = G[m - 1][s] + (IF x[m] \in s THEN v[x[m]] ELSE 0)
    BY <1>a DEF SumsUp
<1>b. /\ G[n][{}] = 0
      /\ \A s \in SUBSET S : \A y \in s : G[n][s] = v[y] + G[n][s \ {y}]
    BY <1>a DEF SumsUp
<1>7. MapThenSumSet(LAMBDA r : r.usage.peak, S) = G[n][S]
    <2> DEFINE H == G[n]
    <2>1. H \in [SUBSET S -> Nat] /\ H[{}] = 0
        <3>1. n \in 0..n
            OBVIOUS
        <3> QED
            BY <1>6, <1>b, <3>1
    <2>2. ASSUME NEW s \in SUBSET S, NEW y \in s PROVE H[s] = y.usage.peak + H[s \ {y}]
        <3>1. v[y] = y.usage.peak
            BY <1>3
        <3> QED
            BY <1>b, <3>1
    <2> HIDE DEF H
    <2>3. MapThenSumSet(LAMBDA r : r.usage.peak, S) = H[S]
        BY <1>5, <2>1, <2>2, SumOfSet
    <2> QED
        BY <2>3 DEF H
<1>8. PICK g : TotalsAre(g, n, rows)
    <2>1. \A i \in 1..n : rows[i].usage # NoUsage => rows[i].usage.peak \in Nat
        OBVIOUS
    <2> QED
        BY <2>1, TotalsSteps
<1> DEFINE T == {m \in Nat : m <= n => g[m].memory = G[m][S]}
<1>9. 0 \in T
    BY <1>6, <1>8 DEF TotalsAre
<1>10. ASSUME NEW m \in Nat, m \in T PROVE m + 1 \in T
    <2> SUFFICES ASSUME m + 1 <= n PROVE g[m + 1].memory = G[m + 1][S]
        OBVIOUS
    <2> DEFINE k == m + 1
    <2>1. k \in 1..n /\ k - 1 = m /\ m <= n
        OBVIOUS
    <2>2. g[k] = AddUsage(g[m], rows[k]) /\ g[m].memory = G[m][S]
        BY <1>8, <1>10, <2>1 DEF TotalsAre
    <2>3. G[k][S] = G[m][S] + (IF x[k] \in S THEN v[x[k]] ELSE 0)
        BY <1>6, <2>1
    <2>4. G[m][S] \in Nat
        <3>1. m \in 0..n
            BY <2>1
        <3> QED
            BY <1>6, <3>1
    <2> HIDE DEF k
    <2>5. CASE x[k] \in S
        <3>1. rows[k].usage # NoUsage /\ v[x[k]] = rows[k].usage.peak
            BY <1>3, <1>4, <2>1, <2>5
        <3>2. g[k].memory = g[m].memory + rows[k].usage.peak
            BY <2>2, <3>1 DEF AddUsage
        <3> QED
            BY <2>2, <2>3, <2>5, <3>1, <3>2 DEF k
    <2>6. CASE x[k] \notin S
        <3>1. rows[k].usage = NoUsage
            BY <1>4, <2>1, <2>6
        <3>2. g[k] = g[m]
            BY <2>2, <3>1 DEF AddUsage
        <3> QED
            BY <2>2, <2>3, <2>4, <2>6, <3>2 DEF k
    <2> QED
        BY <2>5, <2>6
<1> HIDE DEF T
<1>11. n \in T
    BY <1>9, <1>10, Counting
<1>12. MapThenSumSet(LAMBDA r : r.usage.peak, S) = PeakSum(x)
    BY Zenon DEF S, PeakSum
<1> QED
    BY <1>7, <1>8, <1>11, <1>12 DEF T, TotalsAre

-----------------------------------------------------------------------------
(* The tasks *)

\* A report takes the jobs in the order of the list, one row for each.
InOrder(rows, todo, list) ==
    /\ Len(rows) + Len(todo) = Len(list)
    /\ \A i \in DOMAIN rows : rows[i].id = list[i].id
    /\ \A i \in DOMAIN todo : todo[i] = list[Len(rows) + i]
OrderInv ==
    /\ task.step = "trace" => Advising
    /\ task.kind \in {"report", "run"} /\ task.step = "measure" =>
          listing.page = 0 /\ InOrder(task.rows, task.todo, listing.list)

\* All of the jobs listed are to do, and none is done.
LEMMA OrderStart ==
    ASSUME NEW list \in Seq(Attempts)
    PROVE  InOrder(<<>>, list, list)
BY DEF InOrder

LEMMA PlaceMoves ==
    ASSUME NEW r \in Nat, NEW t \in Nat \ {0}, NEW i \in 1..(t - 1)
    PROVE  i + 1 \in 1..t /\ r + (i + 1) = (r + 1) + i
OBVIOUS

\* The first of the jobs to do becomes the next row.
LEMMA OrderNext ==
    ASSUME NEW rows \in Seq(Rows), NEW todo \in Seq(Attempts), todo # <<>>, NEW list,
           InOrder(rows, todo, list), NEW row, row.id = Head(todo).id
    PROVE  InOrder(Append(rows, row), Tail(todo), list)
<1> DEFINE more == Append(rows, row)
           less == Tail(todo)
<1>1. /\ Len(rows) \in Nat /\ Len(todo) \in Nat \ {0} /\ 1 \in DOMAIN todo
      /\ DOMAIN rows = 1..Len(rows) /\ DOMAIN todo = 1..Len(todo)
    OBVIOUS
<1>2. /\ Len(more) = Len(rows) + 1 /\ DOMAIN more = 1..(Len(rows) + 1)
      /\ more[Len(rows) + 1] = row /\ \A i \in 1..Len(rows) : more[i] = rows[i]
    OBVIOUS
<1>3. /\ Len(less) = Len(todo) - 1 /\ DOMAIN less = 1..(Len(todo) - 1)
      /\ \A i \in 1..(Len(todo) - 1) : less[i] = todo[i + 1]
    OBVIOUS
<1>4. row.id = list[Len(rows) + 1].id
    BY <1>1 DEF InOrder
<1> HIDE DEF more, less
<1>a. /\ Len(rows) \in Nat /\ Len(todo) \in Nat \ {0} /\ Len(more) = Len(rows) + 1
      /\ Len(less) = Len(todo) - 1
    BY <1>1, <1>2, <1>3, Zenon
<1>5. Len(more) + Len(less) = Len(list)
    <2>1. Len(rows) + Len(todo) = Len(list)
        BY Zenon DEF InOrder
    <2> QED
        BY <1>a, <2>1
<1>6. ASSUME NEW i \in DOMAIN more PROVE more[i].id = list[i].id
    <2>1. i \in 1..Len(rows) \/ i = Len(rows) + 1
        BY <1>1, <1>2
    <2> QED
        BY <1>1, <1>2, <1>4, <2>1 DEF InOrder
<1>7. ASSUME NEW i \in DOMAIN less PROVE less[i] = list[Len(more) + i]
    <2>1. /\ i \in 1..(Len(todo) - 1) /\ i + 1 \in DOMAIN todo
          /\ Len(rows) + (i + 1) = Len(more) + i
        <3>1. i \in 1..(Len(todo) - 1)
            BY <1>3, Zenon
        <3>2. i + 1 \in 1..Len(todo) /\ Len(rows) + (i + 1) = (Len(rows) + 1) + i
            BY <1>a, <3>1, PlaceMoves, Zenon
        <3> QED
            BY <1>1, <1>a, <3>1, <3>2, Zenon
    <2>2. todo[i + 1] = list[Len(rows) + (i + 1)]
        BY <2>1 DEF InOrder
    <2> QED
        BY <1>3, <2>1, <2>2
<1> QED
    BY <1>5, <1>6, <1>7 DEF InOrder, more, less

LEMMA OrderStep ==
    ASSUME JobsOK, TaskOK, OrderInv, [Next]_vars
    PROVE  OrderInv'
<1>0. /\ task.rows \in Seq(Rows) /\ task.todo \in Seq(Attempts)
      /\ listing.list \in Seq(Attempts)
    BY DEF TaskOK, TaskInv, TaskGood, Tasks, JobsOK, ListingInv
<1>a. /\ "report" # "job" /\ "run" # "job"
      /\ ~(task.kind \in {"report", "run"} /\ Advising)
    BY DEF Advising
<1>b. CASE task'.step \notin {"measure", "trace"}
    BY <1>b DEF OrderInv
<1>c. CASE task' = task /\ listing'.page = listing.page /\ listing'.list = listing.list
    BY <1>c DEF OrderInv, Advising
<1>1. ASSUME NEW t, Begin(t), Starts(t) PROVE task'.step \notin {"measure", "trace"}
    BY <1>1 DEF Begin, Starts
<1>2. CASE Expire \/ UNCHANGED vars
    BY <1>2, <1>c DEF Expire, vars, taskVars, jobVars
<1>3. CASE Retries /\ UNCHANGED taskVars
    <2>1. listing'.page = listing.page /\ listing'.list = listing.list
        BY <1>3 DEF Retries, Retry, RetryEnds, JobsOK, ListingInv
    <2> QED
        BY <1>3, <1>c, <2>1 DEF taskVars
<1>4. CASE Work
    <2>a. CASE task' = Idle
        BY <2>a, <1>b DEF Idle
    <2>1. CASE Authorize
        <3>1. task' = Idle \/ task'.step \in {"post", "list"}
            BY <2>1, AuthorizeMoves DEF Becomes
        <3> QED
            BY <3>1, <2>a, <1>b
    <2>2. CASE ListJobs
        <3>1. task.step = "list"
            BY <2>2 DEF ListJobs
        <3>2. CASE task' = task
            BY <3>1, <3>2, <1>b
        <3>3. CASE task'.step \in {"post", "resolve"}
            BY <3>3, <1>b
        <3>4. CASE /\ listing'.page = 0
                   /\ Becomes(task.kind, "measure", ChosenJobs, <<>>, <<>>, <<>>)
            <4>1. /\ task'.kind = task.kind /\ task'.step = "measure"
                  /\ task'.rows = <<>> /\ task'.todo = ChosenJobs
                BY <3>4 DEF Becomes
            <4>2. listing'.list \in Seq(Attempts)
                BY <2>2, PageAdds DEF ListJobs, JobsOK
            <4>3. task.kind \in {"report", "run"} => ChosenJobs = listing'.list
                BY DEF ChosenJobs, Chosen
            <4>4. task.kind \in {"report", "run"} => InOrder(task'.rows, task'.todo, listing'.list)
                BY <4>1, <4>2, <4>3, OrderStart
            <4> QED
                BY <3>4, <4>1, <4>4 DEF OrderInv
        <3> QED
            BY <2>2, <2>a, <3>2, <3>3, <3>4, ListJobsMoves DEF ListedTo, Becomes
    <2>3. CASE Measure
        <3>1. PICK outcome \in Outcomes(Head(task.todo)) :
                 \/ task' = Idle
                 \/ /\ Advising
                    /\ Becomes(task.kind, "measure", Tail(task.todo), task.rows, task.target,
                               task.charts)
                 \/ \E step \in {"trace", "measure"} :
                      /\ step = "trace" => Advising
                      /\ Becomes(task.kind, step, Tail(task.todo),
                                 Append(task.rows, Row(Head(task.todo), outcome)),
                                 task.target, task.charts)
            BY <2>3, MeasureMoves
        <3>2. task.step = "measure" /\ task.todo # <<>> /\ listing' = listing
            BY <2>3 DEF Measure, EndsJob, jobVars
        <3>3. CASE /\ Advising
                   /\ Becomes(task.kind, "measure", Tail(task.todo), task.rows, task.target,
                              task.charts)
            BY <1>a, <3>3 DEF OrderInv, Becomes, Advising
        <3>4. ASSUME NEW step \in {"trace", "measure"}, step = "trace" => Advising,
                     Becomes(task.kind, step, Tail(task.todo),
                             Append(task.rows, Row(Head(task.todo), outcome)),
                             task.target, task.charts)
              PROVE  OrderInv'
            <4> DEFINE row == Row(Head(task.todo), outcome)
            <4>1. /\ task'.kind = task.kind /\ task'.step = step
                  /\ task'.rows = Append(task.rows, row) /\ task'.todo = Tail(task.todo)
                BY <3>4 DEF Becomes
            <4>2. row.id = Head(task.todo).id
                BY DEF Row
            <4> HIDE DEF row
            <4>3. CASE task.kind \in {"report", "run"}
                <5>1. listing.page = 0 /\ InOrder(task.rows, task.todo, listing.list)
                    BY <3>2, <4>3 DEF OrderInv
                <5>2. InOrder(task'.rows, task'.todo, listing'.list)
                    BY <1>0, <3>2, <4>1, <4>2, <5>1, OrderNext
                <5> QED
                    BY <1>a, <3>2, <3>4, <4>1, <4>3, <5>1, <5>2 DEF OrderInv
            <4>4. CASE task.kind \notin {"report", "run"}
                BY <3>4, <4>1, <4>4 DEF OrderInv, Advising
            <4> QED
                BY <4>3, <4>4
        <3> QED
            BY <3>1, <2>a, <3>3, <3>4
    <2>4. CASE FetchTrace
        <3>1. task.step = "trace"
            BY <2>4 DEF FetchTrace
        <3>2. Advising
            BY <3>1 DEF OrderInv
        <3>3. task'.kind = task.kind /\ task'.step = "measure"
            BY <2>4, FetchTraceMoves DEF Becomes
        <3> QED
            BY <1>a, <3>2, <3>3 DEF OrderInv
    <2>5. CASE ResolveTarget
        <3>1. task.step = "resolve"
            BY <2>5 DEF ResolveTarget
        <3>2. task' = Idle \/ task'.step \notin {"measure", "trace"}
            BY <2>5, ResolveMoves DEF Becomes, ResolvedTo
        <3> QED
            BY <3>2, <2>a, <1>b
    <2>6. CASE ActiveSpan \/ QuerySeries \/ Upload
        <3>1. task'.step \notin {"measure", "trace"}
            BY <2>6, ActiveSpanMoves, QuerySeriesMoves, UploadMoves DEF Becomes
        <3> QED
            BY <3>1, <1>b
    <2>7. CASE PrintOut
        <3>1. task' = Idle \/ task'.step = "series"
            BY <2>7, PrintOutMoves DEF Becomes
        <3> QED
            BY <3>1, <2>a, <1>b
    <2> QED
        BY <1>4, <2>a, <2>1, <2>2, <2>3, <2>4, <2>5, <2>6, <2>7, WorkSteps
<1> QED
    BY <1>1, <1>2, <1>3, <1>4, <1>b, OtherSteps DEF JobsOK

-----------------------------------------------------------------------------
(* The report *)

\* A report says what was measured by the task that is at its end, and how many
\* jobs were retried while the list was read.
LEMMA ReportSteps ==
    ASSUME SaidShape(said), [Next]_vars, said'.what = "report"
    PROVE  \/ said' = said
           \/ /\ AllMeasured /\ task.kind \in {"report", "run", "job"}
              /\ said'.report = Body /\ said'.task = task /\ said'.retried = listing.retried
<1>a. ASSUME NEW what, NEW report, NEW advice, Say(what, report, advice)
      PROVE  /\ said'.what = what /\ said'.report = report /\ said'.task = task
             /\ said'.retried = listing.retried
    <2> DEFINE rendered == RenderAdvice(advice)
    <2>1. said' = [what |-> what, report |-> report, advice |-> rendered,
                   task |-> task, retried |-> listing.retried]
        BY <1>a DEF Say
    <2> HIDE DEF rendered
    <2> QED
        BY <2>1
<1>1. CASE Start
    BY <1>1 DEF Start, CommandLine, HandleNote, Begin
<1>2. CASE Expire \/ UNCHANGED vars \/ (Retries /\ UNCHANGED taskVars)
    BY <1>2 DEF Expire, vars, taskVars
<1>3. CASE PostReport
    <2>1. Say("report", Body, <<>>) /\ AllMeasured /\ task.kind = "report"
        BY <1>3 DEF PostReport
    <2> HIDE DEF Body
    <2> QED
        BY <1>a, <2>1
<1>4. CASE PrintOut
    <2>1. AllMeasured /\ task.kind \in Printed
        BY <1>4 DEF PrintOut
    <2>2. \/ Say("advice", Silence.report, AllAdvice)
          \/ ~Advising /\ Say("report", Body, <<>>)
        BY <1>4 DEF PrintOut
    <2>3. CASE Say("advice", Silence.report, AllAdvice)
        <3>1. said'.what = "advice"
            BY <1>a, <2>3
        <3> QED
            BY <3>1
    <2>4. CASE ~Advising /\ Say("report", Body, <<>>)
        <3>1. task.kind \in {"run", "job"}
            BY <2>1, <2>4 DEF Advising, Printed
        <3> HIDE DEF Body
        <3> QED
            BY <1>a, <2>1, <2>4, <3>1
    <2> QED
        BY <2>2, <2>3, <2>4
<1>5. CASE PrintCharts
    BY <1>5 DEF PrintCharts, SaidShape
<1>6. CASE Reply
    <2>1. \/ Say("advice", Silence.report, AllAdvice)
          \/ task.kind # "report" /\ Say(task.kind, Silence.report, <<>>)
        BY <1>6 DEF Reply
    <2>2. said'.what = "advice" \/ (task.kind # "report" /\ said'.what = task.kind)
        BY <1>a, <2>1
    <2> QED
        BY <2>2
<1>7. CASE Work
    BY <1>3, <1>4, <1>5, <1>6, <1>7, WorkSteps
<1> QED
    BY <1>1, <1>2, <1>7 DEF Next

\* At the end of a report there are as many rows as places in the list.
LEMMA RowsCounted ==
    ASSUME JobsOK, TaskOK, JobInv, CountInv, OrderInv,
           AllMeasured, task.kind \in {"report", "run", "job"}
    PROVE  /\ Len(task.rows) \in Nat /\ listing.retried \in Nat
           /\ Cardinality(Ids(task.rows)) \in Nat
           /\ Len(task.rows) <= Cardinality(Ids(task.rows)) + listing.retried
<1>1. /\ task.rows \in Seq(Rows) /\ task.todo = <<>> /\ task.step = "measure"
      /\ listing.list \in Seq(Attempts)
    BY DEF TaskOK, TaskInv, TaskGood, Tasks, AllMeasured, JobsOK, ListingInv
<1>2. /\ Len(task.rows) \in Nat /\ DOMAIN task.rows = 1..Len(task.rows)
      /\ Len(task.todo) = 0 /\ DOMAIN listing.list = 1..Len(listing.list)
    BY <1>1
<1>3. /\ listing.retried \in Nat /\ Len(listing.list) \in Nat
      /\ Cardinality(Ids(listing.list)) \in Nat
    BY CountTypes
<1>4. Cardinality(Ids(task.rows)) \in Nat
    BY <1>2, IdsOfList
<1>5. CASE task.kind = "job"
    <2>1. Len(task.rows) = 1
        BY <1>1, <1>2, <1>5 DEF JobInv, JobGood
    <2>2. \A i, k \in 1..1 : i # k => task.rows[i].id # task.rows[k].id
        OBVIOUS
    <2>3. 1 \in Nat /\ DOMAIN task.rows = 1..1
        BY <1>2, <2>1
    <2>4. Cardinality(Ids(task.rows)) = 1
        BY <2>2, <2>3, IdsOfList
    <2> QED
        BY <1>2, <1>3, <1>4, <2>1, <2>4
<1>6. CASE task.kind \in {"report", "run"}
    <2>1. listing.page = 0 /\ InOrder(task.rows, task.todo, listing.list)
        BY <1>1, <1>6 DEF OrderInv
    <2>2. Len(task.rows) = Len(listing.list)
        BY <1>2, <1>3, <2>1 DEF InOrder
    <2>3. Ids(task.rows) = Ids(listing.list)
        BY <1>2, <2>1, <2>2 DEF InOrder, Ids
    <2>4. Twice = 0
        BY <2>1 DEF Twice
    <2>5. Len(listing.list) <= Cardinality(Ids(listing.list)) + listing.retried
        BY <1>3, <2>4 DEF CountInv
    <2> QED
        BY <1>2, <1>3, <1>4, <2>2, <2>3, <2>5
<1> QED
    BY <1>5, <1>6

\* Nothing measured is a total of zero.
LEMMA TotalOfNone == Totals(<<>>).memory = PeakSum(<<>>)
<1> DEFINE none == <<>>
           n == 0
<1>1. /\ n \in Nat /\ none \in [1..n -> {}] /\ Len(none) = n
      /\ \A i, k \in 1..n : i # k => none[i] # none[k]
      /\ \A i \in 1..n : none[i].usage = none[i].usage
      /\ \A i \in 1..n : none[i].usage # NoUsage => none[i].usage.peak \in Nat
    OBVIOUS
<1> HIDE DEF none, n
<1>2. Totals(none).memory = PeakSum(none)
    BY <1>1, TotalIsSum
<1> QED
    BY <1>2 DEF none

\* The total of a report on attempts that differ is that of the set of them.
LEMMA BodyTotals ==
    ASSUME TaskOK, Len(task.rows) <= Cardinality(Ids(task.rows))
    PROVE  Body.totals.memory = PeakSum(task.rows)
<1> DEFINE x == task.rows
           n == Len(x)
<1>1. /\ x \in Seq(Rows) /\ n \in Nat /\ DOMAIN x = 1..n /\ x \in [1..n -> Rows]
    BY DEF TaskOK, TaskInv, TaskGood, Tasks
<1>2. \A i, k \in 1..n : i # k => x[i] # x[k]
    <2>1. Cardinality(Ids(x)) \in Nat /\ Cardinality(Ids(x)) <= n
        BY <1>1, IdsOfList
    <2>2. Cardinality(Ids(x)) = n
        BY <1>1, <2>1
    <2>3. \A i, k \in 1..n : i # k => x[i].id # x[k].id
        BY <1>1, <2>2, IdsOfList
    <2> QED
        BY <2>3
<1>3. ASSUME NEW r \in Rows, r.usage # NoUsage PROVE r.usage.peak \in Nat
    <2>1. PICK run \in AnyRun : r.usage = UsageOf(run.series)
        BY <1>3 DEF Rows
    <2>2. r.usage.peak = Scalar(run.series, "peak")
        BY <2>1 DEF UsageOf
    <2> QED
        BY <2>2, SeriesAssumption DEF Scalar
<1>4. \A i \in 1..n : x[i].usage # NoUsage => x[i].usage.peak \in Nat
    BY <1>1, <1>3
<1> HIDE DEF x, n
<1>5. ASSUME NEW rows, DOMAIN rows = 1..n, Len(rows) = n, \A i \in 1..n : rows[i].usage = x[i].usage,
             NEW ran
      PROVE  RenderReport(ran, rows, Limits).totals.memory = PeakSum(x)
    <2>1. CASE ~NothingMeasured(ran, rows)
        <3>1. RenderReport(ran, rows, Limits).totals = Totals(rows)
            BY <2>1 DEF RenderReport
        <3>2. Totals(rows).memory = PeakSum(x)
            BY <1>1, <1>2, <1>4, <1>5, TotalIsSum
        <3> QED
            BY <3>1, <3>2
    <2>2. CASE NothingMeasured(ran, rows)
        <3>1. RenderReport(ran, rows, Limits).totals = Totals(<<>>)
            BY <2>2 DEF RenderReport
        <3>2. {r \in Range(x) : r.usage # NoUsage} = {}
            <4>1. \A i \in 1..n : x[i].usage = NoUsage
                BY <1>5, <2>2 DEF NothingMeasured, HasUsage
            <4> QED
                BY <1>1, <4>1 DEF Range
        <3>3. PeakSum(<<>>) = PeakSum(x)
            <4>1. {r \in Range(<<>>) : r.usage # NoUsage} = {}
                BY DEF Range
            <4> QED
                BY <3>2, <4>1, Zenon DEF PeakSum
        <3> QED
            BY <3>1, <3>3, TotalOfNone
    <2> QED
        BY <2>1, <2>2
<1>6. CASE task.kind # "job"
    <2>1. Body = RenderReport(RanJobs(x), x, Limits)
        BY <1>6 DEF Body, JobBody, x
    <2>2. RenderReport(RanJobs(x), x, Limits).totals.memory = PeakSum(x)
        BY <1>1, <1>5 DEF n
    <2> QED
        BY <2>1, <2>2 DEF x
<1>7. CASE task.kind = "job"
    <2> DEFINE rows == [i \in DOMAIN x |-> [x[i] EXCEPT !.start = 0, !.finish = 0]]
    <2>1. Body = RenderReport(1, rows, Limits)
        BY <1>7 DEF Body, JobBody, x
    <2>2. DOMAIN rows = 1..n /\ Len(rows) = n
        BY <1>1
    <2>3. \A i \in 1..n : rows[i].usage = x[i].usage
        BY <1>1 DEF Rows
    <2> HIDE DEF rows
    <2>4. RenderReport(1, rows, Limits).totals.memory = PeakSum(x)
        BY <1>5, <2>2, <2>3
    <2> QED
        BY <2>1, <2>4 DEF x
<1> QED
    BY <1>6, <1>7

\* What SummaryCountsOnce asks of one reply.
CountsOnce(s) ==
    s.what = "report" =>
        /\ Len(s.task.rows) <= Cardinality(Ids(s.task.rows)) + s.retried
        /\ s.retried = 0 => s.report.totals.memory = PeakSum(s.task.rows)

LEMMA OnceNow == SummaryCountsOnce <=> CountsOnce(said)
BY Zenon DEF SummaryCountsOnce, CountsOnce, PeakSum

LEMMA OnceNext == SummaryCountsOnce' <=> CountsOnce(said)'
BY OnceNow, PTL

LEMMA SummaryStep ==
    ASSUME AllInv, CountInv, OrderInv, SummaryCountsOnce, [Next]_vars
    PROVE  SummaryCountsOnce'
<1> SUFFICES ASSUME said'.what = "report" PROVE SummaryCountsOnce'
    BY DEF SummaryCountsOnce
<1>1. SaidShape(said) /\ JobsOK /\ TaskOK /\ JobInv
    BY DEF AllInv, RowsInv
<1>2. SummaryCountsOnce <=> CountsOnce(said)
    BY OnceNow
<1>3. SummaryCountsOnce' <=> CountsOnce(said')
    BY OnceNext
<1>4. CASE said' = said
    BY <1>2, <1>3, <1>4
<1>5. CASE /\ AllMeasured /\ task.kind \in {"report", "run", "job"}
           /\ said'.report = Body /\ said'.task = task /\ said'.retried = listing.retried
    <2>1. /\ Len(task.rows) \in Nat /\ listing.retried \in Nat
          /\ Cardinality(Ids(task.rows)) \in Nat
          /\ Len(task.rows) <= Cardinality(Ids(task.rows)) + listing.retried
        BY <1>1, <1>5, RowsCounted
    <2>2. listing.retried = 0 => Len(task.rows) <= Cardinality(Ids(task.rows))
        BY <2>1
    <2>3. listing.retried = 0 => Body.totals.memory = PeakSum(task.rows)
        BY <1>1, <2>2, BodyTotals
    <2> HIDE DEF Body
    <2>4. CountsOnce(said')
        BY <1>5, <2>1, <2>3 DEF CountsOnce
    <2> QED
        BY <1>3, <2>4
<1> QED
    BY <1>1, <1>4, <1>5, ReportSteps

\* A report counts every attempt that it lists once, however long the list and
\* the pages are: without a retry between two pages no attempt is in it twice,
\* and its total is the sum over the attempts that were measured; each retry
\* repeats one of them at most.
THEOREM SummaryAlwaysCountsOnce == Spec => []SummaryCountsOnce
<1>1. Init => CountInv /\ OrderInv /\ SummaryCountsOnce
    <2>1. Init => OrderInv
        BY DEF Init, Idle, OrderInv
    <2>2. Init => SummaryCountsOnce
        BY DEF Init, Silence, SummaryCountsOnce
    <2> QED
        BY <2>1, <2>2, CountStart
<1>2. /\ AllInv /\ CountInv /\ OrderInv /\ SummaryCountsOnce /\ [Next]_vars
      => (CountInv /\ OrderInv /\ SummaryCountsOnce)'
    BY CountStep, OrderStep, SummaryStep DEF AllInv
<1> QED
    BY <1>1, <1>2, AlwaysAllInv, PTL DEF Spec

=============================================================================
