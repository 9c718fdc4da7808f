--------------------------- MODULE Scripts_proofs ---------------------------
(***************************************************************************)
(* What is proved of the two bank scripts with their ingestion, for any    *)
(* list of movements and any number of pages, faults, clicks and answers.  *)
(*                                                                         *)
(* The poll (PollInv).  What was merged covers the bank's list from the    *)
(* newest movement at the poll's start down to some movement without a     *)
(* hole, and the next page begins there or above it: arrivals push the     *)
(* list down, so pages overlap and never leave a gap (PagesCover).  Days   *)
(* are in order, so a poll that saw yesterday has all of today             *)
(* (PassedMeansAll), and what is marked as seen is in the batch until it   *)
(* is stored (SeenIsSaved).                                                *)
(*                                                                         *)
(* The one-shot scrape (ScrapeInv).  The table is EMPRESAS's, whatever     *)
(* the captured list is (ListsRead), and an entry joins what lies within   *)
(* the tolerance (EntriesWhole).  Each turn of the detail loop builds its  *)
(* movement or gives it up (Handled), and once a row and a movement are    *)
(* the same payment so are the next ones, because both lists then show     *)
(* the same incoming payments from there down (Aligned).  When the loop    *)
(* stops at the last known reference, everything passed over was built or  *)
(* given up, which is NoSilentGap with the batch under way (NoGap).  If    *)
(* the account stayed as it was, list and table are the same list's        *)
(* (SteadyLists), their first payments are one (HeadsAlign), and so each   *)
(* row is its movement's own and so is what is built (SteadyPairs).        *)
(*                                                                         *)
(* A filtered list is described by the positions it keeps (Lists), so      *)
(* that no induction over lists is needed: Ranks counts positions and      *)
(* OnlyMembers says what a filter returns.                                 *)
(***************************************************************************)
EXTENDS PollLoop, MiDinero, FiniteSetTheorems, TLAPS

-----------------------------------------------------------------------------
(* Filtering a list. *)

(* Ranks number a finite set of positions from one up, in their order.     *)
LEMMA Ranks ==
  ASSUME NEW K, K \subseteq Int, IsFiniteSet(K)
  PROVE  /\ \A i \in K : Rank(K, i) \in 1 .. Cardinality(K)
         /\ \A i, j \in K : i < j => Rank(K, i) < Rank(K, j)
         /\ \A k \in 1 .. Cardinality(K) : \E i \in K : Rank(K, i) = k
<1> DEFINE Upto(i) == {j \in K : j <= i}
           n == Cardinality(K)
           f == [i \in K |-> Rank(K, i)]
<1>0. n \in Nat
  BY FS_CardinalityType
<1>1. ASSUME NEW i \in K
      PROVE  IsFiniteSet(Upto(i)) /\ Rank(K, i) = Cardinality(Upto(i)) /\ Rank(K, i) \in 1 .. n
  <2>1. Upto(i) \in SUBSET K /\ i \in Upto(i)
    OBVIOUS
  <2>2. IsFiniteSet(Upto(i)) /\ Cardinality(Upto(i)) <= n
    BY <2>1, FS_Subset
  <2>3. Cardinality(Upto(i)) \in Nat /\ Cardinality(Upto(i)) # 0
    BY <2>1, <2>2, FS_CardinalityType, FS_EmptySet
  <2> QED BY <1>0, <2>2, <2>3 DEF Rank
<1>2. ASSUME NEW i \in K, NEW j \in K, i < j
      PROVE  Rank(K, i) < Rank(K, j)
  <2>0. i \in Int /\ j \in Int /\ \A x \in K : x \in Int
    OBVIOUS
  <2>1. Upto(i) \in SUBSET Upto(j) /\ j \in Upto(j) /\ j \notin Upto(i)
    <3>1. \A x \in K : x <= i => x <= j
      BY <1>2, <2>0
    <3>2. j <= j /\ ~(j <= i)
      BY <1>2, <2>0
    <3> QED BY <3>1, <3>2
  <2>2. Cardinality(Upto(i)) <= Cardinality(Upto(j)) /\ Cardinality(Upto(i)) # Cardinality(Upto(j))
    BY <1>1, <2>1, FS_Subset
  <2> HIDE DEF Upto, n
  <2> QED BY <1>0, <1>1, <2>2
<1>3. f \in Injection(K, 1 .. n)
  <2>1. f \in [K -> 1 .. n]
    BY <1>1
  <2>2. ASSUME NEW i \in K, NEW j \in K, f[i] = f[j] PROVE i = j
    <3>1. Rank(K, i) = Rank(K, j)
      BY <2>2
    <3>2. i \in Int /\ j \in Int /\ Rank(K, i) \in Int
      <4>1. Rank(K, i) \in 1 .. n
        BY <1>1
      <4> HIDE DEF n
      <4> QED BY <1>0, <4>1
    <3> QED BY <1>2, <3>1, <3>2
  <2> QED BY <2>1, <2>2 DEF Injection, IsInjective
<1>4. IsFiniteSet(1 .. n) /\ Cardinality(1 .. n) = n
  BY <1>0, FS_Interval
<1>5. f \in Surjection(K, 1 .. n)
  BY <1>3, <1>4, FS_Injection
<1>6. \A k \in 1 .. n : \E i \in K : f[i] = k
  BY <1>5 DEF Surjection
<1> QED BY <1>1, <1>2, <1>6

(* Only takes the kept positions one after the other, all of them.         *)
LEMMA OnlyPositions ==
  ASSUME NEW T, NEW list \in Seq(T), NEW S
  PROVE  \E at \in [1 .. Len(Only(list, S)) -> Kept(list, S)] :
           /\ Len(Only(list, S)) = Cardinality(Kept(list, S))
           /\ \A k \in 1 .. Len(Only(list, S)) : Only(list, S)[k] = list[at[k]]
           /\ \A k, l \in 1 .. Len(Only(list, S)) : k < l => at[k] < at[l]
           /\ \A i \in Kept(list, S) : \E k \in 1 .. Len(Only(list, S)) : at[k] = i
<1> DEFINE K == Kept(list, S)
           n == Cardinality(K)
           at == [k \in 1 .. n |-> CHOOSE i \in K : Rank(K, i) = k]
<1>1. K \subseteq Int /\ IsFiniteSet(K)
  <2>1. IsFiniteSet(1 .. Len(list)) /\ K \in SUBSET (1 .. Len(list))
    BY FS_Interval DEF Kept
  <2> QED BY <2>1, FS_Subset
<1>2. n \in Nat
  BY <1>1, FS_CardinalityType
<1> HIDE DEF K, n
<1>3. /\ \A i \in K : Rank(K, i) \in 1 .. n
      /\ \A i, j \in K : i < j => Rank(K, i) < Rank(K, j)
      /\ \A k \in 1 .. n : \E i \in K : Rank(K, i) = k
  BY <1>1, Ranks DEF n
<1>4. \A k \in 1 .. n : at[k] \in K /\ Rank(K, at[k]) = k
  BY <1>3
<1>5. at \in [1 .. n -> K]
  BY <1>4
<1>6. Only(list, S) = [k \in 1 .. n |-> list[CHOOSE i \in K : Rank(K, i) = k]]
  BY DEF Only, K, n
<1>7. Len(Only(list, S)) = n /\ \A k \in 1 .. n : Only(list, S)[k] = list[at[k]]
  BY <1>2, <1>6
<1>8. ASSUME NEW k \in 1 .. n, NEW l \in 1 .. n, k < l PROVE at[k] < at[l]
  <2>1. at[k] \in K /\ at[l] \in K /\ Rank(K, at[k]) = k /\ Rank(K, at[l]) = l
    BY <1>4
  <2> HIDE DEF at
  <2>2. at[k] \in Int /\ at[l] \in Int /\ k \in Int /\ l \in Int
    <3>1. \A x \in K : x \in Int
      BY <1>1
    <3> QED BY <1>2, <2>1, <3>1
  <2>3. at[k] # at[l] /\ ~(at[l] < at[k])
    BY <1>2, <1>3, <1>8, <2>1, <2>2
  <2> QED BY <2>2, <2>3
<1>9. ASSUME NEW i \in K PROVE \E k \in 1 .. n : at[k] = i
  <2>1. Rank(K, i) \in 1 .. n
    BY <1>3
  <2> DEFINE k == Rank(K, i)
  <2>2. at[k] \in K /\ Rank(K, at[k]) = k
    BY <1>4, <2>1
  <2>4. at[k] = i
    <3> HIDE DEF at, k
    <3>1. at[k] \in Int /\ i \in Int
      BY <1>1, <2>2
    <3>2. ~(at[k] < i) /\ ~(i < at[k])
      <4>1. k = Rank(K, i)
        BY DEF k
      <4>2. k \in Int
        BY <1>2, <2>1, <4>1
      <4> QED BY <1>3, <2>2, <4>1, <4>2
    <3> QED BY <3>1, <3>2
  <2> QED BY <2>1, <2>4
<1> HIDE DEF at
<1>10. \A k, l \in 1 .. n : k < l => at[k] < at[l]
  BY <1>8
<1>11. \A i \in K : \E k \in 1 .. n : at[k] = i
  BY <1>9
<1> QED BY <1>5, <1>7, <1>10, <1>11 DEF n, K

(* A function on an initial segment is a sequence of what it takes.        *)
LEMMA SegmentIsSeq ==
  ASSUME NEW T, NEW n \in Nat, NEW f, DOMAIN f = 1 .. n, f = [k \in 1 .. n |-> f[k]],
         \A k \in 1 .. n : f[k] \in T
  PROVE  f \in Seq(T)
<1>1. f \in [1 .. n -> T]
  OBVIOUS
<1> QED BY <1>1

(* Its members are those of the list that belong to the set.               *)
LEMMA OnlyMembers ==
  ASSUME NEW T, NEW list \in Seq(T), NEW S
  PROVE  /\ Only(list, S) \in Seq(T)
         /\ \A k \in 1 .. Len(Only(list, S)) : Only(list, S)[k] \in S
         /\ ToSet(Only(list, S)) = ToSet(list) \cap S
         /\ Len(Only(list, S)) \in Nat
<1> DEFINE o == Only(list, S)
           K == Kept(list, S)
<1>1. PICK at \in [1 .. Len(o) -> K] :
         /\ Len(o) = Cardinality(K)
         /\ \A k \in 1 .. Len(o) : o[k] = list[at[k]]
         /\ \A i \in K : \E k \in 1 .. Len(o) : at[k] = i
  BY OnlyPositions
<1>2. DOMAIN o = 1 .. Cardinality(K) /\ o = [k \in 1 .. Cardinality(K) |-> o[k]]
  BY DEF Only
<1>3. Len(o) \in Nat
  <2>1. IsFiniteSet(1 .. Len(list)) /\ K \in SUBSET (1 .. Len(list))
    BY FS_Interval DEF Kept
  <2> QED BY <1>1, <2>1, FS_Subset, FS_CardinalityType
<1> HIDE DEF o
<1>4. \A i \in K : i \in 1 .. Len(list) /\ list[i] \in S /\ list[i] \in T
  BY DEF Kept
<1>5. \A k \in 1 .. Len(o) : o[k] \in S /\ o[k] \in T
  BY <1>1, <1>4
<1>6. o \in Seq(T)
  <2> DEFINE m == Cardinality(K)
  <2>1. m = Len(o)
    BY <1>1
  <2>2. DOMAIN o = 1 .. m /\ o = [k \in 1 .. m |-> o[k]]
    BY <1>2
  <2>3. m \in Nat /\ \A k \in 1 .. m : o[k] \in T
    BY <1>3, <1>5, <2>1
  <2> HIDE DEF m
  <2> QED BY <2>2, <2>3, SegmentIsSeq
<1>7. \A i \in 1 .. Len(list) : list[i] \in S => i \in K
  BY DEF Kept
<1> HIDE DEF K
<1>8. ToSet(o) = ToSet(list) \cap S
  <2>1. ASSUME NEW x \in ToSet(o) PROVE x \in ToSet(list) \cap S
    <3>1. PICK k \in 1 .. Len(o) : x = o[k]
      BY <1>1, <1>2 DEF ToSet
    <3> QED BY <1>1, <1>4, <3>1 DEF ToSet
  <2>2. ASSUME NEW x \in ToSet(list) \cap S PROVE x \in ToSet(o)
    <3>1. PICK i \in 1 .. Len(list) : x = list[i]
      BY DEF ToSet
    <3>2. PICK k \in 1 .. Len(o) : at[k] = i
      BY <1>1, <1>7, <3>1
    <3> QED BY <1>1, <1>2, <3>1, <3>2 DEF ToSet
  <2> QED BY <2>1, <2>2
<1> QED BY <1>3, <1>5, <1>6, <1>8 DEF o
-----------------------------------------------------------------------------
(* The poll of Banco Pichincha. *)

Movements == ToSet(Feed)
MovementIds == {m.id : m \in Movements}
Transactions == [id : MovementIds, sender : MovementIds \cup {"description"}]

Monitors ==
    [step : {"down", "login", "wait", "top", "auth", "open", "pages", "build", "fresh", "failed", "keep",
             "ingest", "sleep", "ending"},
     script : Scripts \cup {Script102}, seen : SUBSET MovementIds, day : Nat]

Polls ==
    [tries : Nat, pages : Nat, merged : Seq(Movements), scrolls : Nat, lastCount : Int,
     today : Nat, entered : Nat, ended : {"none", "passed_today", "no_growth", "cap"},
     batch : Seq(Transactions)]

TypeOK ==
    /\ posted \in 0 .. Len(Feed) /\ day \in Nat
    /\ monitor \in Monitors
    /\ poll \in Polls
    /\ db \subseteq Transactions
    /\ poll.entered <= posted

(* The bank's movements arrive day by day.                                 *)
DaysInOrder ==
    /\ \A j \in 1 .. posted : Feed[j].day \in Nat /\ Feed[j].day <= day
    /\ \A j, k \in 1 .. posted : j <= k => Feed[j].day <= Feed[k].day

(* What was merged reaches back to the movement lo without a hole, and the *)
(* next page begins there at the latest, however many arrived meanwhile.   *)
Covers(lo) ==
    /\ lo = 1 \/ lo <= posted - poll.pages * PageSize + 1
    /\ \A m \in ToSet(poll.merged) : \E l \in lo .. posted : Feed[l] = m
    /\ \A l \in lo .. poll.entered : Feed[l] \in ToSet(poll.merged)

PagesCover == At("pages") => \E lo \in Nat \ {0} : Covers(lo)

PassedHasAll ==
    /\ At("open") => poll.ended = "none"
    /\ At("build") /\ poll.ended = "passed_today" =>
          \A j \in 1 .. poll.entered :
              Feed[j].day = poll.today => Feed[j] \in ToSet(poll.merged)

PollInv ==
    TypeOK /\ DaysInOrder /\ PagesCover /\ PassedHasAll /\ PassedMeansAll /\ SeenIsSaved

-----------------------------------------------------------------------------
LEMMA FeedFacts == /\ Len(Feed) \in Nat /\ DOMAIN Feed = 1 .. Len(Feed)
                   /\ \A j \in 1 .. Len(Feed) : Feed[j] \in Movements
                   /\ \A m \in Movements : m.id \in MovementIds
  BY FeedIsAList DEF Movements, MovementIds, ToSet

LEMMA ListingFacts ==
  ASSUME NEW k \in 0 .. Len(Feed)
  PROVE  /\ Listing(k) \in Seq(Movements) /\ Len(Listing(k)) = k
         /\ \A i \in 1 .. k : Listing(k)[i] = Feed[k - i + 1]
<1> DEFINE sub == SubSeq(Feed, 1, k)
<1>1. k \in 0 .. Len(Feed) /\ Feed \in Seq(Movements) /\ Len(Feed) \in Nat
  BY FeedIsAList, FeedFacts DEF Movements
<1>2. sub \in Seq(Movements) /\ Len(sub) = k /\ \A i \in 1 .. k : sub[i] = Feed[i]
  BY <1>1
<1> HIDE DEF sub
<1>3. Listing(k) = [i \in 1 .. Len(sub) |-> sub[(Len(sub) - i) + 1]]
  BY DEF Listing, Reverse, sub
<1> QED BY <1>1, <1>2, <1>3

(* A page holds the movements between its two ends, counted from the last  *)
(* that arrived.                                                           *)
LEMMA PageMembers ==
  ASSUME TypeOK, NEW i \in Nat
  PROVE  /\ PageAt(i) \in Seq(Movements)
         /\ \A m \in ToSet(PageAt(i)) :
              \E l \in 1 .. posted : posted - (i + 1) * PageSize + 1 <= l /\ Feed[l] = m
         /\ \A l \in 1 .. posted :
              posted - (i + 1) * PageSize + 1 <= l /\ l <= posted - i * PageSize
              => Feed[l] \in ToSet(PageAt(i))
<1> DEFINE first == i * PageSize
           next == (i + 1) * PageSize
           last == IF next < posted THEN next ELSE posted
<1>1. PageSize \in Nat \ {0} /\ first \in Nat /\ next \in Nat /\ next = first + PageSize
  BY PagesArePositive
<1>a. posted \in 0 .. Len(Feed)
  BY DEF TypeOK
<1>2. /\ Listing(posted) \in Seq(Movements) /\ Len(Listing(posted)) = posted /\ posted \in Nat
      /\ \A k \in 1 .. posted : Listing(posted)[k] = Feed[posted - k + 1]
  BY <1>a, ListingFacts, FeedFacts
<1>3. PageAt(i) = SubSeq(Listing(posted), first + 1, last)
  BY <1>2 DEF PageAt
<1> HIDE DEF first, next
<1>4. last \in Int /\ last <= posted
  BY <1>1, <1>2
<1>5. /\ PageAt(i) \in Seq(Movements)
      /\ Len(PageAt(i)) = IF first + 1 <= last THEN last - first ELSE 0
      /\ \A x \in 1 .. last - first : PageAt(i)[x] = Listing(posted)[first + x]
  <2> HIDE DEF last
  <2> QED BY <1>1, <1>2, <1>3, <1>4
<1>6. ASSUME NEW m \in ToSet(PageAt(i))
      PROVE  \E l \in 1 .. posted : posted - next + 1 <= l /\ Feed[l] = m
  <2>1. PICK x \in 1 .. Len(PageAt(i)) : m = PageAt(i)[x]
    BY <1>5 DEF ToSet
  <2>2. x \in 1 .. last - first /\ last <= next
    BY <1>1, <1>2, <1>4, <1>5, <2>1
  <2> HIDE DEF last
  <2>3. first + x \in 1 .. posted /\ posted - (first + x) + 1 \in 1 .. posted
    BY <1>1, <1>2, <1>4, <2>2
  <2>4. m = Feed[posted - (first + x) + 1]
    BY <1>2, <1>5, <2>1, <2>2, <2>3
  <2>5. posted - next + 1 <= posted - (first + x) + 1
    BY <1>1, <1>2, <1>4, <2>2
  <2> QED BY <2>3, <2>4, <2>5
<1>7. ASSUME NEW l \in 1 .. posted, posted - next + 1 <= l, l <= posted - first
      PROVE  Feed[l] \in ToSet(PageAt(i))
  <2> DEFINE x == posted - l + 1 - first
  <2>1. x \in 1 .. last - first /\ first + x = posted - l + 1
    BY <1>1, <1>2, <1>7
  <2>2. first + x \in 1 .. posted /\ posted - (first + x) + 1 = l
    BY <1>1, <1>2, <1>7, <2>1
  <2> HIDE DEF x, last
  <2>3. x \in 1 .. Len(PageAt(i))
    BY <1>1, <1>2, <1>4, <1>5, <2>1, <2>2
  <2>4. PageAt(i)[x] = Listing(posted)[first + x]
    BY <1>5, <2>1
  <2>5. PageAt(i)[x] = Feed[l]
    BY <1>2, <2>2, <2>4
  <2> QED BY <1>5, <2>3, <2>5 DEF ToSet
<1> QED BY <1>5, <1>6, <1>7 DEF first, next

LEMMA MergedMembers ==
  ASSUME NEW T, NEW merged \in Seq(T), NEW shown \in Seq(T)
  PROVE  /\ MergeCaptured(merged, shown) \in Seq(T)
         /\ ToSet(MergeCaptured(merged, shown)) = ToSet(merged) \cup ToSet(shown)
<1> DEFINE once == {m \in ToSet(merged) : m.numbered}
           more == Only(shown, ToSet(shown) \ once)
           all == merged \o more
<1>1. more \in Seq(T) /\ ToSet(more) = ToSet(shown) \ once
  BY OnlyMembers
<1>2. MergeCaptured(merged, shown) = all
  BY DEF MergeCaptured
<1> HIDE DEF more
<1>3. /\ all \in Seq(T) /\ Len(all) = Len(merged) + Len(more)
      /\ \A i \in 1 .. Len(merged) + Len(more) :
            all[i] = IF i <= Len(merged) THEN merged[i] ELSE more[i - Len(merged)]
      /\ Len(merged) \in Nat /\ Len(more) \in Nat
  BY <1>1
<1> HIDE DEF all
<1>4. ToSet(all) = ToSet(merged) \cup ToSet(more)
  <2>1. ASSUME NEW i \in 1 .. Len(merged) PROVE i \in 1 .. Len(all) /\ all[i] = merged[i]
    BY <1>3
  <2>2. ASSUME NEW i \in 1 .. Len(more)
        PROVE  Len(merged) + i \in 1 .. Len(all) /\ all[Len(merged) + i] = more[i]
    <3>1. /\ Len(merged) + i \in 1 .. Len(merged) + Len(more)
          /\ ~(Len(merged) + i <= Len(merged)) /\ (Len(merged) + i) - Len(merged) = i
      BY <1>3
    <3> DEFINE k == Len(merged) + i
    <3> HIDE DEF k
    <3>2. k \in 1 .. Len(merged) + Len(more) /\ ~(k <= Len(merged)) /\ k - Len(merged) = i
      BY <3>1 DEF k
    <3>3. k \in 1 .. Len(all) /\ all[k] = more[i]
      BY <1>3, <3>2
    <3> QED BY <3>3 DEF k
  <2>3. ASSUME NEW i \in 1 .. Len(all)
        PROVE  \/ i \in 1 .. Len(merged) /\ all[i] = merged[i]
               \/ i - Len(merged) \in 1 .. Len(more) /\ all[i] = more[i - Len(merged)]
    <3>1. i \in 1 .. Len(merged) + Len(more)
      BY <1>3
    <3>2. CASE i <= Len(merged)
      BY <1>3, <3>1, <3>2
    <3>3. CASE ~(i <= Len(merged))
      <4>1. all[i] = more[i - Len(merged)]
        BY <1>3, <3>1, <3>3
      <4>2. i - Len(merged) \in 1 .. Len(more)
        BY <1>3, <3>1, <3>3
      <4> QED BY <4>1, <4>2
    <3> QED BY <3>2, <3>3
  <2>4. DOMAIN all = 1 .. Len(all) /\ DOMAIN more = 1 .. Len(more)
        /\ DOMAIN merged = 1 .. Len(merged)
    BY <1>1, <1>3
  <2>5. ASSUME NEW x \in ToSet(all) PROVE x \in ToSet(merged) \cup ToSet(more)
    <3>1. PICK i \in 1 .. Len(all) : x = all[i]
      BY <2>4 DEF ToSet
    <3> QED BY <2>3, <2>4, <3>1 DEF ToSet
  <2>6. ASSUME NEW x \in ToSet(merged) PROVE x \in ToSet(all)
    <3>1. PICK i \in 1 .. Len(merged) : x = merged[i]
      BY <2>4 DEF ToSet
    <3> QED BY <2>1, <2>4, <3>1 DEF ToSet
  <2>7. ASSUME NEW x \in ToSet(more) PROVE x \in ToSet(all)
    <3>1. PICK i \in 1 .. Len(more) : x = more[i]
      BY <2>4 DEF ToSet
    <3> QED BY <2>2, <2>4, <3>1 DEF ToSet
  <2> QED BY <1>1, <2>5, <2>6, <2>7
<1> QED BY <1>1, <1>2, <1>3, <1>4

LEMMA PollInit == Init => PollInv
BY FeedFacts, PagesArePositive
DEF Init, Down, NoPoll, PollInv, TypeOK, Monitors, Polls, DaysInOrder, PagesCover, PassedHasAll, PassedMeansAll,
    SeenIsSaved, At

(* Steps that move neither the bank, the merged pages nor the batch.       *)
LEMMA EndsInv ==
  ASSUME PollInv, SessionEnds, UNCHANGED <<posted, day, db>>
  PROVE  PollInv'
<1>1. monitor' = [step |-> "ending", script |-> Script102, seen |-> {}, day |-> 0]
  BY DEF SessionEnds, Down
<1>2. poll' = NoPoll
  BY DEF SessionEnds
<1> QED BY <1>1, <1>2 DEF NoPoll, PollInv, TypeOK, Monitors, Polls, DaysInOrder, PagesCover, PassedHasAll,
    PassedMeansAll, SeenIsSaved, At

(* Steps that only go on to another one, with the pages and the batch as   *)
(* they are and nothing of them under way.                                 *)
LEMMA GoesInv ==
  ASSUME PollInv, UNCHANGED <<posted, day, poll, db>>,
         NEW step \in {"wait", "top", "keep", "sleep"}, NEW at \in Nat,
         monitor' = [[monitor EXCEPT !.step = step] EXCEPT !.day = at],
         ~At("ingest")
  PROVE  PollInv'
<1>1. monitor \in Monitors
  BY DEF PollInv, TypeOK
<1>2. monitor' \in Monitors /\ monitor'.step = step /\ monitor'.seen = monitor.seen
  BY <1>1 DEF Monitors
<1>3. TypeOK' /\ DaysInOrder'
  BY <1>2 DEF PollInv, TypeOK, DaysInOrder
<1>4. PagesCover' /\ PassedHasAll' /\ PassedMeansAll'
  BY <1>2 DEF PagesCover, PassedHasAll, PassedMeansAll, At
<1>5. SeenIsSaved'
  BY <1>2 DEF PollInv, SeenIsSaved, Saved, At
<1> QED BY <1>3, <1>4, <1>5 DEF PollInv

LEMMA SessionInv ==
  ASSUME PollInv, Login \/ Authenticate \/ NoteFailure \/ SessionEnded
  PROVE  PollInv'
<1>0. UNCHANGED <<posted, day, db>>
  BY DEF Login, Authenticate, NoteFailure, SessionEnded
<1>a. day \in Nat /\ monitor \in Monitors /\ monitor.day \in Nat
  BY DEF PollInv, TypeOK, Monitors
<1>b. \A step \in {"wait", "keep"} :
        [monitor EXCEPT !.step = step] = [[monitor EXCEPT !.step = step] EXCEPT !.day = monitor.day]
  BY <1>a DEF Monitors
<1>1. CASE SessionEnds
  BY <1>0, <1>1, EndsInv
<1>2. CASE Login /\ ~SessionEnds
  <2>1. monitor' = [monitor EXCEPT !.step = "wait"] /\ poll' = poll /\ ~At("ingest")
    BY <1>2 DEF Login, Goto, At
  <2> QED BY <1>0, <1>a, <1>b, <2>1, GoesInv
<1>3. CASE Authenticate /\ ~SessionEnds
  <2>1. monitor' = [monitor EXCEPT !.step = "top", !.day = day] /\ poll' = poll /\ ~At("ingest")
    BY <1>3 DEF Authenticate, At
  <2>2. monitor' = [[monitor EXCEPT !.step = "top"] EXCEPT !.day = day]
    BY <1>a, <2>1 DEF Monitors
  <2> QED BY <1>0, <1>a, <2>1, <2>2, GoesInv
<1>4. CASE NoteFailure
  <2>1. monitor' = [monitor EXCEPT !.step = "keep"] /\ poll' = poll /\ ~At("ingest")
    BY <1>4 DEF NoteFailure, Goto, At
  <2> QED BY <1>0, <1>a, <1>b, <2>1, GoesInv
<1>5. CASE SessionEnded
  BY <1>0, <1>5 DEF SessionEnded, Down, PollInv, TypeOK, Monitors, Polls, DaysInOrder, PagesCover, PassedHasAll,
      PassedMeansAll, SeenIsSaved, At
<1> QED BY <1>1, <1>2, <1>3, <1>4, <1>5

LEMMA LaunchInv ==
  ASSUME PollInv, Launch
  PROVE  PollInv'
<1>1. PICK x \in Scripts, last \in SUBSET {t.id : t \in db} :
         monitor' = [step |-> "login", script |-> x, seen |-> last, day |-> day]
  BY DEF Launch
<1>2. UNCHANGED <<posted, day, poll, db>>
  BY DEF Launch
<1>3. last \subseteq MovementIds
  BY DEF PollInv, TypeOK, Transactions
<1>4. TypeOK' /\ DaysInOrder'
  BY <1>1, <1>2, <1>3 DEF PollInv, TypeOK, Monitors, Polls, DaysInOrder
<1>5. SeenIsSaved'
  BY <1>1, <1>2 DEF SeenIsSaved, Saved
<1> QED BY <1>1, <1>2, <1>4, <1>5 DEF PollInv, PagesCover, PassedHasAll, PassedMeansAll, At

LEMMA LoopInv ==
  ASSUME PollInv, LoopTop \/ CheckSession \/ KeepAlive \/ Sleep
  PROVE  PollInv'
<1>0. UNCHANGED <<posted, day, db>>
  BY DEF LoopTop, CheckSession, KeepAlive, Sleep
<1>1. CASE SessionEnds
  BY <1>0, <1>1, EndsInv
<1>2. CASE LoopTop /\ ~SessionEnds
  BY <1>2 DEF LoopTop, PollInv, TypeOK, Monitors, Polls, DaysInOrder, PagesCover, PassedHasAll, PassedMeansAll,
      SeenIsSaved, Saved, At
<1>3. CASE CheckSession /\ ~SessionEnds
  <2>1. monitor' = [monitor EXCEPT !.step = "open"] /\ poll' = [NoPoll EXCEPT !.tries = 1]
    BY <1>3 DEF CheckSession, Goto
  <2>2. /\ poll'.tries = 1 /\ poll'.entered = 0 /\ poll'.ended = "none" /\ poll'.batch = <<>>
        /\ poll' \in Polls
    <3>1. poll' = [tries |-> 1, pages |-> 0, merged |-> <<>>, scrolls |-> 0, lastCount |-> -1,
                   today |-> 0, entered |-> 0, ended |-> "none", batch |-> <<>>]
      BY <2>1 DEF NoPoll
    <3>2. -1 \in Int /\ <<>> \in Seq(Movements) /\ <<>> \in Seq(Transactions)
      OBVIOUS
    <3> QED BY <3>1, <3>2 DEF Polls
  <2>3. monitor'.step = "open" /\ monitor'.seen = monitor.seen
    BY <2>1 DEF PollInv, TypeOK, Monitors, Polls
  <2>4. TypeOK'
    <3>1. 0 <= posted
      BY FeedFacts DEF PollInv, TypeOK, Monitors, Polls
    <3>2. monitor' \in Monitors
      BY <2>1 DEF PollInv, TypeOK, Monitors
    <3>3. TypeOK
      BY DEF PollInv
    <3>4. poll'.entered <= posted'
      BY <1>0, <2>1, <3>1 DEF NoPoll
    <3> QED BY <1>0, <2>2, <3>2, <3>3, <3>4 DEF TypeOK
  <2>5. SeenIsSaved'
    BY <1>0, <1>3, <2>3 DEF CheckSession, PollInv, SeenIsSaved, Saved, At
  <2> QED BY <1>0, <2>2, <2>3, <2>4, <2>5
      DEF PollInv, DaysInOrder, PagesCover, PassedHasAll, PassedMeansAll, At
<1>4. CASE (KeepAlive \/ Sleep) /\ ~SessionEnds
  <2>1. PICK step \in {"sleep", "top"} :
          monitor' = [monitor EXCEPT !.step = step] /\ poll' = poll
    BY <1>4 DEF KeepAlive, Sleep, Goto
  <2>2. At("keep") \/ At("sleep")
    BY <1>4 DEF KeepAlive, Sleep
  <2>3. monitor \in Monitors
    BY DEF PollInv, TypeOK
  <2>4. monitor' \in Monitors /\ monitor'.step = step /\ monitor'.seen = monitor.seen
    BY <2>1, <2>3 DEF Monitors
  <2>5. TypeOK' /\ DaysInOrder'
    BY <1>0, <2>1, <2>4 DEF PollInv, TypeOK, DaysInOrder
  <2>6. PagesCover' /\ PassedHasAll' /\ PassedMeansAll'
    BY <2>4 DEF PagesCover, PassedHasAll, PassedMeansAll, At
  <2>7. SeenIsSaved'
    BY <1>0, <2>1, <2>2, <2>4 DEF PollInv, SeenIsSaved, Saved, At
  <2> QED BY <2>5, <2>6, <2>7 DEF PollInv
<1> QED BY <1>1, <1>2, <1>3, <1>4

LEMMA OpenInv ==
  ASSUME PollInv, OpenMovements
  PROVE  PollInv'
<1>0. UNCHANGED <<posted, day, db>> /\ At("open")
  BY DEF OpenMovements
<1>1. CASE /\ poll' = [poll EXCEPT !.pages = 1, !.merged = PageAt(0), !.entered = posted,
                                   !.today = day]
           /\ Goto("pages")
  <2>1. /\ PageAt(0) \in Seq(Movements)
        /\ \A m \in ToSet(PageAt(0)) :
             \E l \in 1 .. posted : posted - PageSize + 1 <= l /\ Feed[l] = m
        /\ \A l \in 1 .. posted :
             posted - PageSize + 1 <= l /\ l <= posted => Feed[l] \in ToSet(PageAt(0))
    <3>1. 0 \in Nat /\ 0 * PageSize = 0 /\ (0 + 1) * PageSize = PageSize /\ PageSize \in Nat
      BY PagesArePositive
    <3>2. posted \in Nat /\ TypeOK
      BY FeedFacts DEF PollInv, TypeOK, Monitors, Polls
    <3> QED BY <3>1, <3>2, PageMembers
  <2>2. /\ posted \in Nat /\ day \in Nat /\ PageSize \in Nat \ {0}
    BY PagesArePositive, FeedFacts DEF PollInv, TypeOK, Monitors, Polls
  <2>3. /\ poll'.pages = 1 /\ poll'.merged = PageAt(0) /\ poll'.entered = posted
        /\ poll'.ended = poll.ended /\ poll'.today = day /\ poll'.batch = poll.batch
        /\ monitor'.step = "pages" /\ monitor'.seen = monitor.seen
    BY <1>1 DEF PollInv, TypeOK, Monitors, Polls, Goto
  <2>4. TypeOK'
    <3>1. poll' \in Polls
      <4> DEFINE shown == PageAt(0)
      <4>1. shown \in Seq(Movements)
        BY <2>1
      <4>2. poll' = [poll EXCEPT !.pages = 1, !.merged = shown, !.entered = posted, !.today = day]
        BY <1>1
      <4> HIDE DEF shown
      <4> QED BY <2>2, <4>1, <4>2 DEF PollInv, TypeOK, Monitors, Polls
    <3>2. monitor' = [monitor EXCEPT !.step = "pages"]
      BY <1>1 DEF Goto
    <3>3. monitor' \in Monitors
      BY <3>2 DEF PollInv, TypeOK, Monitors, Polls
    <3>4. poll'.entered <= posted'
      BY <1>0, <2>2, <2>3
    <3> QED BY <1>0, <3>1, <3>3, <3>4 DEF PollInv, TypeOK, Monitors, Polls
  <2>a. PICK lo \in Nat \ {0} : IF posted > PageSize THEN lo = posted - PageSize + 1 ELSE lo = 1
    <3>1. CASE posted > PageSize
      <4>1. posted - PageSize + 1 \in Nat \ {0}
        BY <2>2, <3>1
      <4> QED BY <3>1, <4>1
    <3>2. CASE ~(posted > PageSize)
      BY <3>2
    <3> QED BY <3>1, <3>2
  <2>5. Covers(lo)'
    <3>1. lo = 1 \/ lo <= posted - 1 * PageSize + 1
      BY <2>2, <2>a
    <3>2. \A m \in ToSet(PageAt(0)) : \E l \in lo .. posted : Feed[l] = m
      BY <2>1, <2>2, <2>a
    <3>3. \A l \in lo .. posted : Feed[l] \in ToSet(PageAt(0))
      BY <2>1, <2>2, <2>a
    <3> QED BY <1>0, <2>2, <2>3, <3>1, <3>2, <3>3 DEF Covers
  <2>6. PagesCover'
    BY <2>5 DEF PagesCover
  <2>7. SeenIsSaved'
    BY <1>0, <2>3 DEF PollInv, SeenIsSaved, Saved, At
  <2> QED BY <1>0, <2>3, <2>4, <2>6, <2>7
      DEF PollInv, DaysInOrder, PassedHasAll, PassedMeansAll, At
<1>2. CASE poll' = [poll EXCEPT !.tries = @ + 1] /\ UNCHANGED monitor
  <2>1. /\ poll'.batch = poll.batch /\ poll'.ended = poll.ended
        /\ poll'.entered = poll.entered
    BY <1>2 DEF PollInv, TypeOK, Monitors, Polls
  <2>2. TypeOK'
    <3>1. poll.tries + 1 \in Nat
      BY DEF PollInv, TypeOK, Monitors, Polls
    <3> QED BY <1>0, <1>2, <3>1 DEF PollInv, TypeOK, Monitors, Polls
  <2>3. SeenIsSaved'
    BY <1>0, <1>2, <2>1 DEF PollInv, SeenIsSaved, Saved, At
  <2> QED BY <1>0, <1>2, <2>1, <2>2, <2>3
      DEF PollInv, DaysInOrder, PagesCover, PassedHasAll, PassedMeansAll, At
<1>3. CASE Goto("fresh") /\ UNCHANGED poll
  BY <1>0, <1>3 DEF Goto, PollInv, TypeOK, Monitors, Polls, DaysInOrder, PagesCover, PassedHasAll, PassedMeansAll,
      SeenIsSaved, Saved, At
<1> QED BY <1>1, <1>2, <1>3 DEF OpenMovements

(* The end of the scrolling: nothing before lo is of today once something  *)
(* older was merged.                                                       *)
LEMMA PassedInv ==
  ASSUME PollInv, LoadPages, PassedToday
  PROVE  \A j \in 1 .. poll.entered : Feed[j].day = poll.today => Feed[j] \in ToSet(poll.merged)
<1> SUFFICES ASSUME NEW j \in 1 .. poll.entered, Feed[j].day = poll.today
             PROVE  Feed[j] \in ToSet(poll.merged)
  OBVIOUS
<1>0. /\ posted \in Nat /\ poll.entered \in Nat /\ poll.entered <= posted
      /\ poll.today \in Nat
  BY FeedFacts DEF PollInv, TypeOK, Polls
<1>1. PICK lo \in Nat \ {0} : Covers(lo)
  BY DEF PollInv, PagesCover, LoadPages
<1>2. PICK m \in ToSet(poll.merged) : m.day < poll.today
  BY DEF PassedToday, Merged
<1>3. PICK l \in lo .. posted : Feed[l] = m
  BY <1>1, <1>2 DEF Covers
<1>4. l \in 1 .. posted /\ j \in 1 .. posted
  BY <1>0, <1>3
<1>5. /\ Feed[l].day \in Nat /\ Feed[j].day \in Nat
      /\ j <= l => Feed[j].day <= Feed[l].day
  BY <1>4 DEF PollInv, DaysInOrder
<1>6. Feed[l].day < poll.today
  BY <1>2, <1>3
<1>7. ~(j <= l)
  BY <1>0, <1>5, <1>6
<1>8. j \in lo .. poll.entered
  BY <1>0, <1>3, <1>4, <1>7
<1> QED BY <1>1, <1>8 DEF Covers

(* One more page: it begins where the last one ended, or further down the  *)
(* pages already read when movements arrived since.                        *)
LEMMA PageCovers ==
  ASSUME PollInv, At("pages"),
         poll'.pages = poll.pages + 1, UNCHANGED posted, poll'.entered = poll.entered,
         poll'.merged = MergeCaptured(poll.merged, PageAt(poll.pages))
  PROVE  \E lo \in Nat \ {0} : Covers(lo)'
<1> DEFINE off == poll.pages * PageSize
           next == (poll.pages + 1) * PageSize
<1>a. /\ posted \in Nat /\ poll.entered \in Nat /\ poll.entered <= posted
      /\ poll.pages \in Nat /\ PageSize \in Nat \ {0}
      /\ poll.merged \in Seq(Movements)
  <2> HIDE DEF off, next
  <2> QED BY FeedFacts, PagesArePositive DEF PollInv, TypeOK, Polls
<1>b. \A i, n \in Nat : i * n \in Nat /\ (i + 1) * n = i * n + n
  OBVIOUS
<1>0. /\ posted \in Nat /\ poll.entered \in Nat /\ poll.entered <= posted
      /\ poll.pages \in Nat /\ PageSize \in Nat \ {0} /\ off \in Nat /\ next = off + PageSize
      /\ poll.merged \in Seq(Movements)
  BY <1>a, <1>b
<1>1. PICK lo \in Nat \ {0} : Covers(lo)
  BY DEF PollInv, PagesCover
<1>2. /\ PageAt(poll.pages) \in Seq(Movements)
      /\ \A m \in ToSet(PageAt(poll.pages)) :
           \E l \in 1 .. posted : posted - next + 1 <= l /\ Feed[l] = m
      /\ \A l \in 1 .. posted :
           posted - next + 1 <= l /\ l <= posted - off => Feed[l] \in ToSet(PageAt(poll.pages))
  BY <1>0, PageMembers DEF PollInv
<1>3. ToSet(poll'.merged) = ToSet(poll.merged) \cup ToSet(PageAt(poll.pages))
  BY <1>0, <1>2, MergedMembers
<1>4. PICK x \in Nat \ {0} : /\ x <= lo /\ (x = 1 \/ x <= posted - next + 1)
                             /\ posted - next + 1 <= x \/ x = lo
  <2>1. CASE lo = 1 \/ lo <= posted - next + 1
    BY <2>1
  <2>2. CASE ~(lo = 1 \/ lo <= posted - next + 1) /\ posted - next + 1 > 1
    <3> DEFINE y == posted - next + 1
    <3>1. y \in Nat \ {0} /\ y <= lo /\ y = posted - next + 1 /\ y <= y
      <4>1. lo \in Nat /\ next \in Nat
        <5> HIDE DEF off, next
        <5> QED BY <1>0
      <4>2. y = posted - next + 1
        OBVIOUS
      <4> HIDE DEF next, off, y
      <4> QED BY <1>0, <2>2, <4>1, <4>2
    <3> HIDE DEF next, y
    <3> QED BY <3>1
  <2>3. CASE ~(lo = 1 \/ lo <= posted - next + 1) /\ ~(posted - next + 1 > 1)
    <3>1. 1 <= lo /\ posted - next + 1 <= 1
      BY <1>0, <2>3
    <3> HIDE DEF next
    <3> QED BY <1>0, <3>1
  <2> QED BY <2>1, <2>2, <2>3
<1>5. \A m \in ToSet(poll'.merged) : \E l \in x .. posted : Feed[l] = m
  <2> SUFFICES ASSUME NEW m \in ToSet(poll'.merged)
               PROVE  \E l \in x .. posted : Feed[l] = m
    OBVIOUS
  <2>1. CASE m \in ToSet(poll.merged)
    <3>1. PICK l \in lo .. posted : Feed[l] = m
      BY <1>1, <2>1 DEF Covers
    <3>2. l \in x .. posted
      BY <1>0, <1>4
    <3> QED BY <3>1, <3>2
  <2>2. CASE m \in ToSet(PageAt(poll.pages))
    <3>1. PICK l \in 1 .. posted : posted - next + 1 <= l /\ Feed[l] = m
      BY <1>2, <2>2
    <3>2. l \in x .. posted
      BY <1>0, <1>4, <3>1
    <3> QED BY <3>1, <3>2
  <2> QED BY <1>3, <2>1, <2>2
<1>6. \A l \in x .. poll.entered : Feed[l] \in ToSet(poll'.merged)
  <2> SUFFICES ASSUME NEW l \in x .. poll.entered PROVE Feed[l] \in ToSet(poll'.merged)
    OBVIOUS
  <2>1. l \in Nat /\ l \in 1 .. posted
    BY <1>0
  <2>2. CASE lo <= l
    <3>1. l \in lo .. poll.entered
      BY <2>1, <2>2
    <3> QED BY <1>1, <1>3, <3>1 DEF Covers
  <2>3. CASE ~(lo <= l)
    <3>1. lo = 1 \/ lo <= posted - off + 1
      BY <1>1 DEF Covers
    <3>2. posted - next + 1 <= l /\ l <= posted - off
      <4> HIDE DEF next, off
      <4> QED BY <1>0, <1>4, <2>1, <2>3, <3>1
    <3> QED BY <1>2, <1>3, <2>1, <3>2
  <2> QED BY <2>2, <2>3
<1>7. x = 1 \/ x <= posted' - poll'.pages * PageSize + 1
  BY <1>4
<1> QED BY <1>4, <1>5, <1>6, <1>7 DEF Covers

LEMMA LoadInv ==
  ASSUME PollInv, LoadPages
  PROVE  PollInv'
<1>0. UNCHANGED <<posted, day, db>> /\ At("pages")
  BY DEF LoadPages
<1>1. ASSUME NEW reason \in {"passed_today", "no_growth", "cap"}, EndPages(reason),
             reason = "passed_today" => PassedToday
      PROVE  PollInv'
  <2>1. /\ poll' = [poll EXCEPT !.ended = reason] /\ monitor' = [monitor EXCEPT !.step = "build"]
    BY <1>1 DEF EndPages, Goto
  <2>2. /\ poll'.merged = poll.merged /\ poll'.entered = poll.entered
        /\ poll'.today = poll.today /\ poll'.batch = poll.batch /\ poll'.ended = reason
        /\ monitor'.step = "build" /\ monitor'.seen = monitor.seen
        /\ poll' \in Polls /\ monitor' \in Monitors
    BY <2>1 DEF PollInv, TypeOK, Polls, Monitors
  <2>3. TypeOK'
    BY <1>0, <2>2 DEF PollInv, TypeOK
  <2>4. PassedHasAll'
    BY <1>1, <2>2, PassedInv DEF PassedHasAll, At
  <2>5. SeenIsSaved'
    BY <1>0, <2>2 DEF PollInv, SeenIsSaved, Saved, At
  <2> QED BY <1>0, <2>2, <2>3, <2>4, <2>5
      DEF PollInv, DaysInOrder, PagesCover, PassedMeansAll, At
<1>2. ASSUME NEW arrives \in BOOLEAN, UNCHANGED monitor,
             poll' = [poll EXCEPT !.scrolls = @ + 1, !.lastCount = Len(Merged),
                        !.pages = IF arrives THEN @ + 1 ELSE @,
                        !.merged = IF arrives THEN MergeCaptured(@, PageAt(poll.pages)) ELSE @]
      PROVE  PollInv'
  <2> DEFINE merged == IF arrives THEN MergeCaptured(poll.merged, PageAt(poll.pages))
                       ELSE poll.merged
             pages == IF arrives THEN poll.pages + 1 ELSE poll.pages
  <2>1. poll \in Polls /\ TypeOK /\ poll.pages \in Nat /\ poll.merged \in Seq(Movements)
        /\ poll.scrolls \in Nat
    BY DEF PollInv, TypeOK, Polls
  <2>2. PageAt(poll.pages) \in Seq(Movements)
    BY <2>1, PageMembers
  <2>3. merged \in Seq(Movements) /\ pages \in Nat /\ poll.scrolls + 1 \in Nat
        /\ Len(Merged) \in Int
    BY <2>1, <2>2, MergedMembers DEF Merged
  <2>4. poll' = [poll EXCEPT !.scrolls = poll.scrolls + 1, !.lastCount = Len(Merged),
                             !.pages = pages, !.merged = merged]
    BY <1>2
  <2> HIDE DEF merged, pages
  <2>5. /\ poll' \in Polls /\ poll'.merged = merged /\ poll'.pages = pages
        /\ poll'.entered = poll.entered /\ poll'.batch = poll.batch
    BY <2>1, <2>3, <2>4 DEF Polls
  <2>6. TypeOK'
    BY <1>0, <1>2, <2>5 DEF PollInv, TypeOK
  <2>7. PagesCover'
    <3>1. CASE arrives
      <4>1. \E lo \in Nat \ {0} : Covers(lo)'
        BY <1>0, <2>5, <3>1, PageCovers DEF merged, pages
      <4> QED BY <4>1 DEF PagesCover
    <3>2. CASE ~arrives
      <4>1. PICK lo \in Nat \ {0} : Covers(lo)
        BY <1>0 DEF PollInv, PagesCover
      <4>2. Covers(lo)'
        BY <1>0, <2>5, <3>2, <4>1 DEF Covers, merged, pages
      <4> QED BY <4>2 DEF PagesCover
    <3> QED BY <3>1, <3>2
  <2>8. SeenIsSaved'
    BY <1>0, <1>2, <2>5 DEF PollInv, SeenIsSaved, Saved, At
  <2> QED BY <1>0, <1>2, <2>6, <2>7, <2>8
      DEF PollInv, DaysInOrder, PassedHasAll, PassedMeansAll, At
<1> QED BY <1>1, <1>2 DEF LoadPages

(* A detail is the movement's own or none.                                 *)
LEMMA BuildInv ==
  ASSUME PollInv, BuildBatch
  PROVE  PollInv'
<1>0. UNCHANGED <<posted, day, db>> /\ At("build") /\ monitor' = [monitor EXCEPT !.step = "fresh"]
  BY DEF BuildBatch, Goto
<1>1. PICK clickable : poll' = [poll EXCEPT !.batch =
            [i \in DOMAIN HandedOver |->
                [id |-> HandedOver[i].id, sender |-> FetchDetail(HandedOver[i], clickable)]]]
  BY DEF BuildBatch
<1> DEFINE today == HandedOver
           batch == [i \in DOMAIN today |->
                        [id |-> today[i].id, sender |-> FetchDetail(today[i], clickable)]]
<1>2. /\ today \in Seq(Movements)
      /\ ToSet(today) = ToSet(poll.merged)
            \cap {m \in ToSet(poll.merged) : m.day = poll.today /\ m.incoming /\ m.numbered}
  BY OnlyMembers DEF PollInv, TypeOK, Polls, HandedOver, Merged
<1>3. \A m \in Movements : FetchDetail(m, clickable) \in MovementIds \cup {"description"}
  <2> SUFFICES ASSUME NEW m \in Movements
               PROVE  FetchDetail(m, clickable) \in MovementIds \cup {"description"}
    OBVIOUS
  <2>1. m.id \in MovementIds
    BY FeedFacts
  <2>2. FetchDetail(m, clickable) \in {m.id, "description"}
    BY DEF FetchDetail
  <2> QED BY <2>1, <2>2
<1> HIDE DEF today
<1>4. \A i \in 1 .. Len(today) : today[i] \in Movements /\ today[i].id \in MovementIds
  BY <1>2, FeedFacts
<1>5. DOMAIN today = 1 .. Len(today) /\ Len(today) \in Nat
  BY <1>2
<1>6. \A i \in 1 .. Len(today) : batch[i] \in Transactions /\ batch[i].id = today[i].id
  BY <1>3, <1>4, <1>5 DEF Transactions
<1>7. batch \in Seq(Transactions) /\ DOMAIN batch = 1 .. Len(today)
  BY <1>5, <1>6
<1>8. poll' = [poll EXCEPT !.batch = batch]
  BY <1>1 DEF today
<1> HIDE DEF batch
<1>9. /\ poll' \in Polls /\ poll'.batch = batch /\ poll'.entered = poll.entered
      /\ poll'.ended = poll.ended /\ poll'.today = poll.today
      /\ monitor' \in Monitors /\ monitor'.step = "fresh" /\ monitor'.seen = monitor.seen
  BY <1>0, <1>7, <1>8 DEF PollInv, TypeOK, Polls, Monitors
<1>10. TypeOK'
  BY <1>0, <1>9 DEF PollInv, TypeOK
<1>11. PassedMeansAll'
  <2> SUFFICES ASSUME poll.ended = "passed_today",
                      NEW j \in 1 .. poll.entered,
                      Feed[j].incoming, Feed[j].numbered, Feed[j].day = poll.today
               PROVE  \E t \in ToSet(batch) : t.id = Feed[j].id
    BY <1>0, <1>9 DEF PassedMeansAll
  <2>1. Feed[j] \in ToSet(poll.merged)
    BY <1>0 DEF PollInv, PassedHasAll
  <2>2. Feed[j] \in ToSet(today)
    BY <1>2, <2>1
  <2>3. PICK i \in 1 .. Len(today) : today[i] = Feed[j]
    BY <1>5, <2>2 DEF ToSet
  <2>4. batch[i] \in ToSet(batch)
    BY <1>7 DEF ToSet
  <2> QED BY <1>6, <2>3, <2>4
<1>12. SeenIsSaved'
  BY <1>0, <1>9 DEF PollInv, SeenIsSaved, Saved, At
<1> QED BY <1>0, <1>9, <1>10, <1>11, <1>12 DEF PollInv, DaysInOrder, PagesCover, PassedHasAll, At

LEMMA FailInv ==
  ASSUME PollInv, PollFails \/ IngestFails
  PROVE  PollInv'
<1>0. UNCHANGED <<posted, day, db>>
  BY DEF PollFails, IngestFails
<1>1. CASE SessionEnds
  BY <1>0, <1>1, EndsInv
<1>2. CASE PollFails /\ Goto("failed") /\ poll' = NoPoll
  <2>1. monitor' = [monitor EXCEPT !.step = "failed"] /\ ~At("ingest") /\ poll' = NoPoll
    BY <1>2 DEF PollFails, Goto, At
  <2>2. monitor' \in Monitors /\ monitor'.step = "failed" /\ monitor'.seen = monitor.seen
    BY <2>1 DEF PollInv, TypeOK, Monitors
  <2>3. poll' \in Polls /\ poll'.entered = 0
    BY <2>1 DEF Polls, NoPoll
  <2>4. TypeOK'
    BY <1>0, <2>2, <2>3, FeedFacts DEF PollInv, TypeOK
  <2>5. SeenIsSaved'
    BY <1>0, <2>1, <2>2 DEF PollInv, SeenIsSaved, Saved
  <2> QED BY <1>0, <2>2, <2>4, <2>5
      DEF PollInv, DaysInOrder, PagesCover, PassedHasAll, PassedMeansAll, At
<1> QED BY <1>1, <1>2 DEF PollFails, IngestFails

LEMMA TakeInv ==
  ASSUME PollInv, TakeFresh
  PROVE  PollInv'
<1> DEFINE fresh == Only(poll.batch, {t \in ToSet(poll.batch) : t.id \notin monitor.seen})
<1>0. UNCHANGED <<posted, day, db>> /\ At("fresh")
  BY DEF TakeFresh
<1>1. /\ fresh \in Seq(Transactions)
      /\ ToSet(fresh) = ToSet(poll.batch) \cap {t \in ToSet(poll.batch) : t.id \notin monitor.seen}
  BY OnlyMembers DEF PollInv, TypeOK, Polls
<1>2. \/ Goto("keep") /\ poll' = NoPoll
      \/ /\ monitor' = [monitor EXCEPT !.step = "ingest",
                              !.seen = @ \cup {t.id : t \in ToSet(fresh)}]
         /\ poll' = [poll EXCEPT !.batch = fresh]
  BY DEF TakeFresh
<1> HIDE DEF fresh
<1>3. CASE Goto("keep") /\ poll' = NoPoll
  <2>1. monitor' = [monitor EXCEPT !.step = "keep"] /\ ~At("ingest") /\ poll' = NoPoll
    BY <1>0, <1>3 DEF Goto, At
  <2>2. monitor' \in Monitors /\ monitor'.step = "keep" /\ monitor'.seen = monitor.seen
    BY <2>1 DEF PollInv, TypeOK, Monitors
  <2>3. poll' \in Polls /\ poll'.entered = 0
    BY <2>1 DEF Polls, NoPoll
  <2>4. TypeOK'
    BY <1>0, <2>2, <2>3, FeedFacts DEF PollInv, TypeOK
  <2>5. SeenIsSaved'
    BY <1>0, <2>1, <2>2 DEF PollInv, SeenIsSaved, Saved
  <2> QED BY <1>0, <2>2, <2>4, <2>5
      DEF PollInv, DaysInOrder, PagesCover, PassedHasAll, PassedMeansAll, At
<1>4. CASE /\ monitor' = [monitor EXCEPT !.step = "ingest",
                               !.seen = @ \cup {t.id : t \in ToSet(fresh)}]
           /\ poll' = [poll EXCEPT !.batch = fresh]
  <2> DEFINE ids == {t.id : t \in ToSet(fresh)}
  <2>1. ids \subseteq MovementIds
    <3>1. \A t \in ToSet(fresh) : t \in Transactions
      BY <1>1 DEF ToSet
    <3> QED BY <3>1 DEF Transactions
  <2>2. monitor' = [monitor EXCEPT !.step = "ingest", !.seen = monitor.seen \cup ids]
    BY <1>4
  <2>a. \A id \in ids : \E t \in ToSet(fresh) : t.id = id
    OBVIOUS
  <2> HIDE DEF ids
  <2>3. monitor' \in Monitors /\ monitor'.step = "ingest" /\ monitor'.seen = monitor.seen \cup ids
    BY <2>1, <2>2 DEF PollInv, TypeOK, Monitors
  <2>4. poll' \in Polls /\ poll'.entered = poll.entered /\ poll'.batch = fresh
    BY <1>1, <1>4 DEF PollInv, TypeOK, Polls
  <2>5. TypeOK'
    BY <1>0, <2>3, <2>4 DEF PollInv, TypeOK
  <2>6. \A id \in monitor.seen : id \in Saved
    BY <1>0 DEF PollInv, SeenIsSaved, At
  <2>7. SeenIsSaved'
    BY <1>0, <2>a, <2>3, <2>4, <2>6 DEF SeenIsSaved, Saved, At
  <2> QED BY <1>0, <2>3, <2>5, <2>7
      DEF PollInv, DaysInOrder, PagesCover, PassedHasAll, PassedMeansAll, At
<1> QED BY <1>2, <1>3, <1>4

LEMMA IngestInv ==
  ASSUME PollInv, IngestNext
  PROVE  PollInv'
<1> DEFINE t == Head(poll.batch)
<1>0. /\ UNCHANGED <<posted, day, monitor>> /\ At("ingest") /\ poll.batch # <<>>
      /\ db' = (IF \E u \in db : u.id = t.id THEN db ELSE db \cup {t})
      /\ poll' = [poll EXCEPT !.batch = Tail(poll.batch)]
  BY DEF IngestNext
<1>1. /\ poll.batch \in Seq(Transactions) /\ t = poll.batch[1] /\ t \in Transactions
      /\ Tail(poll.batch) \in Seq(Transactions) /\ Len(Tail(poll.batch)) = Len(poll.batch) - 1
      /\ \A i \in 1 .. Len(poll.batch) - 1 : Tail(poll.batch)[i] = poll.batch[i + 1]
      /\ Len(poll.batch) \in Nat /\ DOMAIN poll.batch = 1 .. Len(poll.batch)
      /\ DOMAIN Tail(poll.batch) = 1 .. Len(poll.batch) - 1
  BY <1>0 DEF PollInv, TypeOK, Polls
<1>2. poll' \in Polls /\ poll'.entered = poll.entered /\ poll'.batch = Tail(poll.batch)
  BY <1>0, <1>1 DEF PollInv, TypeOK, Polls
<1>3. db \subseteq db' /\ (\E u \in db' : u.id = t.id) /\ db' \subseteq Transactions
  BY <1>0, <1>1 DEF PollInv, TypeOK
<1> HIDE DEF t
<1>4. TypeOK'
  BY <1>0, <1>2, <1>3 DEF PollInv, TypeOK
<1>5. SeenIsSaved'
  <2> SUFFICES ASSUME NEW id \in monitor.seen
               PROVE  id \in Saved' \/ \E u \in ToSet(poll'.batch) : u.id = id
    BY <1>0 DEF SeenIsSaved, At
  <2>1. CASE id \in Saved
    BY <1>3, <2>1 DEF Saved
  <2>2. CASE id \notin Saved
    <3>1. PICK i \in 1 .. Len(poll.batch) : poll.batch[i].id = id
      BY <1>1, <2>2 DEF PollInv, SeenIsSaved, ToSet
    <3>2. CASE i = 1
      BY <1>1, <1>3, <3>1, <3>2 DEF Saved
    <3>3. CASE i # 1
      <4>1. i - 1 \in 1 .. Len(poll.batch) - 1 /\ Tail(poll.batch)[i - 1] = poll.batch[i]
        BY <1>1, <3>3
      <4>2. poll.batch[i] \in ToSet(Tail(poll.batch))
        BY <1>1, <4>1 DEF ToSet
      <4> QED BY <1>2, <3>1, <4>2
    <3> QED BY <3>2, <3>3
  <2> QED BY <2>1, <2>2
<1> QED BY <1>0, <1>4, <1>5 DEF PollInv, DaysInOrder, PagesCover, PassedHasAll, PassedMeansAll, At

LEMMA DoneInv ==
  ASSUME PollInv, IngestDone
  PROVE  PollInv'
<1>1. /\ UNCHANGED <<posted, day, db>> /\ poll.batch = <<>>
      /\ monitor' = [monitor EXCEPT !.step = "sleep"] /\ poll' = NoPoll
  BY DEF IngestDone, Goto
<1>2. monitor' \in Monitors /\ monitor'.step = "sleep" /\ monitor'.seen = monitor.seen
  BY <1>1 DEF PollInv, TypeOK, Monitors
<1>3. poll' \in Polls /\ poll'.entered = 0
  BY <1>1 DEF Polls, NoPoll
<1>4. TypeOK'
  BY <1>1, <1>2, <1>3, FeedFacts DEF PollInv, TypeOK
<1>5. SeenIsSaved'
  BY <1>1, <1>2 DEF PollInv, SeenIsSaved, Saved, ToSet
<1> QED BY <1>1, <1>2, <1>4, <1>5 DEF PollInv, DaysInOrder, PagesCover, PassedHasAll, PassedMeansAll, At

(* A movement that arrives between two pages only moves the next page      *)
(* further into what was read.                                             *)
LEMMA ArrivesInv ==
  ASSUME PollInv, MovementArrives
  PROVE  PollInv'
<1>1. /\ posted < Len(Feed) /\ Feed[posted + 1].day = day /\ posted' = posted + 1
      /\ UNCHANGED <<day, monitor, poll, db>>
  BY DEF MovementArrives
<1>2. posted \in Nat /\ posted' \in 1 .. Len(Feed) /\ day \in Nat /\ poll.entered <= posted
      /\ poll.entered \in Nat
  BY <1>1, FeedFacts DEF PollInv, TypeOK, Polls
<1>3. TypeOK'
  BY <1>1, <1>2, FeedFacts DEF PollInv, TypeOK
<1>4. DaysInOrder'
  <2>1. /\ \A j \in 1 .. posted : Feed[j].day \in Nat /\ Feed[j].day <= day
        /\ \A j, k \in 1 .. posted : j <= k => Feed[j].day <= Feed[k].day
    BY DEF PollInv, DaysInOrder
  <2>2. \A j \in 1 .. posted' : j \in 1 .. posted \/ j = posted'
    BY <1>1, <1>2
  <2>3. ASSUME NEW j \in 1 .. posted', NEW k \in 1 .. posted', j <= k
        PROVE  Feed[j].day <= Feed[k].day
    <3>1. CASE j \in 1 .. posted /\ k \in 1 .. posted
      BY <2>1, <2>3, <3>1
    <3>2. CASE k = posted'
      <4>1. Feed[k].day = day
        BY <1>1, <3>2
      <4>2. Feed[j].day <= day
        BY <1>1, <1>2, <2>1, <2>2
      <4> QED BY <4>1, <4>2
    <3>3. CASE j = posted' /\ k # posted'
      BY <1>1, <1>2, <2>2, <2>3, <3>3
    <3> QED BY <2>2, <3>1, <3>2, <3>3
  <2>4. \A j \in 1 .. posted' : Feed[j].day \in Nat /\ Feed[j].day <= day
    BY <1>1, <1>2, <2>1, <2>2
  <2> QED BY <1>1, <2>3, <2>4 DEF DaysInOrder
<1>5. PagesCover'
  <2> SUFFICES ASSUME At("pages") PROVE \E lo \in Nat \ {0} : Covers(lo)'
    BY <1>1 DEF PagesCover, At
  <2>1. PICK lo \in Nat \ {0} : Covers(lo)
    BY DEF PollInv, PagesCover
  <2> DEFINE off == poll.pages * PageSize
  <2>a. poll.pages \in Nat /\ PageSize \in Nat
    BY PagesArePositive DEF PollInv, TypeOK, Polls
  <2>2. off \in Nat
    BY <2>a
  <2>3. /\ lo = 1 \/ lo <= posted - off + 1
        /\ \A m \in ToSet(poll.merged) : \E l \in lo .. posted : Feed[l] = m
        /\ \A l \in lo .. poll.entered : Feed[l] \in ToSet(poll.merged)
    BY <2>1 DEF Covers
  <2> HIDE DEF off
  <2>4. lo = 1 \/ lo <= posted' - off + 1
    BY <1>1, <1>2, <2>2, <2>3
  <2>5. \A m \in ToSet(poll.merged) : \E l \in lo .. posted' : Feed[l] = m
    <3>1. \A l \in lo .. posted : l \in lo .. posted'
      BY <1>1, <1>2
    <3> QED BY <2>3, <3>1
  <2>6. Covers(lo)'
    BY <1>1, <2>3, <2>4, <2>5 DEF Covers, off
  <2> QED BY <2>6
<1>6. SeenIsSaved' /\ PassedHasAll' /\ PassedMeansAll'
  BY <1>1 DEF PollInv, SeenIsSaved, Saved, PassedHasAll, PassedMeansAll, At
<1> QED BY <1>3, <1>4, <1>5, <1>6 DEF PollInv

LEMMA MidnightInv ==
  ASSUME PollInv, Midnight
  PROVE  PollInv'
<1>1. day' = day + 1 /\ UNCHANGED <<posted, monitor, poll, db>> /\ day \in Nat
  BY DEF Midnight, PollInv, TypeOK
<1>2. TypeOK' /\ DaysInOrder'
  BY <1>1, FeedFacts DEF PollInv, TypeOK, DaysInOrder
<1>3. PagesCover'
  BY <1>1 DEF PollInv, PagesCover, Covers, At
<1>4. SeenIsSaved' /\ PassedHasAll' /\ PassedMeansAll'
  BY <1>1 DEF PollInv, SeenIsSaved, Saved, PassedHasAll, PassedMeansAll, At
<1> QED BY <1>2, <1>3, <1>4 DEF PollInv

LEMMA PollNext == PollInv /\ [Next]_vars => PollInv'
<1> SUFFICES ASSUME PollInv, [Next]_vars PROVE PollInv'
  OBVIOUS
<1>1. CASE UNCHANGED vars
  <2>1. UNCHANGED <<posted, day, monitor, poll, db>>
    BY <1>1 DEF vars
  <2> QED BY <2>1 DEF PollInv, TypeOK, DaysInOrder, PagesCover, Covers, PassedHasAll, PassedMeansAll,
      SeenIsSaved, Saved, At
<1>2. CASE \/ Launch \/ Login \/ Authenticate \/ NoteFailure \/ SessionEnded
           \/ LoopTop \/ CheckSession \/ KeepAlive \/ Sleep
  BY <1>2, LaunchInv, SessionInv, LoopInv
<1>3. CASE OpenMovements \/ LoadPages \/ BuildBatch
  BY <1>3, OpenInv, LoadInv, BuildInv
<1>4. CASE TakeFresh \/ IngestNext \/ IngestDone
  BY <1>4, TakeInv, IngestInv, DoneInv
<1>5. CASE PollFails \/ IngestFails
  BY <1>5, FailInv
<1>6. CASE MovementArrives \/ Midnight
  BY <1>6, ArrivesInv, MidnightInv
<1> QED BY <1>1, <1>2, <1>3, <1>4, <1>5, <1>6 DEF Next, Limited, Unlimited

(* Of every poll loop, for any feed, page size and cap: the movements of a *)
(* day stay in order, and the pages read so far have no hole.              *)
THEOREM PollSafe == Spec => []PollInv
<1>1. Init => PollInv
  BY PollInit
<1>2. PollInv /\ [Next]_vars => PollInv'
  BY PollNext
<1> QED BY <1>1, <1>2, PTL DEF Spec

(* What the loop marked as seen is in the database or in the batch being   *)
(* ingested: no payment is skipped because an ingestion failed.            *)
THEOREM SeenStaysSaved == Spec => []SeenIsSaved
<1>1. PollInv => SeenIsSaved
  BY DEF PollInv
<1> QED BY <1>1, PollSafe, PTL

(* A poll that passed today has every payment of today the bank had when   *)
(* the movements were opened, whatever arrived while the pages loaded.     *)
THEOREM PassingMeansAll == Spec => []PassedMeansAll
<1>1. PollInv => PassedMeansAll
  BY DEF PollInv
<1> QED BY <1>1, PollSafe, PTL

-----------------------------------------------------------------------------
(* The one-shot scrape of Mi Dinero. *)

AllMovements == ToSet(Feed) \cup ToSet(Personal)
References == {p.id : p \in ToSet(Feed)}
Entries == [ref : References, movement : AllMovements]

(* What an answer of getMovements may list.                                *)
Offered == {Personal} \cup {Listing(k) : k \in 0 .. posted}

Pages == [selected : BOOLEAN, clicks : Nat, responses : Seq(Offered), since : Nat, steady : BOOLEAN]

Runs ==
    [step : {"idle", "navigate", "fill", "submit", "select", "ingresos", "wait", "filter",
             "rows", "detail", "ingest"},
     version : {Script200, Script201, Script202}, last : References \cup {None}, attempt : Nat,
     movements : Seq(AllMovements), rows : Seq(ToSet(Feed)), at : Nat \ {0}, built : Seq(Entries)]

ScrapeTypeOK ==
    /\ posted \in 0 .. Len(Feed)
    /\ page \in Pages
    /\ script \in Runs
    /\ db \subseteq Entries

(* The table read in a scrape is EMPRESAS's, and the last reference known. *)
Chosen ==
    /\ script.step \in {"ingresos", "wait", "filter", "rows"} => page.selected
    /\ script.last \in {None} \cup Registered
    /\ script.step \notin {"detail", "ingest"} => script.built = <<>> /\ script.at = 1

ListsRead ==
    /\ script.step = "filter" => script.movements \in Offered
    /\ script.step \in {"rows", "detail"} =>
          \E list \in Offered : script.movements = IncomingMovements(list, script.version)
    /\ script.step = "detail" =>
          /\ \E k \in 0 .. posted : script.rows = GetIncomingRows(Listing(k))
          /\ Len(script.movements) <= Len(script.rows)
          /\ script.at <= Len(script.movements) + 1

Whole(t) ==
    \E p \in Payments :
        /\ p.id = t.ref
        /\ (p.minute + p.delay) - t.movement.minute \in -30 .. 30

EntriesWhole == \A t \in db \cup ToSet(script.built) : Whole(t)

(* Everything up to the payment of a reference was given up.               *)
Hidden(ref) == \E f \in 1 .. posted : Feed[f].id = ref /\ \A j \in 1 .. f : Feed[j] \in given

BuiltKnown ==
    \A t \in ToSet(script.built) :
        \/ t.ref = t.movement.id /\ t.movement \in Payments
        \/ Hidden(t.ref)

BuiltRefs == {t.ref : t \in ToSet(script.built)}

(* What the turns of the detail loop before this one did.                  *)
Handled ==
    script.step = "detail" =>
        /\ \A i \in 1 .. script.at - 1 :
              /\ script.movements[i] \in given \/ script.movements[i].id \in BuiltRefs
              /\ ~script.version.dropsExchange => script.rows[i].id \in BuiltRefs
        /\ \A t \in ToSet(script.built) :
              \/ Hidden(t.ref)
              \/ \E i \in 1 .. script.at - 1 :
                    script.rows[i] = script.movements[i] /\ t.ref = script.rows[i].id

(* Once a row and a movement are the same payment, so are the next ones.   *)
Aligned ==
    script.step = "detail" /\ script.version.dropsExchange =>
        \A i \in 1 .. script.at - 1 :
            script.rows[i] = script.movements[i] =>
                \A p \in i .. script.at - 1 : script.rows[p] = script.movements[p]

Pending == IF script.step = "ingest" THEN BuiltRefs ELSE {}

NoGap ==
    \A j, k \in 1 .. posted :
        /\ j < k /\ Feed[k].id \in Registered \cup Pending
        /\ Feed[j].kind = "in" /\ Feed[j].today
        => Feed[j].id \in Registered \cup Pending \/ Feed[j] \in given

ScrapeInv ==
    /\ ScrapeTypeOK /\ Chosen /\ ListsRead /\ EntriesWhole /\ BuiltKnown
    /\ Handled /\ Aligned /\ NoGap

-----------------------------------------------------------------------------
LEMMA FeedIds ==
  /\ \A j \in 1 .. Len(Feed) : Feed[j] \in ToSet(Feed) /\ Feed[j].id \in References
  /\ \A j \in 1 .. Len(Feed) : Feed[j].id # None /\ Feed[j] \notin ToSet(Personal)
  /\ \A j, k \in 1 .. Len(Feed) : Feed[j].id = Feed[k].id => j = k
BY FeedFacts, ReferencesAreUnique DEF References, ToSet

(* A finite set of numbers has a greatest one: the one of the last rank.   *)
LEMMA Greatest ==
  ASSUME NEW K, K \subseteq Int, IsFiniteSet(K), K # {}
  PROVE  \E g \in K : \A x \in K : x <= g
<1> DEFINE n == Cardinality(K)
<1>1. n \in Nat /\ n # 0
  BY FS_CardinalityType, FS_EmptySet
<1>a. n \in 1 .. n
  <2> HIDE DEF n
  <2> QED BY <1>1
<1>2. PICK g \in K : Rank(K, g) = n
  BY <1>a, Ranks
<1>3. {j \in K : j <= g} = K
  <2>1. {j \in K : j <= g} \in SUBSET K /\ Cardinality({j \in K : j <= g}) = n
    BY <1>2 DEF Rank
  <2> QED BY <2>1, FS_Subset
<1> QED BY <1>3

LEMMA BestIsOne ==
  ASSUME NEW T, NEW candidates \in Seq(Seq(T)), candidates # <<>>
  PROVE  BestCandidate(candidates) \in 1 .. Len(candidates)
<1> DEFINE n == Len(candidates)
           lens == {Len(candidates[j]) : j \in 1 .. n}
<1>1. n \in Nat /\ n # 0 /\ DOMAIN candidates = 1 .. n
      /\ \A j \in 1 .. n : Len(candidates[j]) \in Nat
  OBVIOUS
<1> HIDE DEF n
<1>2. IsFiniteSet(1 .. n)
  BY <1>1, FS_Interval
<1>3. IsFiniteSet(lens) /\ lens # {} /\ lens \subseteq Int
  <2>1. 1 \in 1 .. n
    BY <1>1
  <2>2. Len(candidates[1]) \in lens
    BY <2>1
  <2> DEFINE len == [j \in 1 .. n |-> Len(candidates[j])]
  <2>3. len \in Surjection(1 .. n, lens)
    BY DEF Surjection
  <2>4. IsFiniteSet(lens)
    <3> HIDE DEF len, lens
    <3> QED BY <1>2, <2>3, FS_Surjection
  <2>5. lens \subseteq Int
    BY <1>1
  <2> HIDE DEF lens
  <2> QED BY <2>2, <2>4, <2>5
<1>4. PICK g \in lens : \A x \in lens : x <= g
  <2> HIDE DEF lens
  <2> QED BY <1>3, Greatest
<1> DEFINE longest == {j \in 1 .. n : Len(candidates[j]) = g}
<1>5. IsFiniteSet(longest) /\ longest # {} /\ longest \subseteq Int
  <2>1. longest \in SUBSET (1 .. n)
    OBVIOUS
  <2>2. IsFiniteSet(longest)
    BY <1>2, <2>1, FS_Subset
  <2>3. PICK j \in 1 .. n : Len(candidates[j]) = g
    BY <1>4
  <2>4. j \in longest
    BY <2>3
  <2>5. longest \subseteq Int
    BY <1>1
  <2> HIDE DEF longest
  <2> QED BY <2>2, <2>4, <2>5
<1>6. PICK i \in longest : \A j \in longest : j <= i
  <2> HIDE DEF longest
  <2> QED BY <1>5, Greatest
<1>7. \A j \in 1 .. n : Len(candidates[j]) <= Len(candidates[i])
  BY <1>1, <1>4, <1>6
<1>8. \A j \in 1 .. n : \/ Len(candidates[j]) < Len(candidates[i])
                        \/ Len(candidates[j]) = Len(candidates[i]) /\ j <= i
  <2> SUFFICES ASSUME NEW j \in 1 .. n
               PROVE  \/ Len(candidates[j]) < Len(candidates[i])
                      \/ Len(candidates[j]) = Len(candidates[i]) /\ j <= i
    OBVIOUS
  <2>1. CASE j \in longest
    BY <1>6, <2>1
  <2>2. CASE j \notin longest
    <3>1. Len(candidates[j]) # g /\ Len(candidates[i]) = g
      BY <1>6, <2>2
    <3> QED BY <1>1, <1>6, <1>7, <3>1
  <2> QED BY <2>1, <2>2
<1>9. i \in 1 .. n
  BY <1>6
<1> QED BY <1>1, <1>8, <1>9 DEF BestCandidate, n

-----------------------------------------------------------------------------
(* A list taken from Feed: at gives the index of each of its members, from *)
(* the last that arrived down, and none of S up to k is left out.          *)
Picks(list, k, S, at) ==
    /\ Len(list) \in Nat /\ DOMAIN list = 1 .. Len(list)
    /\ at \in [1 .. Len(list) -> 1 .. k]
    /\ \A p \in 1 .. Len(list) : list[p] = Feed[at[p]] /\ Feed[at[p]] \in S
    /\ \A p, q \in 1 .. Len(list) : p < q => at[q] < at[p]
    /\ \A f \in 1 .. k : Feed[f] \in S => \E p \in 1 .. Len(list) : at[p] = f

LEMMA ListingPicks ==
  ASSUME NEW k \in 0 .. Len(Feed)
  PROVE  Picks(Listing(k), k, Movements, [i \in 1 .. k |-> k - i + 1])
<1> DEFINE at == [i \in 1 .. k |-> k - i + 1]
<1>1. k \in Nat /\ k <= Len(Feed) /\ Len(Feed) \in Nat
  BY FeedFacts
<1>2. /\ Listing(k) \in Seq(Movements) /\ Len(Listing(k)) = k
      /\ \A i \in 1 .. k : Listing(k)[i] = Feed[k - i + 1]
  BY ListingFacts
<1>3. at \in [1 .. k -> 1 .. k]
  BY <1>1
<1>4. \A p, q \in 1 .. k : p < q => at[q] < at[p]
  BY <1>1
<1>5. ASSUME NEW f \in 1 .. k PROVE \E p \in 1 .. k : at[p] = f
  <2>1. k - f + 1 \in 1 .. k /\ at[k - f + 1] = f
    BY <1>1
  <2> QED BY <2>1
<1>6. \A p \in 1 .. k : Listing(k)[p] = Feed[at[p]] /\ Feed[at[p]] \in Movements
  BY <1>1, <1>2, FeedFacts
<1> HIDE DEF at
<1>7. DOMAIN Listing(k) = 1 .. k
  BY <1>2
<1> QED BY <1>1, <1>2, <1>3, <1>4, <1>5, <1>6, <1>7 DEF Picks, at

LEMMA OnlyPicks ==
  ASSUME NEW T, NEW list \in Seq(T), NEW k \in Nat, NEW S, NEW at, Picks(list, k, S, at), NEW U,
         NEW W, \A f \in 1 .. k : Feed[f] \in W <=> Feed[f] \in S /\ Feed[f] \in U
  PROVE  \E b : Picks(Only(list, U), k, W, b)
<1> DEFINE o == Only(list, U)
<1>1. PICK c \in [1 .. Len(o) -> Kept(list, U)] :
         /\ \A p \in 1 .. Len(o) : o[p] = list[c[p]]
         /\ \A p, q \in 1 .. Len(o) : p < q => c[p] < c[q]
         /\ \A i \in Kept(list, U) : \E p \in 1 .. Len(o) : c[p] = i
  BY OnlyPositions
<1>2. o \in Seq(T) /\ Len(o) \in Nat /\ DOMAIN o = 1 .. Len(o)
  BY OnlyMembers
<1> HIDE DEF o
<1>3. \A i \in Kept(list, U) : i \in 1 .. Len(list) /\ list[i] \in U
  BY DEF Kept, Picks
<1>4. \A i \in 1 .. Len(list) : list[i] \in U => i \in Kept(list, U)
  BY DEF Kept, Picks
<1> DEFINE b == [p \in 1 .. Len(o) |-> at[c[p]]]
<1>5. b \in [1 .. Len(o) -> 1 .. k]
  BY <1>1, <1>3 DEF Picks
<1>6. \A p \in 1 .. Len(o) : o[p] = Feed[b[p]] /\ Feed[b[p]] \in W
  <2> SUFFICES ASSUME NEW p \in 1 .. Len(o) PROVE o[p] = Feed[b[p]] /\ Feed[b[p]] \in W
    OBVIOUS
  <2>1. c[p] \in 1 .. Len(list) /\ list[c[p]] \in U
    BY <1>1, <1>3
  <2>2. b[p] \in 1 .. k /\ list[c[p]] = Feed[b[p]] /\ Feed[b[p]] \in S
    BY <1>5, <2>1 DEF Picks
  <2> QED BY <1>1, <2>1, <2>2
<1>7. ASSUME NEW p \in 1 .. Len(o), NEW q \in 1 .. Len(o), p < q PROVE b[q] < b[p]
  BY <1>1, <1>3, <1>7 DEF Picks
<1>8. ASSUME NEW f \in 1 .. k, Feed[f] \in W PROVE \E p \in 1 .. Len(o) : b[p] = f
  <2>1. PICK i \in 1 .. Len(list) : at[i] = f
    BY <1>8 DEF Picks
  <2>2. i \in Kept(list, U)
    BY <1>4, <1>8, <2>1 DEF Picks
  <2> QED BY <1>1, <2>1, <2>2
<1> HIDE DEF b
<1>9. Picks(o, k, W, b)
  BY <1>2, <1>5, <1>6, <1>7, <1>8 DEF Picks
<1> QED BY <1>9 DEF o

Incoming == {m \in Movements : m.kind = "in"}
Eligible(v) ==
    {m \in Movements : m.today /\ (m.kind = "in" \/ (m.kind = "exchange" /\ ~v.dropsExchange))}

LEMMA RowsPick ==
  ASSUME NEW k \in 0 .. Len(Feed)
  PROVE  \E b : Picks(GetIncomingRows(Listing(k)), k, Incoming, b)
<1> DEFINE at == [i \in 1 .. k |-> k - i + 1]
           U == {m \in ToSet(Listing(k)) : m.kind = "in"}
<1>1. k \in Nat /\ Listing(k) \in Seq(Movements) /\ Picks(Listing(k), k, Movements, at)
  BY FeedFacts, ListingFacts, ListingPicks
<1>2. ASSUME NEW f \in 1 .. k PROVE Feed[f] \in Movements /\ Feed[f] \in ToSet(Listing(k))
  <2>1. Feed[f] \in Movements
    BY FeedFacts
  <2>2. PICK p \in 1 .. Len(Listing(k)) : Listing(k)[p] = Feed[f]
    <3> HIDE DEF at
    <3> QED BY <1>1, <2>1 DEF Picks
  <2>3. p \in DOMAIN Listing(k)
    BY <1>1, <2>2
  <2> QED BY <2>1, <2>2, <2>3 DEF ToSet
<1>3. \A f \in 1 .. k : Feed[f] \in Incoming <=> Feed[f] \in Movements /\ Feed[f] \in U
  BY <1>2 DEF Incoming
<1> HIDE DEF U, at
<1> QED BY <1>1, <1>3, OnlyPicks DEF GetIncomingRows, U

LEMMA MovementsPick ==
  ASSUME NEW k \in 0 .. Len(Feed), NEW v
  PROVE  \E b : Picks(IncomingMovements(Listing(k), v), k, Eligible(v), b)
<1> DEFINE at == [i \in 1 .. k |-> k - i + 1]
           T == {m \in ToSet(Listing(k)) : m.today}
           U == {m \in ToSet(Listing(k)) :
                    m.kind = "in" \/ (m.kind = "exchange" /\ ~v.dropsExchange)}
           day0 == {m \in Movements : m.today}
<1>1. k \in Nat /\ Listing(k) \in Seq(Movements) /\ Picks(Listing(k), k, Movements, at)
  BY FeedFacts, ListingFacts, ListingPicks
<1>2. ASSUME NEW f \in 1 .. k PROVE Feed[f] \in Movements /\ Feed[f] \in ToSet(Listing(k))
  <2>1. Feed[f] \in Movements
    BY FeedFacts
  <2>2. PICK p \in 1 .. Len(Listing(k)) : Listing(k)[p] = Feed[f]
    <3> HIDE DEF at
    <3> QED BY <1>1, <2>1 DEF Picks
  <2>3. p \in DOMAIN Listing(k)
    BY <1>1, <2>2
  <2> QED BY <2>1, <2>2, <2>3 DEF ToSet
<1>3. \A f \in 1 .. k : Feed[f] \in day0 <=> Feed[f] \in Movements /\ Feed[f] \in T
  BY <1>2
<1>4. \A f \in 1 .. k : Feed[f] \in Eligible(v) <=> Feed[f] \in day0 /\ Feed[f] \in U
  BY <1>2 DEF Eligible
<1>5. TodayMovements(Listing(k)) = Only(Listing(k), T)
  BY DEF TodayMovements
<1>6. IncomingMovements(Listing(k), v) = Only(TodayMovements(Listing(k)), U)
  BY DEF IncomingMovements
<1> HIDE DEF U, T, at, day0
<1>7. PICK b : Picks(TodayMovements(Listing(k)), k, day0, b)
  BY <1>1, <1>3, <1>5, OnlyPicks
<1>8. TodayMovements(Listing(k)) \in Seq(Movements)
  BY <1>1, <1>5, OnlyMembers
<1> QED BY <1>1, <1>4, <1>6, <1>7, <1>8, OnlyPicks

(* What a script without exchanges has after a payment it has in the place *)
(* of its own row is in the place of its own row too.                      *)
LEMMA AlignNext ==
  ASSUME NEW k \in 0 .. Len(Feed), NEW l \in 0 .. Len(Feed), NEW v, v.dropsExchange,
         NEW rows, NEW a, Picks(rows, k, Incoming, a),
         NEW movements, NEW b, Picks(movements, l, Eligible(v), b),
         NEW p \in Nat \ {0}, p + 1 <= Len(movements), p + 1 <= Len(rows), a[p] = b[p]
  PROVE  a[p + 1] = b[p + 1]
<1>0. /\ Len(rows) \in Nat /\ Len(movements) \in Nat /\ k \in Nat /\ l \in Nat
      /\ k <= Len(Feed) /\ l <= Len(Feed) /\ Len(Feed) \in Nat
  BY FeedFacts DEF Picks
<1>1. /\ p \in 1 .. Len(rows) /\ p + 1 \in 1 .. Len(rows)
      /\ p \in 1 .. Len(movements) /\ p + 1 \in 1 .. Len(movements) /\ p < p + 1
  BY <1>0
<1> DEFINE f == a[p]
           h == a[p + 1]
           g == b[p + 1]
<1>2. /\ f \in 1 .. k /\ f \in 1 .. l /\ h \in 1 .. k /\ g \in 1 .. l
      /\ h < f /\ g < f
  BY <1>1 DEF Picks
<1>3. Feed[g] \in Eligible(v) /\ Feed[h] \in Incoming
  BY <1>1 DEF Picks
<1>4. Feed[g] \in Incoming /\ Feed[g].today
  BY <1>3 DEF Eligible, Incoming
<1>5. ASSUME NEW q \in 1 .. Len(rows), a[q] < f PROVE a[q] <= h
  <2>1. q # p /\ ~(q < p)
    <3>1. a[q] \in 1 .. k /\ a[p] \in 1 .. k /\ (q < p => a[p] < a[q])
      BY <1>1 DEF Picks
    <3>2. a[q] < a[p]
      BY <1>5, <1>2
    <3> QED BY <1>0, <3>1, <3>2
  <2>2. q = p + 1 \/ p + 1 < q
    BY <1>0, <2>1
  <2>3. p + 1 < q => a[q] < a[p + 1]
    BY <1>1 DEF Picks
  <2>4. a[q] \in 1 .. k
    BY DEF Picks
  <2> QED BY <1>2, <2>2, <2>3, <2>4
<1>6. ASSUME NEW q \in 1 .. Len(movements), b[q] < f PROVE b[q] <= g
  <2>1. q # p /\ ~(q < p)
    <3>1. b[q] \in 1 .. l /\ b[p] \in 1 .. l /\ (q < p => b[p] < b[q])
      BY <1>1 DEF Picks
    <3>2. b[q] < b[p]
      BY <1>6, <1>2
    <3> QED BY <1>0, <3>1, <3>2
  <2>2. q = p + 1 \/ p + 1 < q
    BY <1>0, <2>1
  <2>3. p + 1 < q => b[q] < b[p + 1]
    BY <1>1 DEF Picks
  <2>4. b[q] \in 1 .. l
    BY DEF Picks
  <2> QED BY <1>2, <2>2, <2>3, <2>4
<1> HIDE DEF f, g, h
<1>7. g <= h
  <2>1. g \in 1 .. k
    BY <1>0, <1>2
  <2>2. PICK q \in 1 .. Len(rows) : a[q] = g
    BY <1>4, <2>1 DEF Picks
  <2> QED BY <1>2, <1>5, <2>2
<1>8. h <= g
  <2>1. h \in 1 .. l
    BY <1>0, <1>2
  <2>2. Feed[h].today
    <3>1. CASE h = g
      BY <1>4, <3>1
    <3>2. CASE g < h
      <4>1. g \in DOMAIN Feed /\ h \in DOMAIN Feed
        BY <1>0, <1>2, FeedFacts
      <4> QED BY <1>4, <3>2, <4>1, PaymentsAreDated
    <3> QED BY <1>2, <1>7, <3>1, <3>2
  <2>3. Feed[h] \in Eligible(v)
    BY <1>3, <2>2 DEF Incoming, Eligible
  <2>4. PICK q \in 1 .. Len(movements) : b[q] = h
    BY <2>1, <2>3 DEF Picks
  <2> QED BY <1>2, <1>6, <2>4
<1> QED BY <1>2, <1>7, <1>8 DEF g, h

-----------------------------------------------------------------------------
LEMMA ScrapeStarts == ScrapeInit => ScrapeInv
<1> SUFFICES ASSUME ScrapeInit PROVE ScrapeInv
  OBVIOUS
<1>1. /\ posted = 0 /\ db = {} /\ given = {} /\ page = ClosedPage /\ script = Idle
  BY DEF ScrapeInit
<1>2. ClosedPage \in Pages
  BY DEF ClosedPage, Pages
<1>3. Idle \in Runs
  BY DEF Idle, Runs
<1>4. Idle.step = "idle" /\ Idle.built = <<>> /\ Idle.last = None /\ Idle.at = 1
  BY DEF Idle
<1>5. ScrapeTypeOK
  BY <1>1, <1>2, <1>3, FeedFacts DEF ScrapeTypeOK
<1>6. ToSet(script.built) = {}
  BY <1>1, <1>4 DEF ToSet
<1> QED BY <1>1, <1>4, <1>5, <1>6
    DEF ScrapeInv, Chosen, ListsRead, EntriesWhole, BuiltKnown, Handled, Aligned, NoGap

(* A step that registers nothing and takes nothing back leaves no gap.     *)
LEMMA SameGap ==
  ASSUME NoGap, UNCHANGED <<posted, db>>, given \subseteq given',
         \A ref \in Pending' : ref \in Registered \cup Pending,
         \A j \in 1 .. posted : Feed[j].id \in Pending => Feed[j].id \in Pending' \/ Feed[j] \in given'
  PROVE  NoGap'
<1>1. Registered' = Registered
  BY DEF Registered
<1> QED BY <1>1 DEF NoGap

(* Before the details: the steps that only move the page and the script.   *)
LEMMA QuietInv ==
  ASSUME ScrapeInv, UNCHANGED <<posted, db, given>>, page' \in Pages, script' \in Runs,
         script'.step \in {"idle", "navigate", "fill", "submit", "select", "ingresos", "wait"},
         script'.built = <<>>, script'.at = 1, script.step \notin {"detail", "ingest"},
         script'.last \in {None} \cup Registered,
         script'.step \in {"ingresos", "wait"} => page'.selected
  PROVE  ScrapeInv'
<1>1. Registered' = Registered /\ Pending = {} /\ Pending' = {} /\ Payments' = Payments
  BY DEF Registered, Pending, Payments
<1>2. ScrapeTypeOK'
  BY DEF ScrapeInv, ScrapeTypeOK, Pages, Offered
<1>3. NoGap'
  BY <1>1, SameGap DEF ScrapeInv
<1>4. ToSet(script'.built) = {}
  BY DEF ToSet
<1>5. EntriesWhole' /\ BuiltKnown'
  BY <1>1, <1>4 DEF ScrapeInv, EntriesWhole, BuiltKnown, Whole
<1>6. Chosen' /\ ListsRead' /\ Handled' /\ Aligned'
  BY <1>1 DEF Chosen, ListsRead, Handled, Aligned
<1> QED BY <1>2, <1>3, <1>5, <1>6 DEF ScrapeInv

LEMMA StopInv ==
  ASSUME ScrapeInv, Stop, UNCHANGED <<posted, db>>, given \subseteq given',
         \A j \in 1 .. posted : Feed[j].id \in Pending => Feed[j] \in given'
  PROVE  ScrapeInv'
<1>1. script' = Idle /\ page' = ClosedPage
  BY DEF Stop
<1>2. ClosedPage \in Pages' /\ Idle \in Runs
  BY DEF ClosedPage, Pages, Idle, Runs
<1>3. script'.step = "idle" /\ script'.built = <<>> /\ script'.last = None /\ script'.at = 1
  BY <1>1 DEF Idle
<1>4. Registered' = Registered /\ Pending' = {} /\ Payments' = Payments
  BY <1>3 DEF Registered, Pending, Payments
<1>5. ScrapeTypeOK'
  BY <1>1, <1>2 DEF ScrapeInv, ScrapeTypeOK
<1>6. NoGap'
  BY <1>4, SameGap DEF ScrapeInv
<1>7. ToSet(script'.built) = {}
  BY <1>3 DEF ToSet
<1>8. EntriesWhole' /\ BuiltKnown'
  BY <1>4, <1>7 DEF ScrapeInv, EntriesWhole, BuiltKnown, Whole
<1>9. Chosen' /\ ListsRead' /\ Handled' /\ Aligned'
  BY <1>3 DEF Chosen, ListsRead, Handled, Aligned
<1> QED BY <1>5, <1>6, <1>8, <1>9 DEF ScrapeInv

LEMMA StartInv ==
  ASSUME ScrapeInv, StartScrape
  PROVE  ScrapeInv'
<1>1. PICK v \in Versions, ref \in {None} \cup {t.ref : t \in db} :
         /\ IsLatest(ref)
         /\ script' = [Idle EXCEPT !.step = "navigate", !.version = v, !.last = ref]
  BY DEF StartScrape
<1>2. UNCHANGED <<posted, page, db, given>> /\ script.step = "idle"
  BY DEF StartScrape
<1>3. ref \in {None} \cup Registered /\ ref \in References \cup {None}
  BY DEF Registered, ScrapeInv, ScrapeTypeOK, Entries
<1>a. v \in {Script200, Script201, Script202}
  BY VersionsAreKnown
<1>b. script' = [step |-> "navigate", version |-> v, last |-> ref, attempt |-> 1,
                 movements |-> <<>>, rows |-> <<>>, at |-> 1, built |-> <<>>]
  BY <1>1 DEF Idle
<1>4. script' \in Runs /\ script'.step = "navigate" /\ script'.built = <<>> /\ script'.last = ref
      /\ script'.at = 1
  <2> HIDE DEF Script200, Script201, Script202
  <2> QED BY <1>3, <1>a, <1>b DEF Runs
<1> QED BY <1>2, <1>3, <1>4, QuietInv DEF ScrapeInv, ScrapeTypeOK, Pages, Offered

(* Until the list: each step goes on or ends the scrape.                   *)
LEMMA LoginInv ==
  ASSUME ScrapeInv, Navigate \/ FillLoginForm \/ SubmitLogin
  PROVE  ScrapeInv'
<1>1. /\ UNCHANGED <<posted, db, given>> /\ script.step \in {"navigate", "fill", "submit"}
  BY DEF Navigate, FillLoginForm, SubmitLogin
<1>2. Pending = {}
  BY <1>1 DEF Pending
<1>3. CASE Stop
  BY <1>1, <1>2, <1>3, StopInv
<1>4. ASSUME NEW s \in {"fill", "submit", "select"}, Proceed(s), UNCHANGED page PROVE ScrapeInv'
  <2>1. script' = [script EXCEPT !.step = s]
    BY <1>4 DEF Proceed
  <2>2. script' \in Runs /\ script'.step = s /\ script'.built = script.built
        /\ script'.last = script.last /\ script'.at = script.at
    BY <2>1 DEF ScrapeInv, ScrapeTypeOK, Runs
  <2>3. script'.built = <<>> /\ script'.at = 1 /\ script'.last \in {None} \cup Registered
    BY <1>1, <2>2 DEF ScrapeInv, Chosen
  <2> QED BY <1>1, <1>4, <2>2, <2>3, QuietInv DEF ScrapeInv, ScrapeTypeOK, Pages, Offered
<1> QED BY <1>3, <1>4 DEF Navigate, FillLoginForm, SubmitLogin

LEMMA CaptureInv ==
  ASSUME ScrapeInv, CaptureMovements
  PROVE  ScrapeInv'
<1> DEFINE still(list) == page.steady /\ (script.step = "wait" => list = Listing(posted))
<1>1. PICK list \in Offered :
        page' = [page EXCEPT !.responses = Append(page.responses, list), !.steady = still(list)]
  BY DEF CaptureMovements, Offered
<1>2. /\ UNCHANGED <<posted, script, db, given>> /\ script.step \in {"select", "ingresos", "wait"}
  BY DEF CaptureMovements
<1>a. page \in Pages /\ page.responses \in Seq(Offered)
  BY DEF ScrapeInv, ScrapeTypeOK, Pages
<1>b. Append(page.responses, list) \in Seq(Offered)
  <2> HIDE DEF Offered
  <2> QED BY <1>a
<1>3. page' \in Pages /\ page'.selected = page.selected
  <2> DEFINE kept == still(list)
  <2>1. kept \in BOOLEAN
    BY <1>a DEF Pages
  <2>2. page' = [page EXCEPT !.responses = Append(page.responses, list), !.steady = kept]
    BY <1>1
  <2> HIDE DEF kept, Offered
  <2> QED BY <1>a, <1>b, <2>1, <2>2 DEF Pages
<1>4. script \in Runs /\ script.built = <<>> /\ script.at = 1 /\ script.last \in {None} \cup Registered
      /\ (script.step \in {"ingresos", "wait"} => page.selected)
  BY <1>2 DEF ScrapeInv, ScrapeTypeOK, Chosen
<1> QED BY <1>2, <1>3, <1>4, QuietInv

(* Choosing the card, and the click on Ingresos.                           *)
LEMMA SelectInv ==
  ASSUME ScrapeInv, ClickEmpresasCard \/ SelectEmpresasCard \/ ClickIngresos
  PROVE  ScrapeInv'
<1>1. /\ UNCHANGED <<posted, db, given>> /\ script.step \in {"select", "ingresos"}
  BY DEF ClickEmpresasCard, SelectEmpresasCard, ClickIngresos
<1>2. Pending = {}
  BY <1>1 DEF Pending
<1>3. /\ script \in Runs /\ page \in Pages /\ script.built = <<>> /\ script.at = 1
      /\ script.last \in {None} \cup Registered
  BY <1>1 DEF ScrapeInv, ScrapeTypeOK, Chosen
<1>4. CASE Stop
  BY <1>1, <1>2, <1>4, StopInv
<1>5. ASSUME NEW becomes \in BOOLEAN, script.step = "select", UNCHANGED script,
             page' = [page EXCEPT !.clicks = @ + 1, !.selected = becomes]
      PROVE  ScrapeInv'
  <2>1. page' = [selected |-> becomes, clicks |-> page.clicks + 1, responses |-> page.responses,
                 since |-> page.since, steady |-> page.steady]
    BY <1>3, <1>5 DEF Pages
  <2>2. page' \in Pages
    BY <1>3, <2>1 DEF Pages
  <2> QED BY <1>1, <1>3, <1>5, <2>2, QuietInv
<1>6. CASE /\ page.selected /\ Proceed("ingresos")
           /\ page' = [page EXCEPT !.responses = <<>>, !.clicks = 0]
  <2>b. page.selected = TRUE
    BY <1>3, <1>6 DEF Pages
  <2>1. page' = [selected |-> TRUE, clicks |-> 0, responses |-> <<>>, since |-> page.since,
                 steady |-> page.steady]
    BY <1>3, <1>6, <2>b DEF Pages
  <2>a. page' \in Pages /\ page'.selected
    BY <1>3, <2>1 DEF Pages
  <2>2. script' \in Runs /\ script'.step = "ingresos" /\ script'.built = script.built
        /\ script'.last = script.last /\ script'.at = script.at
    BY <1>3, <1>6 DEF Proceed, Runs
  <2> QED BY <1>1, <1>3, <2>a, <2>2, QuietInv
<1>7. CASE /\ script.step = "ingresos" /\ Proceed("wait")
           /\ page' = [page EXCEPT !.since = Len(page.responses), !.steady = TRUE]
  <2>1. page.selected
    BY <1>7 DEF ScrapeInv, Chosen
  <2>2. page' \in Pages /\ page'.selected
    <3>1. Len(page.responses) \in Nat
      BY <1>3 DEF Pages
    <3> QED BY <1>3, <1>7, <2>1, <3>1 DEF Pages
  <2>3. script' \in Runs /\ script'.step = "wait" /\ script'.built = script.built
        /\ script'.last = script.last /\ script'.at = script.at
    BY <1>3, <1>7 DEF Proceed, Runs
  <2> QED BY <1>1, <1>3, <2>2, <2>3, QuietInv
<1> QED BY <1>4, <1>5, <1>6, <1>7 DEF ClickEmpresasCard, SelectEmpresasCard, ClickIngresos

LEMMA OfferedLists ==
  ASSUME ScrapeTypeOK
  PROVE  Offered \subseteq Seq(AllMovements)
<1>1. Personal \in Seq(AllMovements)
  BY PaymentsAreDated DEF AllMovements
<1>2. ASSUME NEW k \in 0 .. posted PROVE Listing(k) \in Seq(AllMovements)
  <2>1. k \in 0 .. Len(Feed)
    BY FeedFacts DEF ScrapeTypeOK
  <2>2. Listing(k) \in Seq(Movements) /\ Movements \subseteq AllMovements
    BY <2>1, ListingFacts DEF Movements, AllMovements
  <2> QED BY <2>2
<1> QED BY <1>1, <1>2 DEF Offered

(* Steps that put what was read into the script, before any detail.        *)
LEMMA ReadInv ==
  ASSUME ScrapeInv, UNCHANGED <<posted, db, given>>, script.step \in {"wait", "filter", "rows"},
         page' \in Pages, page'.selected = page.selected,
         script' \in Runs, script'.step \in {"filter", "rows", "detail"}, script'.at = 1,
         script'.built = script.built, script'.last = script.last, ListsRead'
  PROVE  ScrapeInv'
<1>1. /\ Registered' = Registered /\ Pending = {} /\ Pending' = {} /\ Payments' = Payments
      /\ script.built = <<>> /\ page.selected
  BY DEF Registered, Pending, Payments, ScrapeInv, Chosen
<1>2. ScrapeTypeOK'
  BY DEF ScrapeInv, ScrapeTypeOK, Pages, Offered
<1>3. NoGap'
  BY <1>1, SameGap DEF ScrapeInv
<1>4. ToSet(script'.built) = {}
  BY <1>1 DEF ToSet
<1>5. EntriesWhole' /\ BuiltKnown'
  BY <1>1, <1>4 DEF ScrapeInv, EntriesWhole, BuiltKnown, Whole
<1>6. Chosen' /\ Handled' /\ Aligned'
  BY <1>1, <1>4 DEF ScrapeInv, Chosen, Handled, Aligned
<1> QED BY <1>2, <1>3, <1>5, <1>6 DEF ScrapeInv

LEMMA IncomingMembers ==
  ASSUME NEW T, NEW list \in Seq(T), NEW v
  PROVE  /\ IncomingMovements(list, v) \in Seq(T)
         /\ ToSet(IncomingMovements(list, v)) \subseteq ToSet(list)
<1>1. TodayMovements(list) \in Seq(T) /\ ToSet(TodayMovements(list)) \subseteq ToSet(list)
  BY OnlyMembers DEF TodayMovements
<1> DEFINE today == TodayMovements(list)
<1>2. today \in Seq(T) /\ ToSet(today) \subseteq ToSet(list)
  BY <1>1
<1>3. IncomingMovements(list, v) =
        Only(today, {m \in ToSet(list) : m.kind = "in" \/ (m.kind = "exchange" /\ ~v.dropsExchange)})
  BY DEF IncomingMovements
<1> HIDE DEF today
<1> QED BY <1>2, <1>3, OnlyMembers

LEMMA AwaitInv ==
  ASSUME ScrapeInv, AwaitMovements
  PROVE  ScrapeInv'
<1>1. /\ UNCHANGED <<posted, db, given>> /\ script.step = "wait" /\ Pending = {}
  BY DEF AwaitMovements, Pending
<1>2. /\ script \in Runs /\ page \in Pages /\ script.built = <<>> /\ script.at = 1
      /\ script.last \in {None} \cup Registered /\ ScrapeTypeOK
  BY <1>1 DEF ScrapeInv, ScrapeTypeOK, Chosen
<1>3. CASE /\ BestList # <<>> /\ UNCHANGED page
           /\ script' = [script EXCEPT !.step = "filter", !.movements = BestList]
  <2>1. Candidates \in Seq(Offered)
    <3>1. page.responses \in Seq(Offered) /\ page.since \in Nat
      BY <1>2 DEF Pages
    <3> HIDE DEF Offered
    <3> QED BY <3>1 DEF Candidates
  <2>2. Offered \subseteq Seq(AllMovements)
    BY <1>2, OfferedLists
  <2>3. Candidates \in Seq(Seq(AllMovements)) /\ Candidates # <<>>
    <3> HIDE DEF Offered, Candidates
    <3> QED BY <1>3, <2>1, <2>2 DEF BestList
  <2>4. BestCandidate(Candidates) \in 1 .. Len(Candidates)
    BY <2>3, BestIsOne
  <2>5. BestList \in Offered
    <3> DEFINE best == BestCandidate(Candidates)
    <3>1. best \in 1 .. Len(Candidates) /\ BestList = Candidates[best]
      BY <2>3, <2>4 DEF BestList
    <3> HIDE DEF Offered, Candidates, best
    <3> QED BY <2>1, <3>1
  <2> DEFINE list == BestList
  <2>6. list \in Offered /\ list \in Seq(AllMovements)
    BY <2>2, <2>5
  <2>7. script' = [script EXCEPT !.step = "filter", !.movements = list]
    BY <1>3
  <2> HIDE DEF list
  <2>8. script' \in Runs /\ script'.step = "filter" /\ script'.movements = list
        /\ script'.at = 1 /\ script'.built = script.built /\ script'.last = script.last
    BY <1>2, <2>6, <2>7 DEF Runs
  <2>9. ListsRead'
    BY <1>1, <2>6, <2>8 DEF ListsRead, Offered
  <2> QED BY <1>1, <1>2, <1>3, <2>8, <2>9, ReadInv
<1>4. CASE script' = [script EXCEPT !.step = "select", !.attempt = @ + 1] /\ UNCHANGED page
  <2>1. script.attempt + 1 \in Nat
    BY <1>2 DEF Runs
  <2>2. script' \in Runs /\ script'.step = "select" /\ script'.at = 1 /\ script'.built = <<>>
        /\ script'.last = script.last
    BY <1>2, <1>4, <2>1 DEF Runs
  <2> QED BY <1>1, <1>2, <1>4, <2>2, QuietInv
<1>5. CASE Stop
  BY <1>1, <1>5, StopInv
<1> QED BY <1>3, <1>4, <1>5 DEF AwaitMovements

LEMMA FilterInv ==
  ASSUME ScrapeInv, FilterMovements
  PROVE  ScrapeInv'
<1>1. /\ UNCHANGED <<posted, db, given>> /\ script.step = "filter" /\ Pending = {}
  BY DEF FilterMovements, Pending
<1>2. /\ script \in Runs /\ script.movements \in Offered /\ script.at = 1 /\ ScrapeTypeOK
  BY <1>1 DEF ScrapeInv, ScrapeTypeOK, ListsRead, Chosen
<1> DEFINE incoming == IncomingMovements(script.movements, script.version)
<1>3. \/ Stop
      \/ /\ script' = [script EXCEPT !.step = "rows", !.movements = incoming]
         /\ UNCHANGED page
  BY DEF FilterMovements
<1>4. incoming \in Seq(AllMovements)
  BY <1>2, OfferedLists, IncomingMembers
<1>5. \E list \in Offered : incoming = IncomingMovements(list, script.version)
  BY <1>2
<1> HIDE DEF incoming
<1>6. CASE Stop
  BY <1>1, <1>6, StopInv
<1>7. CASE script' = [script EXCEPT !.step = "rows", !.movements = incoming] /\ UNCHANGED page
  <2>1. script' \in Runs /\ script'.step = "rows" /\ script'.movements = incoming
        /\ script'.at = 1 /\ script'.built = script.built /\ script'.last = script.last
        /\ script'.version = script.version
    BY <1>2, <1>4, <1>7 DEF Runs
  <2>2. ListsRead'
    BY <1>1, <1>5, <2>1 DEF ListsRead, Offered
  <2>3. page \in Pages
    BY <1>2 DEF ScrapeTypeOK
  <2> QED BY <1>1, <1>7, <2>1, <2>2, <2>3, ReadInv
<1> QED BY <1>3, <1>6, <1>7

LEMMA RowsInv ==
  ASSUME ScrapeInv, ReadRows
  PROVE  ScrapeInv'
<1>1. /\ UNCHANGED <<posted, db, given>> /\ script.step = "rows" /\ Pending = {}
  BY DEF ReadRows, Pending
<1>2. /\ script \in Runs /\ script.at = 1 /\ page.selected /\ posted \in 0 .. Len(Feed)
      /\ \E list \in Offered : script.movements = IncomingMovements(list, script.version)
  BY <1>1 DEF ScrapeInv, ScrapeTypeOK, ListsRead, Chosen
<1>3. CASE Stop
  BY <1>1, <1>3, StopInv
<1>4. CASE ~Stop
  <2>1. PICK k \in 0 .. posted :
           /\ Len(GetIncomingRows(Listing(k))) >= Len(script.movements)
           /\ script' = [script EXCEPT !.step = "detail", !.rows = GetIncomingRows(Listing(k))]
           /\ page' = [page EXCEPT !.steady = page.steady /\ Listing(k) = Listing(posted)]
    <3>1. PICK k \in 0 .. posted :
             /\ ~(Len(GetIncomingRows(Listing(k))) < Len(script.movements))
             /\ script' = [script EXCEPT !.step = "detail", !.rows = GetIncomingRows(Listing(k))]
             /\ page' = [page EXCEPT !.steady = page.steady /\ Listing(k) = Listing(posted)]
      BY <1>2, <1>4 DEF ReadRows
    <3> DEFINE x == Len(GetIncomingRows(Listing(k)))
               y == Len(script.movements)
    <3>2. x \in Nat
      <4>1. k \in 0 .. Len(Feed)
        BY <1>2, FeedFacts
      <4> QED BY <4>1, ListingFacts, OnlyMembers DEF GetIncomingRows
    <3>3. y \in Nat
      BY <1>2 DEF Runs
    <3>4. x >= y
      <4>1. ~(x < y)
        BY <3>1
      <4> HIDE DEF x, y
      <4> QED BY <3>2, <3>3, <4>1
    <3> QED BY <3>1, <3>4
  <2> DEFINE rows == GetIncomingRows(Listing(k))
  <2>2. rows \in Seq(Movements)
    <3>1. k \in 0 .. Len(Feed)
      BY <1>2, FeedFacts
    <3> QED BY <3>1, ListingFacts, OnlyMembers DEF GetIncomingRows
  <2>3. Len(script.movements) <= Len(rows) /\ Len(script.movements) \in Nat
        /\ script' = [script EXCEPT !.step = "detail", !.rows = rows]
        /\ \E l \in 0 .. posted : rows = GetIncomingRows(Listing(l))
    BY <1>2, <2>1, <2>2 DEF Runs
  <2> HIDE DEF rows
  <2>4. script' \in Runs /\ script'.step = "detail" /\ script'.movements = script.movements
        /\ script'.at = 1 /\ script'.built = script.built /\ script'.last = script.last
        /\ script'.version = script.version /\ script'.rows = rows
    BY <1>2, <2>2, <2>3 DEF Runs, Movements
  <2>5. ListsRead'
    BY <1>1, <1>2, <2>3, <2>4 DEF ListsRead, Offered
  <2>6. page' \in Pages /\ page'.selected = page.selected
    <3> DEFINE kept == page.steady /\ Listing(k) = Listing(posted)
    <3>1. page \in Pages /\ kept \in BOOLEAN
      BY DEF ScrapeInv, ScrapeTypeOK, Pages
    <3>2. page' = [page EXCEPT !.steady = kept]
      BY <2>1
    <3> HIDE DEF kept, Offered
    <3> QED BY <3>1, <3>2 DEF Pages
  <2> QED BY <1>1, <2>4, <2>5, <2>6, ReadInv
<1> QED BY <1>3, <1>4

-----------------------------------------------------------------------------
(* The detail loop. *)

LEMMA RowsShown ==
  ASSUME ScrapeInv, script.step = "detail"
  PROVE  \E k \in 0 .. posted : \E a : Picks(script.rows, k, Incoming, a)
<1>1. PICK k \in 0 .. posted : script.rows = GetIncomingRows(Listing(k))
  BY DEF ScrapeInv, ListsRead
<1>2. k \in 0 .. Len(Feed)
  BY FeedFacts DEF ScrapeInv, ScrapeTypeOK
<1> QED BY <1>1, <1>2, RowsPick

LEMMA DetailFacts ==
  ASSUME ScrapeInv, script.step = "detail"
  PROVE  /\ Len(script.movements) \in Nat /\ Len(script.rows) \in Nat
         /\ Len(script.movements) <= Len(script.rows)
         /\ script.at \in Nat \ {0} /\ script.at <= Len(script.movements) + 1
         /\ \A i \in 1 .. Len(script.movements) :
              /\ script.movements[i] \in AllMovements
              /\ \E f \in 1 .. posted : script.rows[i] = Feed[f]
<1>1. script \in Runs /\ posted \in Nat /\ script.movements \in Seq(AllMovements)
  BY FeedFacts DEF ScrapeInv, ScrapeTypeOK, Runs
<1>a. PICK k \in 0 .. posted : \E a : Picks(script.rows, k, Incoming, a)
  BY RowsShown
<1>2. PICK a : Picks(script.rows, k, Incoming, a)
  BY <1>a
<1>3. Len(script.movements) <= Len(script.rows) /\ script.at <= Len(script.movements) + 1
      /\ script.at \in Nat \ {0}
  BY <1>1 DEF ScrapeInv, ListsRead, Runs
<1>4. Len(script.movements) \in Nat /\ Len(script.rows) \in Nat
  BY <1>1 DEF Runs
<1>5. ASSUME NEW i \in 1 .. Len(script.movements)
      PROVE  /\ script.movements[i] \in AllMovements
             /\ \E f \in 1 .. posted : script.rows[i] = Feed[f]
  <2>1. i \in 1 .. Len(script.rows)
    BY <1>3, <1>4
  <2>2. script.rows[i] = Feed[a[i]] /\ a[i] \in 1 .. k
    BY <1>2, <2>1 DEF Picks
  <2>3. a[i] \in 1 .. posted
    BY <1>1, <2>2
  <2> QED BY <1>1, <2>2, <2>3
<1> QED BY <1>3, <1>4, <1>5

(* A row that is its movement's own comes from two lists of EMPRESAS.      *)
LEMMA OwnRow ==
  ASSUME ScrapeInv, script.step = "detail", NEW i \in 1 .. Len(script.movements),
         script.rows[i] = script.movements[i]
  PROVE  \E k, l \in 0 .. posted : \E a, b :
            /\ Picks(script.rows, k, Incoming, a)
            /\ Picks(script.movements, l, Eligible(script.version), b)
            /\ a[i] = b[i]
<1>1. posted \in 0 .. Len(Feed) /\ Len(Feed) \in Nat /\ script.movements \in Seq(AllMovements)
  BY FeedFacts DEF ScrapeInv, ScrapeTypeOK, Runs
<1>a. PICK k \in 0 .. posted : \E a : Picks(script.rows, k, Incoming, a)
  BY RowsShown
<1>2. PICK a : Picks(script.rows, k, Incoming, a)
  BY <1>a
<1>3. PICK list \in Offered : script.movements = IncomingMovements(list, script.version)
  BY DEF ScrapeInv, ListsRead
<1>4. i \in 1 .. Len(script.rows)
  BY DetailFacts
<1>5. script.rows[i] = Feed[a[i]] /\ a[i] \in 1 .. k
  BY <1>2, <1>4 DEF Picks
<1>6. a[i] \in 1 .. Len(Feed) /\ k \in 0 .. Len(Feed)
  BY <1>1, <1>5
<1>7. script.movements[i] \in ToSet(script.movements)
  BY <1>1 DEF ToSet
<1>8. ToSet(script.movements) \subseteq ToSet(list)
  BY <1>3, OfferedLists, IncomingMembers DEF ScrapeInv
<1>9. list # Personal
  BY <1>5, <1>6, <1>7, <1>8, FeedIds
<1>10. PICK l \in 0 .. posted : list = Listing(l)
  BY <1>3, <1>9 DEF Offered
<1>11. l \in 0 .. Len(Feed)
  BY <1>1
<1>12. PICK b : Picks(script.movements, l, Eligible(script.version), b)
  BY <1>3, <1>10, <1>11, MovementsPick
<1>13. script.movements[i] = Feed[b[i]] /\ b[i] \in 1 .. l
  BY <1>12 DEF Picks
<1>14. b[i] \in 1 .. Len(Feed)
  BY <1>1, <1>11, <1>13
<1>15. a[i] = b[i]
  BY <1>5, <1>6, <1>13, <1>14, FeedIds
<1> QED BY <1>2, <1>12, <1>15

LEMMA StaysAligned ==
  ASSUME ScrapeInv, script.step = "detail", script.version.dropsExchange,
         NEW p \in Nat \ {0}, p + 1 <= Len(script.movements),
         script.rows[p] = script.movements[p]
  PROVE  script.rows[p + 1] = script.movements[p + 1]
<1>0. /\ p \in 1 .. Len(script.movements) /\ p + 1 \in 1 .. Len(script.movements)
      /\ p + 1 \in 1 .. Len(script.rows)
  BY DetailFacts
<1>1. script.rows[p] = script.movements[p]
  OBVIOUS
<1>a. PICK k \in 0 .. posted, l \in 0 .. posted : \E a, b :
         /\ Picks(script.rows, k, Incoming, a)
         /\ Picks(script.movements, l, Eligible(script.version), b)
         /\ a[p] = b[p]
  BY <1>0, <1>1, OwnRow
<1>2. PICK a, b :
         /\ Picks(script.rows, k, Incoming, a)
         /\ Picks(script.movements, l, Eligible(script.version), b)
         /\ a[p] = b[p]
  BY <1>a
<1>3. k \in 0 .. Len(Feed) /\ l \in 0 .. Len(Feed)
  BY FeedFacts DEF ScrapeInv, ScrapeTypeOK
<1>4. a[p + 1] = b[p + 1]
  <2> DEFINE rows == script.rows
             movements == script.movements
             v == script.version
  <2>1. p \in Nat \ {0} /\ p + 1 <= Len(movements) /\ p + 1 <= Len(rows) /\ v.dropsExchange
    BY <1>0, DetailFacts
  <2>2. Picks(rows, k, Incoming, a) /\ Picks(movements, l, Eligible(v), b)
    BY <1>2
  <2> HIDE DEF rows, movements, v
  <2> QED BY <1>0, <1>2, <1>3, <2>1, <2>2, AlignNext
<1>5. script.rows[p + 1] = Feed[a[p + 1]] /\ script.movements[p + 1] = Feed[b[p + 1]]
  BY <1>0, <1>2 DEF Picks
<1> QED BY <1>0, <1>4, <1>5

(* Nothing of today is missed under what was built when the loop ends.     *)
LEMMA NothingMissed ==
  ASSUME ScrapeInv, script.step = "detail", given \subseteq given',
         \/ Remaining \subseteq given'
         \/ script.at > Len(script.movements)
         \/ script.at <= Len(script.movements) /\ Shown.id = script.last,
         NEW j \in 1 .. posted, NEW k \in 1 .. posted, j < k,
         Feed[k].id \in BuiltRefs, Feed[j].kind = "in", Feed[j].today
  PROVE  Feed[j].id \in Registered \cup BuiltRefs \/ Feed[j] \in given'
<1> DEFINE rows == script.rows
           movements == script.movements
           n == Len(script.movements)
           here == script.at
           v == script.version
<1>0. /\ posted \in Nat /\ posted <= Len(Feed) /\ Len(Feed) \in Nat
      /\ \A f \in 1 .. posted : f \in 1 .. Len(Feed)
      /\ n \in Nat /\ Len(rows) \in Nat /\ n <= Len(rows) /\ here \in Nat \ {0} /\ here <= n + 1
  BY FeedFacts, DetailFacts DEF ScrapeInv, ScrapeTypeOK
<1>1. PICK t \in ToSet(script.built) : t.ref = Feed[k].id
  BY DEF BuiltRefs
<1>2. CASE Hidden(t.ref)
  <2>1. PICK f \in 1 .. posted : Feed[f].id = t.ref /\ \A i \in 1 .. f : Feed[i] \in given
    BY <1>2 DEF Hidden
  <2>2. f = k
    BY <1>0, <1>1, <2>1, FeedIds
  <2> QED BY <1>0, <2>1, <2>2
<1>3. CASE ~Hidden(t.ref)
  <2>1. PICK i \in 1 .. here - 1 : rows[i] = movements[i] /\ t.ref = rows[i].id
    BY <1>3 DEF ScrapeInv, Handled
  <2>2. i \in 1 .. n /\ i < here /\ i \in 1 .. Len(rows)
    <3> HIDE DEF here, n, rows
    <3> QED BY <1>0
  <2>3. PICK kr \in 0 .. posted, km \in 0 .. posted : \E a, b :
           Picks(rows, kr, Incoming, a) /\ Picks(movements, km, Eligible(v), b) /\ a[i] = b[i]
    BY <2>1, <2>2, OwnRow
  <2>4. PICK a, b :
           Picks(rows, kr, Incoming, a) /\ Picks(movements, km, Eligible(v), b) /\ a[i] = b[i]
    BY <2>3
  <2>5. a[i] \in 1 .. kr /\ a[i] \in 1 .. km /\ rows[i] = Feed[a[i]]
    BY <2>2, <2>4 DEF Picks
  <2>6. a[i] = k /\ k \in 1 .. kr /\ k \in 1 .. km
    <3>1. a[i] \in 1 .. Len(Feed)
      BY <1>0, <2>5
    <3> QED BY <1>0, <1>1, <2>1, <2>5, <3>1, FeedIds
  <2>7. j \in 1 .. kr /\ j \in 1 .. km /\ Feed[j] \in Eligible(v) /\ Feed[j] \in Incoming
    <3>1. Feed[j] \in Movements
      BY <1>0, FeedFacts
    <3> QED BY <1>0, <2>6, <3>1 DEF Eligible, Incoming
  <2>8. PICK q \in 1 .. n : b[q] = j /\ movements[q] = Feed[j]
    BY <2>4, <2>7 DEF Picks
  <2>9. CASE q < here
    <3>1. q \in 1 .. here - 1
      <4> HIDE DEF here, n
      <4> QED BY <1>0, <2>9
    <3> QED BY <2>8, <3>1 DEF ScrapeInv, Handled
  <2>10. CASE here <= q /\ Remaining \subseteq given'
    <3>1. movements[q] \in Remaining
      <4>1. q \in here .. n
        <5> HIDE DEF here, n
        <5> QED BY <1>0, <2>10
      <4> QED BY <4>1 DEF Remaining
    <3> QED BY <2>8, <2>10, <3>1
  <2>11. CASE here <= q /\ Shown.id = script.last
    <3>1. here \in 1 .. n /\ here \in 1 .. Len(rows)
      <4> HIDE DEF here, n, rows
      <4> QED BY <1>0, <2>11
    <3> DEFINE l == a[here]
    <3>2. l \in 1 .. kr /\ Shown = Feed[l]
      BY <2>4, <3>1 DEF Picks, Shown
    <3>3. l \in 1 .. posted /\ l \in 1 .. Len(Feed)
      <4> HIDE DEF l
      <4> QED BY <1>0, <3>2
    <3>4. Feed[l].id \in Registered
      BY <2>11, <3>2, <3>3, FeedIds DEF ScrapeInv, Chosen
    <3>5. CASE j < l
      BY <3>3, <3>4, <3>5 DEF ScrapeInv, NoGap, Pending
    <3>6. CASE j = l
      BY <3>4, <3>6
    <3>7. CASE l < j
      <4>1. PICK pos \in 1 .. Len(rows) : a[pos] = j /\ rows[pos] = Feed[j]
        BY <2>4, <2>7 DEF Picks
      <4>2. ~(here < pos) /\ here # pos
        <5>1. here < pos => a[pos] < a[here]
          BY <2>4, <3>1 DEF Picks
        <5> HIDE DEF here
        <5> QED BY <1>0, <3>2, <3>7, <4>1, <5>1
      <4>3. ~(pos < i) /\ i # pos
        <5>1. pos < i => a[i] < a[pos]
          BY <2>2, <2>4 DEF Picks
        <5> QED BY <1>0, <2>6, <4>1, <5>1
      <4>4. pos \in 1 .. here - 1 /\ pos \in i .. here - 1
        <5> HIDE DEF here, rows
        <5> QED BY <1>0, <2>2, <4>1, <4>2, <4>3
      <4>5. CASE v.dropsExchange
        <5>1. rows[pos] = movements[pos]
          BY <2>1, <4>4, <4>5 DEF ScrapeInv, Aligned
        <5>2. movements[pos] \in given \/ movements[pos].id \in BuiltRefs
          BY <4>4 DEF ScrapeInv, Handled
        <5> QED BY <4>1, <5>1, <5>2
      <4>6. CASE ~v.dropsExchange
        BY <4>1, <4>4, <4>6 DEF ScrapeInv, Handled
      <4> QED BY <4>5, <4>6
    <3> QED BY <1>0, <3>3, <3>5, <3>6, <3>7
  <2>12. q < here \/ here <= q
    <3> HIDE DEF here, n
    <3> QED BY <1>0
  <2>13. CASE here <= q /\ here > n
    <3> HIDE DEF here, n
    <3> QED BY <1>0, <2>13
  <2> QED BY <2>9, <2>10, <2>11, <2>12, <2>13
<1> QED BY <1>2, <1>3

(* From the detail loop to the ingestion of what was built.                *)
LEMMA ToIngestInv ==
  ASSUME ScrapeInv, script.step = "detail", Proceed("ingest"), UNCHANGED <<posted, page, db>>,
         given \subseteq given',
         \/ Remaining \subseteq given'
         \/ script.at > Len(script.movements)
         \/ script.at <= Len(script.movements) /\ Shown.id = script.last
  PROVE  ScrapeInv'
<1>1. script' \in Runs /\ script'.step = "ingest" /\ script'.built = script.built
      /\ script'.last = script.last
  BY DEF Proceed, ScrapeInv, ScrapeTypeOK, Runs
<1>2. Registered' = Registered /\ Payments' = Payments /\ BuiltRefs' = BuiltRefs
      /\ Pending = {} /\ Pending' = BuiltRefs
  BY <1>1 DEF Registered, Payments, BuiltRefs, Pending
<1>3. ScrapeTypeOK'
  BY <1>1 DEF ScrapeInv, ScrapeTypeOK, Pages, Offered
<1>4. Chosen' /\ ListsRead' /\ Handled' /\ Aligned'
  BY <1>1, <1>2 DEF ScrapeInv, Chosen, ListsRead, Handled, Aligned
<1>5. EntriesWhole' /\ BuiltKnown'
  BY <1>1, <1>2 DEF ScrapeInv, EntriesWhole, Whole, BuiltKnown, Hidden
<1>6. NoGap'
  <2> SUFFICES ASSUME NEW j \in 1 .. posted, NEW k \in 1 .. posted, j < k,
                      Feed[k].id \in Registered \cup BuiltRefs, Feed[j].kind = "in", Feed[j].today
               PROVE  Feed[j].id \in Registered \cup BuiltRefs \/ Feed[j] \in given'
    BY <1>2 DEF NoGap
  <2>1. CASE Feed[k].id \in Registered
    BY <1>2, <2>1 DEF ScrapeInv, NoGap
  <2>2. CASE Feed[k].id \in BuiltRefs
    BY <2>2, NothingMissed
  <2> QED BY <2>1, <2>2
<1> QED BY <1>3, <1>4, <1>5, <1>6 DEF ScrapeInv

LEMMA AppendMembers ==
  ASSUME NEW T, NEW list \in Seq(T), NEW e \in T
  PROVE  Append(list, e) \in Seq(T) /\ ToSet(Append(list, e)) = ToSet(list) \cup {e}
<1> DEFINE longer == Append(list, e)
<1>1. /\ longer \in Seq(T) /\ Len(longer) = Len(list) + 1 /\ DOMAIN longer = 1 .. Len(list) + 1
      /\ \A i \in 1 .. Len(list) : longer[i] = list[i]
      /\ longer[Len(list) + 1] = e /\ Len(list) \in Nat /\ DOMAIN list = 1 .. Len(list)
  OBVIOUS
<1> HIDE DEF longer
<1>2. ASSUME NEW x \in ToSet(longer) PROVE x \in ToSet(list) \cup {e}
  <2>1. PICK i \in 1 .. Len(list) + 1 : x = longer[i]
    BY <1>1 DEF ToSet
  <2>2. i \in 1 .. Len(list) \/ i = Len(list) + 1
    BY <1>1
  <2> QED BY <1>1, <2>1, <2>2 DEF ToSet
<1>3. ASSUME NEW x \in ToSet(list) \cup {e} PROVE x \in ToSet(longer)
  <2>1. CASE x = e
    <3>1. Len(list) + 1 \in DOMAIN longer
      BY <1>1
    <3> QED BY <1>1, <2>1, <3>1 DEF ToSet
  <2>2. CASE x \in ToSet(list)
    <3>1. PICK i \in 1 .. Len(list) : x = list[i]
      BY <1>1, <2>2 DEF ToSet
    <3>2. i \in DOMAIN longer
      BY <1>1
    <3> QED BY <1>1, <3>1, <3>2 DEF ToSet
  <2> QED BY <1>3, <2>1, <2>2
<1> QED BY <1>1, <1>2, <1>3 DEF longer

(* The members of a list are its first one and those of the rest.          *)
LEMMA HeadAndTail ==
  ASSUME NEW T, NEW list \in Seq(T), list # <<>>
  PROVE  /\ Head(list) \in T /\ Tail(list) \in Seq(T)
         /\ ToSet(list) = {Head(list)} \cup ToSet(Tail(list))
<1> DEFINE rest == Tail(list)
<1>1. /\ Head(list) = list[1] /\ Head(list) \in T /\ rest \in Seq(T)
      /\ Len(list) \in Nat \ {0} /\ DOMAIN list = 1 .. Len(list)
      /\ DOMAIN rest = 1 .. Len(list) - 1
      /\ \A i \in 1 .. Len(list) - 1 : rest[i] = list[i + 1]
  OBVIOUS
<1> HIDE DEF rest
<1>2. ASSUME NEW x \in ToSet(list) PROVE x \in {list[1]} \cup ToSet(rest)
  <2>1. PICK i \in 1 .. Len(list) : x = list[i]
    BY <1>1 DEF ToSet
  <2>2. CASE i # 1
    <3>1. i - 1 \in 1 .. Len(list) - 1 /\ rest[i - 1] = list[i]
      BY <1>1, <2>2
    <3> QED BY <1>1, <2>1, <3>1 DEF ToSet
  <2> QED BY <2>1, <2>2
<1>3. ASSUME NEW x \in {list[1]} \cup ToSet(rest) PROVE x \in ToSet(list)
  <2>1. CASE x = list[1]
    <3>1. 1 \in DOMAIN list
      BY <1>1
    <3> QED BY <2>1, <3>1 DEF ToSet
  <2>2. CASE x \in ToSet(rest)
    <3>1. PICK i \in 1 .. Len(list) - 1 : x = rest[i]
      BY <1>1, <2>2 DEF ToSet
    <3>2. i + 1 \in DOMAIN list
      BY <1>1
    <3> QED BY <1>1, <3>1, <3>2 DEF ToSet
  <2> QED BY <1>3, <2>1, <2>2
<1> QED BY <1>1, <1>2, <1>3 DEF rest

(* A detail that passes the check is at most half an hour from its         *)
(* movement, whatever the version.                                         *)
LEMMA MatchIsNear ==
  ASSUME NEW m \in AllMovements, NEW p \in AllMovements,
         NEW v \in {Script200, Script201, Script202}, DetailMatches(m, p, v)
  PROVE  (p.minute + p.delay) - m.minute \in -30 .. 30
<1>1. v.tolerance \in {5, 30}
  BY DEF Script200, Script201, Script202
<1>2. m.minute \in Int /\ p.minute \in Int /\ p.delay \in Int
  BY PaymentsAreDated DEF AllMovements
<1> DEFINE delta == (p.minute + p.delay) - m.minute
<1>3. delta <= v.tolerance /\ -delta <= v.tolerance /\ delta \in Int
  BY <1>2 DEF DetailMatches
<1> HIDE DEF delta
<1>4. delta \in -30 .. 30
  BY <1>1, <1>3
<1> QED BY <1>4 DEF delta

(* One turn of the loop that goes on to the next row.                      *)
LEMMA TurnInv ==
  ASSUME ScrapeInv, script.step = "detail", script.at <= Len(script.movements),
         UNCHANGED <<posted, page, db>>, given \subseteq given',
         script' \in Runs, script'.step = "detail", script'.at = script.at + 1,
         script'.movements = script.movements, script'.rows = script.rows,
         script'.version = script.version, script'.last = script.last,
         ToSet(script.built) \subseteq ToSet(script'.built),
         \A t \in ToSet(script'.built) : t \notin ToSet(script.built) =>
            /\ Whole(t)
            /\ \/ t.ref = t.movement.id /\ t.movement \in Payments /\ Shown = Movement
               \/ Hidden(t.ref)'
            /\ t.ref = Shown.id,
         Movement \in given' \/ Movement.id \in BuiltRefs',
         ~script.version.dropsExchange => Shown.id \in BuiltRefs'
  PROVE  ScrapeInv'
<1> DEFINE here == script.at
           n == Len(script.movements)
<1>0. n \in Nat /\ here \in 1 .. n /\ here \in Nat
  BY DetailFacts
<1>1. /\ Registered' = Registered /\ Pending = {} /\ Pending' = {} /\ Payments' = Payments
      /\ BuiltRefs \subseteq BuiltRefs' /\ Offered' = Offered
      /\ \A ref : Hidden(ref) => Hidden(ref)'
  BY DEF Registered, Pending, Payments, BuiltRefs, Offered, Hidden
<1>2. ScrapeTypeOK'
  BY <1>1 DEF ScrapeInv, ScrapeTypeOK, Pages
<1>3. NoGap'
  BY <1>1, SameGap DEF ScrapeInv
<1>4. Chosen' /\ ListsRead'
  BY <1>0, <1>1 DEF ScrapeInv, Chosen, ListsRead
<1>5. EntriesWhole'
  BY <1>1 DEF ScrapeInv, EntriesWhole, Whole
<1>6. BuiltKnown'
  BY <1>1 DEF ScrapeInv, BuiltKnown
<1>7. \A i \in 1 .. (here + 1) - 1 : i \in 1 .. here - 1 \/ i = here
  <2> HIDE DEF here
  <2> QED BY <1>0
<1>8. Handled'
  <2>1. ASSUME NEW i \in 1 .. (here + 1) - 1
        PROVE  /\ script.movements[i] \in given' \/ script.movements[i].id \in BuiltRefs'
               /\ ~script.version.dropsExchange => script.rows[i].id \in BuiltRefs'
    <3>1. CASE i \in 1 .. here - 1
      BY <1>1, <3>1 DEF ScrapeInv, Handled
    <3>2. CASE i = here
      BY <3>2 DEF Movement, Shown
    <3> QED BY <1>7, <3>1, <3>2
  <2>2. ASSUME NEW t \in ToSet(script'.built)
        PROVE  \/ Hidden(t.ref)'
               \/ \E i \in 1 .. (here + 1) - 1 :
                     script.rows[i] = script.movements[i] /\ t.ref = script.rows[i].id
    <3>1. CASE t \in ToSet(script.built) /\ ~Hidden(t.ref)
      <4>1. PICK i \in 1 .. here - 1 : script.rows[i] = script.movements[i] /\ t.ref = script.rows[i].id
        BY <3>1 DEF ScrapeInv, Handled
      <4>2. i \in 1 .. (here + 1) - 1
        <5> HIDE DEF here
        <5> QED BY <1>0
      <4> QED BY <4>1, <4>2
    <3>2. CASE t \notin ToSet(script.built) /\ ~Hidden(t.ref)'
      <4>1. here \in 1 .. (here + 1) - 1
        <5> HIDE DEF here
        <5> QED BY <1>0
      <4>2. script.rows[here] = script.movements[here] /\ t.ref = script.rows[here].id
        BY <2>2, <3>2 DEF Shown, Movement
      <4> QED BY <4>1, <4>2
    <3> QED BY <1>1, <3>1, <3>2
  <2> QED BY <2>1, <2>2 DEF Handled
<1>9. Aligned'
  <2> SUFFICES ASSUME script.version.dropsExchange,
                      NEW i \in 1 .. (here + 1) - 1, script.rows[i] = script.movements[i],
                      NEW p \in i .. (here + 1) - 1
               PROVE  script.rows[p] = script.movements[p]
    BY DEF Aligned
  <2>1. CASE p = i
    BY <2>1
  <2>2. CASE p # i
    <3>1. i \in 1 .. here - 1 /\ here - 1 \in i .. here - 1 /\ here # 1
          /\ (p \in i .. here - 1 \/ p = here)
      <4> HIDE DEF here
      <4> QED BY <1>0, <2>2
    <3>2. \A x \in i .. here - 1 : script.rows[x] = script.movements[x]
      BY <3>1 DEF ScrapeInv, Aligned
    <3>3. script.rows[here] = script.movements[here]
      <4> DEFINE x == here - 1
      <4>1. x \in Nat \ {0} /\ x + 1 = here /\ x + 1 <= n
        <5> HIDE DEF here, n
        <5> QED BY <1>0, <3>1
      <4>2. script.rows[x] = script.movements[x]
        BY <3>1, <3>2
      <4>3. x + 1 <= Len(script.movements)
        BY <4>1
      <4> HIDE DEF x, here, n
      <4>4. script.rows[x + 1] = script.movements[x + 1]
        BY <4>1, <4>2, <4>3, StaysAligned
      <4> QED BY <4>1, <4>4
    <3> HIDE DEF here
    <3> QED BY <3>1, <3>2, <3>3
  <2> QED BY <2>1, <2>2
<1> QED BY <1>2, <1>3, <1>4, <1>5, <1>6, <1>8, <1>9 DEF ScrapeInv

LEMMA DetailInv ==
  ASSUME ScrapeInv, OpenDetail
  PROVE  ScrapeInv'
<1>0. /\ script.step = "detail" /\ script.at <= Len(script.movements) /\ UNCHANGED <<posted, db>>
      /\ Pending = {} /\ script \in Runs
  BY DEF OpenDetail, Pending, ScrapeInv, ScrapeTypeOK
<1>a. script.at \in 1 .. Len(script.movements) /\ script.at \in Nat
  BY <1>0, DetailFacts
<1>b. PICK f \in 1 .. posted : Shown = Feed[f]
  BY <1>0, <1>a, DetailFacts DEF Shown
<1>c. Movement \in AllMovements
  BY <1>0, <1>a, DetailFacts DEF Movement
<1>d. Shown \in Payments /\ Shown \in AllMovements /\ Shown.id \in References /\ f \in 1 .. Len(Feed)
  <2>1. f \in 1 .. Len(Feed)
    BY FeedFacts DEF ScrapeInv, ScrapeTypeOK
  <2> QED BY <1>b, <2>1, FeedIds DEF Payments, AllMovements
<1>1. CASE ExtractionFails
  <2>1. CASE Stop /\ UNCHANGED given
    BY <1>0, <2>1, StopInv
  <2>2. CASE Proceed("ingest") /\ given' = given \cup Remaining /\ UNCHANGED page
    BY <1>0, <2>2, ToIngestInv
  <2> QED BY <1>1, <2>1, <2>2 DEF ExtractionFails
<1>2. CASE /\ script.version.skipsMismatch /\ script' = NextRow /\ UNCHANGED page
           /\ given' = given \cup {Movement}
  <2>1. script' = [script EXCEPT !.at = script.at + 1] /\ script.at + 1 \in Nat \ {0}
    BY <1>2, <1>a DEF NextRow
  <2>2. /\ script' \in Runs /\ script'.step = "detail" /\ script'.at = script.at + 1
        /\ script'.movements = script.movements /\ script'.rows = script.rows
        /\ script'.version = script.version /\ script'.last = script.last
        /\ script'.built = script.built
    BY <1>0, <2>1 DEF Runs
  <2>3. script.version.dropsExchange
    <3>1. script.version \in {Script200, Script201, Script202}
      BY <1>0 DEF Runs
    <3> QED BY <1>2, <3>1 DEF Script200, Script201, Script202
  <2> QED BY <1>0, <1>2, <2>2, <2>3, TurnInv
<1>3. CASE /\ Shown.id = script.last /\ Proceed("ingest") /\ UNCHANGED <<page, given>>
  BY <1>0, <1>3, ToIngestInv
<1>4. CASE /\ DetailMatches(Movement, Shown, script.version)
           /\ script' = [NextRow EXCEPT !.built =
                            Append(@, [ref |-> Shown.id, movement |-> Movement])]
           /\ given' = IF Shown = Movement THEN given ELSE given \cup {Movement} \cup DownFrom(Shown)
           /\ UNCHANGED page
  <2>e. PICK e : e = [ref |-> Shown.id, movement |-> Movement]
    OBVIOUS
  <2> DEFINE built == Append(script.built, e)
  <2>1. e \in Entries /\ script.built \in Seq(Entries)
    BY <1>0, <1>c, <1>d, <2>e DEF Entries, Runs
  <2>2. built \in Seq(Entries) /\ ToSet(built) = ToSet(script.built) \cup {e}
    BY <2>1, AppendMembers
  <2>3. e.ref = Shown.id /\ e.movement = Movement
    BY <2>e
  <2>4. script' = [[script EXCEPT !.at = script.at + 1] EXCEPT !.built = built]
        /\ script.at + 1 \in Nat \ {0}
    BY <1>0, <1>4, <1>a, <2>e DEF NextRow, Runs
  <2> HIDE DEF built
  <2>5. /\ script' \in Runs /\ script'.step = "detail" /\ script'.at = script.at + 1
        /\ script'.movements = script.movements /\ script'.rows = script.rows
        /\ script'.version = script.version /\ script'.last = script.last
        /\ script'.built = built
    BY <1>0, <2>2, <2>4 DEF Runs
  <2>6. given \subseteq given' /\ (Shown # Movement => Movement \in given' /\ DownFrom(Shown) \subseteq given')
    BY <1>4
  <2>7. Whole(e)
    <3>1. (Shown.minute + Shown.delay) - Movement.minute \in -30 .. 30
      <4>1. script.version \in {Script200, Script201, Script202}
        BY <1>0 DEF Runs
      <4> QED BY <1>4, <1>c, <1>d, <4>1, MatchIsNear
    <3> QED BY <1>d, <2>3, <3>1 DEF Whole
  <2>8. Shown # Movement => Hidden(e.ref)'
    <3> SUFFICES ASSUME Shown # Movement PROVE Hidden(e.ref)'
      OBVIOUS
    <3>1. \A j \in 1 .. f : Feed[j] \in DownFrom(Shown)
      <4> SUFFICES ASSUME NEW j \in 1 .. f PROVE Feed[j] \in DownFrom(Shown)
        OBVIOUS
      <4>1. j \in 1 .. posted /\ f \in j .. posted
        BY FeedFacts DEF ScrapeInv, ScrapeTypeOK
      <4> QED BY <1>b, <4>1 DEF DownFrom
    <3>2. \A j \in 1 .. f : Feed[j] \in given'
      BY <2>6, <3>1
    <3>3. Feed[f].id = e.ref
      BY <1>b, <2>3
    <3> QED BY <1>0, <1>b, <3>2, <3>3 DEF Hidden
  <2>9. Shown.id \in BuiltRefs'
    BY <2>2, <2>3, <2>5 DEF BuiltRefs
  <2>10. Movement \in given' \/ Movement.id \in BuiltRefs'
    BY <2>6, <2>9
  <2>11. \A t \in ToSet(script'.built) : t \notin ToSet(script.built) =>
            /\ Whole(t)
            /\ \/ t.ref = t.movement.id /\ t.movement \in Payments /\ Shown = Movement
               \/ Hidden(t.ref)'
            /\ t.ref = Shown.id
    <3>1. \A t \in ToSet(script'.built) : t \notin ToSet(script.built) => t = e
      BY <2>2, <2>5
    <3>2. /\ Whole(e) /\ e.ref = Shown.id
          /\ \/ e.ref = e.movement.id /\ e.movement \in Payments /\ Shown = Movement
             \/ Hidden(e.ref)'
      <4>1. CASE Shown = Movement
        BY <1>d, <2>3, <2>7, <4>1
      <4>2. CASE Shown # Movement
        BY <2>3, <2>7, <2>8, <4>2
      <4> QED BY <4>1, <4>2
    <3> QED BY <3>1, <3>2
  <2>12. ToSet(script.built) \subseteq ToSet(script'.built)
    BY <2>2, <2>5
  <2> QED BY <1>0, <1>4, <2>5, <2>6, <2>9, <2>10, <2>11, <2>12, TurnInv
<1> QED BY <1>1, <1>2, <1>3, <1>4 DEF OpenDetail

LEMMA ScriptDoneInv ==
  ASSUME ScrapeInv, ScriptDone
  PROVE  ScrapeInv'
BY ToIngestInv DEF ScriptDone

-----------------------------------------------------------------------------
(* The ingestion, and the payments that go on arriving. *)

LEMMA StoreInv ==
  ASSUME ScrapeInv, StoreNext
  PROVE  ScrapeInv'
<1> DEFINE t == Head(script.built)
           rest == Tail(script.built)
<1>0. /\ UNCHANGED <<posted, page, given>> /\ script.step = "ingest" /\ script.built # <<>>
      /\ db' = (IF \E u \in db : u.ref = t.ref THEN db ELSE db \cup {t})
      /\ script' = [script EXCEPT !.built = rest]
      /\ script \in Runs /\ script.built \in Seq(Entries) /\ db \subseteq Entries
  BY DEF StoreNext, ScrapeInv, ScrapeTypeOK, Runs
<1>1. /\ t \in Entries /\ rest \in Seq(Entries)
      /\ ToSet(script.built) = {t} \cup ToSet(rest)
  BY <1>0, HeadAndTail
<1> HIDE DEF t, rest
<1>2. /\ script' \in Runs /\ script'.step = "ingest" /\ script'.built = rest
      /\ script'.last = script.last
  BY <1>0, <1>1 DEF Runs
<1>3. /\ db \subseteq db' /\ db' \subseteq db \cup {t} /\ (\E u \in db' : u.ref = t.ref)
  BY <1>0
<1>4. ScrapeTypeOK'
  BY <1>0, <1>1, <1>2, <1>3 DEF ScrapeInv, ScrapeTypeOK, Pages, Offered
<1>5. /\ Payments' = Payments /\ BuiltRefs' = {u.ref : u \in ToSet(rest)}
      /\ BuiltRefs = {t.ref} \cup BuiltRefs' /\ Pending = BuiltRefs /\ Pending' = BuiltRefs'
      /\ Registered \subseteq Registered' /\ Registered' = Registered \cup {t.ref}
  <2>1. Registered' = Registered \cup {t.ref}
    BY <1>3 DEF Registered
  <2>2. BuiltRefs = {t.ref} \cup {u.ref : u \in ToSet(rest)}
    BY <1>1 DEF BuiltRefs
  <2>3. BuiltRefs' = {u.ref : u \in ToSet(rest)}
    BY <1>2 DEF BuiltRefs
  <2> QED BY <1>0, <1>2, <2>1, <2>2, <2>3 DEF Payments, Pending
<1>6. Registered' \cup Pending' = Registered \cup Pending
  BY <1>5
<1>7. NoGap'
  BY <1>0, <1>6 DEF ScrapeInv, NoGap
<1>8. EntriesWhole' /\ BuiltKnown'
  BY <1>0, <1>1, <1>2, <1>3, <1>5 DEF ScrapeInv, EntriesWhole, Whole, BuiltKnown, Hidden
<1>9. Chosen' /\ ListsRead' /\ Handled' /\ Aligned'
  BY <1>0, <1>2, <1>5 DEF ScrapeInv, Chosen, ListsRead, Handled, Aligned
<1> QED BY <1>4, <1>7, <1>8, <1>9 DEF ScrapeInv

LEMMA StoreEndsInv ==
  ASSUME ScrapeInv, StoreFails \/ ScrapeEnds
  PROVE  ScrapeInv'
<1>0. /\ script.step = "ingest" /\ Stop /\ UNCHANGED <<posted, db>> /\ given \subseteq given'
  BY DEF StoreFails, ScrapeEnds
<1>1. ASSUME NEW j \in 1 .. posted, Feed[j].id \in Pending PROVE Feed[j] \in given'
  <2>0. posted \in 0 .. Len(Feed) /\ Len(Feed) \in Nat /\ \A f \in 1 .. posted : f \in 1 .. Len(Feed)
    BY FeedFacts DEF ScrapeInv, ScrapeTypeOK
  <2>1. PICK t \in ToSet(script.built) : t.ref = Feed[j].id
    BY <1>0, <1>1 DEF Pending, BuiltRefs
  <2>2. CASE ScrapeEnds
    <3>1. ToSet(script.built) = {}
      BY <2>2 DEF ScrapeEnds, ToSet
    <3> QED BY <2>1, <3>1
  <2>3. CASE StoreFails /\ Hidden(t.ref)
    <3>1. PICK f \in 1 .. posted : Feed[f].id = t.ref /\ \A i \in 1 .. f : Feed[i] \in given
      BY <2>3 DEF Hidden
    <3>2. f = j
      BY <2>0, <2>1, <3>1, FeedIds
    <3> QED BY <1>0, <2>0, <3>1, <3>2
  <2>4. CASE StoreFails /\ ~Hidden(t.ref)
    <3>1. t.ref = t.movement.id /\ t.movement \in Payments
      BY <2>4 DEF ScrapeInv, BuiltKnown
    <3>2. PICK f \in 1 .. posted : t.movement = Feed[f]
      BY <3>1 DEF Payments
    <3>3. t.movement = Feed[j]
      BY <2>0, <2>1, <3>1, <3>2, FeedIds
    <3>4. t.movement \in {script.built[i].movement : i \in DOMAIN script.built}
      BY DEF ToSet
    <3> QED BY <2>4, <3>3, <3>4 DEF StoreFails
  <2> QED BY <2>2, <2>3, <2>4
<1> QED BY <1>0, <1>1, StopInv

LEMMA ArrivalInv ==
  ASSUME ScrapeInv, PaymentArrives
  PROVE  ScrapeInv'
<1>0. /\ posted' = posted + 1 /\ UNCHANGED <<script, db, given>>
      /\ posted \in Nat /\ posted' \in 1 .. Len(Feed) /\ posted \in 0 .. Len(Feed) /\ Len(Feed) \in Nat
      /\ \A f \in 1 .. posted : f \in 1 .. posted' /\ f \in 1 .. Len(Feed)
      /\ \A f \in 0 .. posted : f \in 0 .. posted'
      /\ \A f \in 1 .. posted' : (f \in 1 .. posted \/ f = posted') /\ f \in 1 .. Len(Feed)
  BY FeedFacts DEF PaymentArrives, ScrapeInv, ScrapeTypeOK
<1>1. /\ Offered \subseteq Offered' /\ Payments \subseteq Payments'
      /\ Registered' = Registered /\ BuiltRefs' = BuiltRefs /\ Pending' = Pending
      /\ \A ref : Hidden(ref) => Hidden(ref)'
  BY <1>0 DEF Offered, Payments, Registered, BuiltRefs, Pending, Hidden
<1>2. ScrapeTypeOK'
  <2>1. page.responses \in Seq(Offered')
    <3>1. page.responses \in Seq(Offered)
      BY DEF ScrapeInv, ScrapeTypeOK, Pages
    <3> DEFINE now == Offered
               later == Offered'
    <3>2. now \subseteq later /\ page.responses \in Seq(now)
      BY <1>1, <3>1
    <3> HIDE DEF now, later
    <3>3. page.responses \in Seq(later)
      BY <3>2
    <3> QED BY <3>3 DEF later
  <2>2. page' \in Pages' /\ page'.selected = page.selected
    <3> DEFINE kept == page.steady /\ script.step \notin {"wait", "filter", "rows"}
    <3>1. page \in [selected : BOOLEAN, clicks : Nat, responses : Seq(Offered), since : Nat,
                    steady : BOOLEAN]
      BY DEF ScrapeInv, ScrapeTypeOK, Pages
    <3>2. page' = [page EXCEPT !.steady = kept] /\ kept \in BOOLEAN
      BY <3>1 DEF PaymentArrives
    <3> HIDE DEF Offered, kept
    <3> QED BY <2>1, <3>1, <3>2 DEF Pages
  <2> QED BY <1>0, <2>2 DEF ScrapeInv, ScrapeTypeOK
<1>a. page'.selected = page.selected
  BY DEF PaymentArrives, ScrapeInv, ScrapeTypeOK, Pages
<1>3. Chosen' /\ Handled' /\ Aligned'
  BY <1>0, <1>1, <1>a DEF ScrapeInv, Chosen, Handled, Aligned
<1>4. ListsRead'
  BY <1>0, <1>1 DEF ScrapeInv, ListsRead
<1>5. EntriesWhole' /\ BuiltKnown'
  BY <1>0, <1>1 DEF ScrapeInv, EntriesWhole, Whole, BuiltKnown
<1>6. NoGap'
  <2> SUFFICES ASSUME NEW j \in 1 .. posted', NEW k \in 1 .. posted', j < k,
                      Feed[k].id \in Registered \cup Pending, Feed[j].kind = "in", Feed[j].today
               PROVE  Feed[j].id \in Registered \cup Pending \/ Feed[j] \in given
    BY <1>0, <1>1 DEF NoGap
  <2>1. PICK t \in db \cup ToSet(script.built) : t.ref = Feed[k].id
    BY DEF Registered, Pending, BuiltRefs
  <2>2. PICK f \in 1 .. posted : Feed[f].id = t.ref
    BY <2>1 DEF ScrapeInv, EntriesWhole, Whole, Payments
  <2>3. k = f
    BY <1>0, <2>1, <2>2, FeedIds
  <2>4. k \in 1 .. posted /\ j \in 1 .. posted
    BY <1>0, <2>3
  <2> QED BY <2>4 DEF ScrapeInv, NoGap
<1> QED BY <1>2, <1>3, <1>4, <1>5, <1>6 DEF ScrapeInv

LEMMA ScrapeKeeps == ScrapeInv /\ [ScrapeNext]_scrapeVars => ScrapeInv'
<1> SUFFICES ASSUME ScrapeInv, [ScrapeNext]_scrapeVars PROVE ScrapeInv'
  OBVIOUS
<1>1. CASE UNCHANGED scrapeVars
  <2>1. UNCHANGED <<posted, page, script, db, given>>
    BY <1>1 DEF scrapeVars
  <2>2. /\ Offered' = Offered /\ Payments' = Payments /\ Registered' = Registered
        /\ BuiltRefs' = BuiltRefs /\ Pending' = Pending /\ Pages' = Pages
        /\ \A ref : Hidden(ref)' <=> Hidden(ref)
    BY <2>1 DEF Offered, Payments, Registered, BuiltRefs, Pending, Pages, Hidden
  <2>3. ScrapeTypeOK' /\ Chosen' /\ ListsRead' /\ Handled' /\ Aligned' /\ NoGap'
    BY <2>1, <2>2 DEF ScrapeInv, ScrapeTypeOK, Chosen, ListsRead, Handled, Aligned, NoGap
  <2>4. EntriesWhole' /\ BuiltKnown'
    BY <2>1, <2>2 DEF ScrapeInv, EntriesWhole, Whole, BuiltKnown
  <2> QED BY <2>3, <2>4 DEF ScrapeInv
<1>2. CASE StartScrape \/ Navigate \/ FillLoginForm \/ SubmitLogin
  BY <1>2, StartInv, LoginInv
<1>3. CASE CaptureMovements \/ ClickEmpresasCard \/ SelectEmpresasCard \/ ClickIngresos
  BY <1>3, CaptureInv, SelectInv
<1>4. CASE AwaitMovements \/ FilterMovements \/ ReadRows
  BY <1>4, AwaitInv, FilterInv, RowsInv
<1>5. CASE OpenDetail \/ ScriptDone
  BY <1>5, DetailInv, ScriptDoneInv
<1>6. CASE StoreNext \/ StoreFails \/ ScrapeEnds
  BY <1>6, StoreInv, StoreEndsInv
<1>7. CASE PaymentArrives
  BY <1>7, ArrivalInv
<1> QED BY <1>1, <1>2, <1>3, <1>4, <1>5, <1>6, <1>7 DEF ScrapeNext

(* Of every sequence of scrapes, for any payments, lists and versions.     *)
THEOREM ScrapeSafe == ScrapeSpec => []ScrapeInv
<1>1. ScrapeInit => ScrapeInv
  BY ScrapeStarts
<1>2. ScrapeInv /\ [ScrapeNext]_scrapeVars => ScrapeInv'
  BY ScrapeKeeps
<1> QED BY <1>1, <1>2, PTL DEF ScrapeSpec

(* Stopping at the last known reference hides no payment of today that no  *)
(* scrape gave up, whichever list and table each scrape was given.         *)
THEOREM GapsAreKnown == ScrapeSpec => []NoSilentGap
<1>1. ScrapeInv => NoSilentGap
  BY DEF ScrapeInv, NoGap, Pending, NoSilentGap
<1> QED BY <1>1, ScrapeSafe, PTL

-----------------------------------------------------------------------------
(* The pairs of a scrape while the account stays as it was. *)

Own(t) == \E p \in Payments : p.id = t.ref /\ t.movement = p

SteadyLists ==
    page.steady =>
        /\ script.step = "wait" =>
              \A i \in page.since + 1 .. Len(page.responses) : page.responses[i] = Listing(posted)
        /\ script.step = "filter" => script.movements = Listing(posted)
        /\ script.step = "rows" =>
              script.movements = IncomingMovements(Listing(posted), script.version)

SteadyPairs ==
    page.steady /\ script.version.dropsExchange =>
        /\ script.step \in {"detail", "ingest"} => \A t \in ToSet(script.built) : Own(t)
        /\ script.step = "detail" /\ script.at <= Len(script.movements) => Shown = Movement

SteadyInv == SteadyLists /\ SteadyPairs

(* Of one and the same list, the first row and the first movement are the  *)
(* same payment: what came today came last.                                *)
LEMMA HeadsAlign ==
  ASSUME NEW k \in 0 .. Len(Feed), NEW v, v.dropsExchange,
         NEW rows, NEW a, Picks(rows, k, Incoming, a), 1 <= Len(rows),
         NEW movements, NEW b, Picks(movements, k, Eligible(v), b), 1 <= Len(movements)
  PROVE  rows[1] = movements[1]
<1>0. /\ Len(rows) \in Nat /\ Len(movements) \in Nat /\ k \in Nat /\ k <= Len(Feed) /\ Len(Feed) \in Nat
  BY FeedFacts DEF Picks
<1>1. 1 \in 1 .. Len(rows) /\ 1 \in 1 .. Len(movements)
  BY <1>0
<1> DEFINE h == a[1]
           g == b[1]
<1>2. /\ h \in 1 .. k /\ g \in 1 .. k /\ rows[1] = Feed[h] /\ movements[1] = Feed[g]
      /\ Feed[h] \in Incoming /\ Feed[g] \in Eligible(v)
  BY <1>1 DEF Picks
<1>3. Feed[g] \in Incoming /\ Feed[g].today
  BY <1>2 DEF Eligible, Incoming
<1>4. \A q \in 1 .. Len(rows) : a[q] \in 1 .. k /\ (1 < q => a[q] < a[1])
  BY <1>1 DEF Picks
<1>5. \A q \in 1 .. Len(movements) : b[q] \in 1 .. k /\ (1 < q => b[q] < b[1])
  BY <1>1 DEF Picks
<1>6. g <= h
  <2>1. PICK q \in 1 .. Len(rows) : a[q] = g
    BY <1>2, <1>3 DEF Picks
  <2>2. q = 1 \/ 1 < q
    BY <1>0
  <2> QED BY <1>0, <1>2, <1>4, <2>1, <2>2
<1>7. h <= g
  <2>1. Feed[h].today
    <3>1. CASE g = h
      BY <1>3, <3>1
    <3>2. CASE g # h
      <4>1. g < h /\ g \in DOMAIN Feed /\ h \in DOMAIN Feed
        BY <1>0, <1>2, <1>6, <3>2, FeedFacts
      <4> HIDE DEF g, h
      <4> QED BY <1>3, <4>1, PaymentsAreDated
    <3> QED BY <3>1, <3>2
  <2>2. Feed[h] \in Eligible(v)
    BY <1>2, <2>1 DEF Incoming, Eligible
  <2>3. PICK q \in 1 .. Len(movements) : b[q] = h
    BY <1>2, <2>2 DEF Picks
  <2>4. q = 1 \/ 1 < q
    BY <1>0
  <2> QED BY <1>0, <1>2, <1>5, <2>3, <2>4
<1>8. g = h
  <2> HIDE DEF g, h
  <2> QED BY <1>0, <1>2, <1>6, <1>7
<1> QED BY <1>2, <1>8

(* Steps of a scrape before the list is awaited, and its end.              *)
LEMMA AwaySteady ==
  ASSUME script'.step \notin {"wait", "filter", "rows", "detail", "ingest"}
  PROVE  SteadyInv'
BY DEF SteadyInv, SteadyLists, SteadyPairs

LEMMA StopSteady ==
  ASSUME Stop
  PROVE  SteadyInv'
BY AwaySteady DEF Stop, Idle

LEMMA StartSteady ==
  ASSUME StartScrape \/ Navigate \/ FillLoginForm \/ SubmitLogin \/ SelectEmpresasCard \/ ClickEmpresasCard,
         ScrapeInv
  PROVE  SteadyInv'
<1>0. script \in Runs
  BY DEF ScrapeInv, ScrapeTypeOK
<1>1. CASE Stop
  BY <1>1, StopSteady
<1>2. CASE StartScrape
  BY <1>2, AwaySteady DEF StartScrape, Idle
<1>3. ASSUME NEW s \in {"fill", "submit", "select", "ingresos"}, Proceed(s)
      PROVE  SteadyInv'
  <2>1. script'.step = s
    BY <1>0, <1>3 DEF Proceed, Runs
  <2> QED BY <2>1, AwaySteady
<1>4. CASE ClickEmpresasCard /\ ~Stop
  BY <1>4, AwaySteady DEF ClickEmpresasCard
<1> QED BY <1>1, <1>2, <1>3, <1>4
    DEF Navigate, FillLoginForm, SubmitLogin, SelectEmpresasCard

(* The click on Ingresos waits for answers that are not there yet.         *)
LEMMA IngresosSteady ==
  ASSUME ScrapeInv, ClickIngresos
  PROVE  SteadyInv'
<1>0. script \in Runs /\ page \in Pages /\ Len(page.responses) \in Nat
  BY DEF ScrapeInv, ScrapeTypeOK, Pages
<1>1. CASE Stop
  BY <1>1, StopSteady
<1>2. CASE ~Stop
  <2>1. /\ script'.step = "wait" /\ page'.since = Len(page.responses)
        /\ page'.responses = page.responses
    BY <1>0, <1>2 DEF ClickIngresos, Proceed, Runs, Pages
  <2>2. \A i \in Len(page.responses) + 1 .. Len(page.responses) : FALSE
    BY <1>0
  <2> QED BY <2>1, <2>2 DEF SteadyInv, SteadyLists, SteadyPairs
<1> QED BY <1>1, <1>2

LEMMA CaptureSteady ==
  ASSUME ScrapeInv, SteadyInv, CaptureMovements
  PROVE  SteadyInv'
<1>1. PICK list \in Offered :
        page' = [page EXCEPT !.responses = Append(page.responses, list),
                             !.steady = page.steady /\ (script.step = "wait" => list = Listing(posted))]
  BY DEF CaptureMovements, Offered
<1>2. UNCHANGED <<posted, script>> /\ script.step \in {"select", "ingresos", "wait"}
  BY DEF CaptureMovements
<1>3. page \in Pages /\ page.responses \in Seq(Offered)
  BY DEF ScrapeInv, ScrapeTypeOK, Pages
<1>4. /\ page'.since = page.since /\ page'.responses = Append(page.responses, list)
      /\ page'.steady => page.steady /\ (script.step = "wait" => list = Listing(posted))
  BY <1>1, <1>3 DEF Pages
<1>5. SUFFICES ASSUME page'.steady, script.step = "wait",
                      NEW i \in page.since + 1 .. Len(page'.responses)
               PROVE  page'.responses[i] = Listing(posted)
  BY <1>2, <1>4 DEF SteadyInv, SteadyLists, SteadyPairs
<1> DEFINE n == Len(page.responses)
<1>6. /\ n \in Nat /\ Len(page'.responses) = n + 1 /\ page'.responses[n + 1] = list
      /\ \A x \in 1 .. n : page'.responses[x] = page.responses[x]
      /\ page.since \in Nat
  <2> HIDE DEF Offered
  <2> QED BY <1>3, <1>4 DEF Pages
<1> HIDE DEF n
<1>7. i = n + 1 \/ (i \in page.since + 1 .. n /\ i \in 1 .. n)
  BY <1>5, <1>6
<1>8. CASE i = n + 1
  BY <1>4, <1>5, <1>6, <1>8
<1>9. CASE i \in page.since + 1 .. n /\ i \in 1 .. n
  <2>1. page.responses[i] = Listing(posted)
    BY <1>4, <1>5, <1>9 DEF SteadyInv, SteadyLists, n
  <2> QED BY <1>6, <1>9, <2>1
<1> QED BY <1>7, <1>8, <1>9

LEMMA BestListIsOne ==
  ASSUME ScrapeInv, BestList # <<>>
  PROVE  \E i \in page.since + 1 .. Len(page.responses) : BestList = page.responses[i]
<1>1. page.responses \in Seq(Offered) /\ page.since \in Nat /\ ScrapeTypeOK
  BY DEF ScrapeInv, ScrapeTypeOK, Pages
<1> DEFINE n == Len(page.responses)
           from == page.since
           some == SubSeq(page.responses, from + 1, n)
<1>2. /\ some \in Seq(Offered) /\ Len(some) = IF from + 1 <= n THEN n - from ELSE 0
      /\ \A x \in 1 .. n - from : some[x] = page.responses[from + x]
      /\ n \in Nat /\ from \in Nat
  <2> DEFINE all == page.responses
             T == Offered
  <2>1. all \in Seq(T) /\ from \in Nat /\ n = Len(all) /\ some = SubSeq(all, from + 1, n)
    BY <1>1
  <2> HIDE DEF all, T, from, n, some
  <2>2. n \in Nat
    BY <2>1
  <2>3. some \in Seq(T) /\ Len(some) = IF from + 1 <= n THEN n - from ELSE 0
    BY <2>1, <2>2
  <2>4. \A x \in 1 .. n - from : some[x] = all[from + x]
    BY <2>1, <2>2
  <2> QED BY <2>1, <2>2, <2>3, <2>4 DEF all, T
<1>3. Candidates = some
  BY DEF Candidates
<1>4. some # <<>> /\ BestList = some[BestCandidate(some)]
  BY <1>3 DEF BestList
<1> HIDE DEF some
<1>5. BestCandidate(some) \in 1 .. Len(some)
  <2>1. some \in Seq(Seq(AllMovements))
    <3>1. Offered \subseteq Seq(AllMovements)
      BY <1>1, OfferedLists
    <3> HIDE DEF Offered
    <3> QED BY <1>2, <3>1
  <2> QED BY <1>4, <2>1, BestIsOne
<1> DEFINE x == BestCandidate(some)
<1>6. x \in 1 .. n - from /\ from + x \in from + 1 .. n
  <2> HIDE DEF x, n, from
  <2>1. x \in 1 .. Len(some)
    BY <1>5 DEF x
  <2> QED BY <1>2, <2>1
<1> QED BY <1>2, <1>4, <1>6

LEMMA AwaitSteady ==
  ASSUME ScrapeInv, SteadyInv, AwaitMovements
  PROVE  SteadyInv'
<1>0. script \in Runs /\ script.step = "wait" /\ posted' = posted
  BY DEF AwaitMovements, ScrapeInv, ScrapeTypeOK
<1>1. CASE Stop
  BY <1>1, StopSteady
<1>2. CASE script' = [script EXCEPT !.step = "select", !.attempt = @ + 1]
  BY <1>0, <1>2, AwaySteady DEF Runs
<1>3. CASE /\ BestList # <<>> /\ UNCHANGED page
           /\ script' = [script EXCEPT !.step = "filter", !.movements = BestList]
  <2>1. PICK i \in page.since + 1 .. Len(page.responses) : BestList = page.responses[i]
    BY <1>3, BestListIsOne
  <2>2. script'.step = "filter" /\ script'.movements = BestList
    <3> DEFINE list == BestList
    <3>1. script' = [script EXCEPT !.step = "filter", !.movements = list]
      BY <1>3
    <3> HIDE DEF list
    <3>2. script'.step = "filter" /\ script'.movements = list
      BY <1>0, <3>1 DEF Runs
    <3> QED BY <3>2 DEF list
  <2>3. page.steady => BestList = Listing(posted)
    BY <1>0, <2>1 DEF SteadyInv, SteadyLists
  <2> QED BY <1>0, <1>3, <2>2, <2>3 DEF SteadyInv, SteadyLists, SteadyPairs
<1> QED BY <1>1, <1>2, <1>3 DEF AwaitMovements

LEMMA FilterSteady ==
  ASSUME ScrapeInv, SteadyInv, FilterMovements
  PROVE  SteadyInv'
<1>0. script \in Runs /\ script.step = "filter" /\ posted' = posted
  BY DEF FilterMovements, ScrapeInv, ScrapeTypeOK
<1>1. CASE Stop
  BY <1>1, StopSteady
<1>2. CASE ~Stop
  <2> DEFINE incoming == IncomingMovements(script.movements, script.version)
  <2>1. script' = [script EXCEPT !.step = "rows", !.movements = incoming] /\ page' = page
    BY <1>2 DEF FilterMovements
  <2>2. page.steady => incoming = IncomingMovements(Listing(posted), script.version)
    BY <1>0 DEF SteadyInv, SteadyLists
  <2> HIDE DEF incoming
  <2>3. script'.step = "rows" /\ script'.movements = incoming /\ script'.version = script.version
    BY <1>0, <2>1 DEF Runs
  <2> QED BY <1>0, <2>1, <2>2, <2>3 DEF SteadyInv, SteadyLists, SteadyPairs
<1> QED BY <1>1, <1>2

LEMMA RowsSteady ==
  ASSUME ScrapeInv, SteadyInv, ReadRows
  PROVE  SteadyInv'
<1>0. /\ script \in Runs /\ script.step = "rows" /\ posted' = posted /\ page.selected
      /\ script.at = 1 /\ script.built = <<>> /\ page \in Pages /\ posted \in 0 .. Len(Feed)
  BY DEF ReadRows, ScrapeInv, ScrapeTypeOK, Chosen
<1>1. CASE Stop
  BY <1>1, StopSteady
<1>2. CASE ~Stop
  <2>1. PICK k \in 0 .. posted :
          /\ ~(Len(GetIncomingRows(Listing(k))) < Len(script.movements))
          /\ script' = [script EXCEPT !.step = "detail", !.rows = GetIncomingRows(Listing(k))]
          /\ page' = [page EXCEPT !.steady = page.steady /\ Listing(k) = Listing(posted)]
    BY <1>0, <1>2 DEF ReadRows
  <2> DEFINE rows == GetIncomingRows(Listing(k))
  <2>2. script' = [script EXCEPT !.step = "detail", !.rows = rows] /\ ~(Len(rows) < Len(script.movements))
    BY <2>1
  <2>3. page'.steady => page.steady /\ Listing(k) = Listing(posted)
    BY <1>0, <2>1 DEF Pages
  <2>4. k \in 0 .. Len(Feed)
    BY <1>0, FeedFacts
  <2>a. rows = GetIncomingRows(Listing(k))
    OBVIOUS
  <2> HIDE DEF rows
  <2>5. /\ script'.step = "detail" /\ script'.rows = rows /\ script'.movements = script.movements
        /\ script'.at = 1 /\ script'.built = <<>> /\ script'.version = script.version
    BY <1>0, <2>2 DEF Runs
  <2>6. ASSUME page'.steady, script.version.dropsExchange, 1 <= Len(script.movements)
        PROVE  rows[1] = script.movements[1]
    <3>1. /\ script.movements = IncomingMovements(Listing(posted), script.version)
          /\ rows = GetIncomingRows(Listing(posted))
      BY <1>0, <2>3, <2>6, <2>a DEF SteadyInv, SteadyLists
    <3>2. PICK a : Picks(rows, posted, Incoming, a)
      BY <1>0, <3>1, RowsPick
    <3>3. PICK b : Picks(script.movements, posted, Eligible(script.version), b)
      BY <1>0, <3>1, MovementsPick
    <3>4. Len(rows) \in Nat /\ Len(script.movements) \in Nat
      BY <3>2, <3>3 DEF Picks
    <3>5. 1 <= Len(rows)
      BY <2>2, <2>6, <3>4
    <3> QED BY <1>0, <2>6, <3>2, <3>3, <3>5, HeadsAlign
  <2>7. ToSet(script'.built) = {}
    BY <2>5 DEF ToSet
  <2> QED BY <2>5, <2>6, <2>7 DEF SteadyInv, SteadyLists, SteadyPairs, Shown, Movement
<1> QED BY <1>1, <1>2

(* A turn builds its row's own payment and goes on to a row in its place.  *)
LEMMA DetailSteady ==
  ASSUME ScrapeInv, SteadyInv, OpenDetail
  PROVE  SteadyInv'
<1>0. /\ script \in Runs /\ script.step = "detail" /\ script.at <= Len(script.movements)
      /\ UNCHANGED <<posted, db>>
  BY DEF OpenDetail, ScrapeInv, ScrapeTypeOK
<1>1. script.at \in 1 .. Len(script.movements) /\ script.at \in Nat \ {0}
  BY <1>0, DetailFacts
<1>2. CASE Stop
  BY <1>2, StopSteady
<1>3. CASE Proceed("ingest") /\ UNCHANGED page
  <2>1. /\ script'.step = "ingest" /\ script'.built = script.built
        /\ script'.version = script.version
    BY <1>0, <1>3 DEF Proceed, Runs
  <2> QED BY <1>0, <1>3, <2>1 DEF SteadyInv, SteadyLists, SteadyPairs, Own, Payments
<1>4. ASSUME UNCHANGED page, script'.step = "detail", script'.at = script.at + 1,
             script'.movements = script.movements, script'.rows = script.rows,
             script'.version = script.version,
             \A t \in ToSet(script'.built) : t \notin ToSet(script.built) =>
                t.ref = Shown.id /\ t.movement = Movement
      PROVE  SteadyInv'
  <2>1. SUFFICES ASSUME page.steady, script.version.dropsExchange
                 PROVE  /\ \A t \in ToSet(script'.built) : Own(t)'
                        /\ script.at + 1 <= Len(script.movements) =>
                             script.rows[script.at + 1] = script.movements[script.at + 1]
    BY <1>4 DEF SteadyInv, SteadyLists, SteadyPairs, Shown, Movement
  <2>2. /\ script.rows[script.at] = script.movements[script.at] /\ Shown = Movement
        /\ \A t \in ToSet(script.built) : Own(t)
    BY <1>0, <2>1 DEF SteadyInv, SteadyPairs, Shown, Movement
  <2>3. Shown \in Payments
    BY <1>0, <1>1, DetailFacts DEF Shown, Payments
  <2>4. ASSUME NEW t \in ToSet(script'.built) PROVE Own(t)'
    BY <1>0, <1>4, <2>2, <2>3 DEF Own, Payments
  <2>5. script.at + 1 <= Len(script.movements) =>
          script.rows[script.at + 1] = script.movements[script.at + 1]
    <3> DEFINE p == script.at
    <3>1. p \in Nat \ {0} /\ script.rows[p] = script.movements[p]
      BY <1>1, <2>2
    <3> HIDE DEF p
    <3>2. p + 1 <= Len(script.movements) => script.rows[p + 1] = script.movements[p + 1]
      BY <1>0, <2>1, <3>1, StaysAligned
    <3> QED BY <3>2 DEF p
  <2> QED BY <2>4, <2>5
<1>5. CASE script' = NextRow /\ UNCHANGED page
  <2>1. script' = [script EXCEPT !.at = script.at + 1]
    BY <1>5 DEF NextRow
  <2>2. /\ script'.step = "detail" /\ script'.at = script.at + 1
        /\ script'.movements = script.movements /\ script'.rows = script.rows
        /\ script'.version = script.version /\ script'.built = script.built
    BY <1>0, <2>1 DEF Runs
  <2> QED BY <1>4, <1>5, <2>2
<1>6. CASE /\ script' = [NextRow EXCEPT !.built =
                            Append(@, [ref |-> Shown.id, movement |-> Movement])]
           /\ UNCHANGED page
  <2>e. PICK e : e = [ref |-> Shown.id, movement |-> Movement]
    OBVIOUS
  <2>1. e \in Entries /\ script.built \in Seq(Entries) /\ e.ref = Shown.id /\ e.movement = Movement
    <3>1. Shown.id \in References
      <4>1. PICK f \in 1 .. posted : Shown = Feed[f]
        BY <1>0, <1>1, DetailFacts DEF Shown
      <4>2. f \in 1 .. Len(Feed)
        BY FeedFacts DEF ScrapeInv, ScrapeTypeOK
      <4> QED BY <4>1, <4>2, FeedIds
    <3>2. Movement \in AllMovements
      BY <1>0, <1>1, DetailFacts DEF Movement
    <3> QED BY <1>0, <2>e, <3>1, <3>2 DEF Entries, Runs
  <2> DEFINE built == Append(script.built, e)
  <2>2. built \in Seq(Entries) /\ ToSet(built) = ToSet(script.built) \cup {e}
    BY <2>1, AppendMembers
  <2>3. script' = [[script EXCEPT !.at = script.at + 1] EXCEPT !.built = built]
        /\ script.at + 1 \in Nat \ {0}
    BY <1>0, <1>1, <1>6, <2>e DEF NextRow, Runs
  <2> HIDE DEF built
  <2>4. /\ script'.step = "detail" /\ script'.at = script.at + 1
        /\ script'.movements = script.movements /\ script'.rows = script.rows
        /\ script'.version = script.version /\ script'.built = built
    BY <1>0, <2>2, <2>3 DEF Runs
  <2> QED BY <1>4, <1>6, <2>1, <2>2, <2>4
<1> QED BY <1>2, <1>3, <1>5, <1>6 DEF OpenDetail, ExtractionFails

LEMMA IngestSteady ==
  ASSUME ScrapeInv, SteadyInv, ScriptDone \/ StoreNext
  PROVE  SteadyInv'
<1>0. script \in Runs /\ UNCHANGED <<posted, page>>
  BY DEF ScriptDone, StoreNext, ScrapeInv, ScrapeTypeOK
<1>1. CASE ScriptDone
  <2>1. /\ script'.step = "ingest" /\ script'.built = script.built
        /\ script'.version = script.version /\ script.step = "detail"
    BY <1>0, <1>1 DEF ScriptDone, Proceed, Runs
  <2> QED BY <1>0, <2>1 DEF SteadyInv, SteadyLists, SteadyPairs, Own, Payments
<1>2. CASE StoreNext
  <2> DEFINE rest == Tail(script.built)
  <2>1. /\ script.step = "ingest" /\ script' = [script EXCEPT !.built = rest]
        /\ ToSet(script.built) = {Head(script.built)} \cup ToSet(rest) /\ rest \in Seq(Entries)
    <3>1. script.built \in Seq(Entries) /\ script.built # <<>>
      BY <1>0, <1>2 DEF StoreNext, Runs
    <3> QED BY <1>2, <3>1, HeadAndTail DEF StoreNext
  <2> HIDE DEF rest
  <2>2. script'.step = "ingest" /\ script'.built = rest /\ script'.version = script.version
    BY <1>0, <2>1 DEF Runs
  <2> QED BY <1>0, <2>1, <2>2 DEF SteadyInv, SteadyLists, SteadyPairs, Own, Payments
<1> QED BY <1>1, <1>2

LEMMA ArrivalSteady ==
  ASSUME ScrapeInv, SteadyInv, PaymentArrives
  PROVE  SteadyInv'
<1>1. /\ UNCHANGED script /\ posted' = posted + 1 /\ posted \in Nat
      /\ page'.steady => page.steady /\ script.step \notin {"wait", "filter", "rows"}
  <2>1. page \in Pages /\ posted \in Nat
    BY FeedFacts DEF ScrapeInv, ScrapeTypeOK
  <2>2. page' = [page EXCEPT !.steady = page.steady /\ script.step \notin {"wait", "filter", "rows"}]
    BY DEF PaymentArrives
  <2>3. page'.steady = (page.steady /\ script.step \notin {"wait", "filter", "rows"})
    BY <2>1, <2>2 DEF Pages
  <2> QED BY <2>1, <2>3 DEF PaymentArrives
<1>2. Payments \subseteq Payments'
  BY <1>1 DEF Payments
<1> QED BY <1>1, <1>2 DEF SteadyInv, SteadyLists, SteadyPairs, Own, Shown, Movement

LEMMA SteadyKeeps == ScrapeInv /\ SteadyInv /\ [ScrapeNext]_scrapeVars => SteadyInv'
<1> SUFFICES ASSUME ScrapeInv, SteadyInv, [ScrapeNext]_scrapeVars PROVE SteadyInv'
  OBVIOUS
<1>1. CASE UNCHANGED scrapeVars
  <2>1. UNCHANGED <<posted, page, script>>
    BY <1>1 DEF scrapeVars
  <2> QED BY <2>1 DEF SteadyInv, SteadyLists, SteadyPairs, Own, Payments, Shown, Movement
<1>2. CASE StartScrape \/ Navigate \/ FillLoginForm \/ SubmitLogin \/ SelectEmpresasCard \/ ClickEmpresasCard
  BY <1>2, StartSteady
<1>3. CASE ClickIngresos \/ CaptureMovements
  BY <1>3, IngresosSteady, CaptureSteady
<1>4. CASE AwaitMovements \/ FilterMovements \/ ReadRows
  BY <1>4, AwaitSteady, FilterSteady, RowsSteady
<1>5. CASE OpenDetail
  BY <1>5, DetailSteady
<1>6. CASE ScriptDone \/ StoreNext
  BY <1>6, IngestSteady
<1>7. CASE StoreFails \/ ScrapeEnds
  BY <1>7, StopSteady DEF StoreFails, ScrapeEnds
<1>8. CASE PaymentArrives
  BY <1>8, ArrivalSteady
<1> QED BY <1>1, <1>2, <1>3, <1>4, <1>5, <1>6, <1>7, <1>8 DEF ScrapeNext

(* What a step stores is the head of what was built.                       *)
LEMMA StoredIsBuilt ==
  ASSUME ScrapeInv, ScrapeNext, NEW t \in db' \ db
  PROVE  script.step = "ingest" /\ t \in ToSet(script.built)
<1>1. StoreNext
  BY DEF ScrapeNext, StartScrape, Navigate, FillLoginForm, SubmitLogin, CaptureMovements, ClickEmpresasCard,
      SelectEmpresasCard, ClickIngresos, AwaitMovements, FilterMovements, ReadRows, OpenDetail, ScriptDone,
      StoreFails, ScrapeEnds, PaymentArrives
<1>2. script.built \in Seq(Entries) /\ script.built # <<>> /\ script.step = "ingest"
  BY <1>1 DEF StoreNext, ScrapeInv, ScrapeTypeOK, Runs
<1>3. t = Head(script.built)
  BY <1>1 DEF StoreNext
<1> QED BY <1>2, <1>3, HeadAndTail

(* Every row a step stores has the reference of a payment of EMPRESAS.     *)
(* While the account stays as it was from the click on Ingresos until the  *)
(* table is read, and exchanges are left out, the row is that payment's    *)
(* own, for any payments, answers, rounds and skipped rows.  Otherwise it  *)
(* is a movement's at most half an hour from that payment's detail, which  *)
(* may be another payment's.                                               *)
THEOREM RowsAreStoredAsPaid == ScrapeSpec => StoredAsPaid
<1> DEFINE Paid == \A t \in db' \ db : \E p \in Payments :
                     /\ p.id = t.ref
                     /\ \/ t.movement = p
                        \/ /\ ~(page.steady /\ script.version.dropsExchange)
                           /\ (p.minute + p.delay) - t.movement.minute \in -30 .. 30
<1>1. ScrapeInit => SteadyInv
  BY DEF ScrapeInit, Idle, SteadyInv, SteadyLists, SteadyPairs
<1>2. ScrapeInv /\ SteadyInv /\ [ScrapeNext]_scrapeVars => [Paid]_scrapeVars
  <2> SUFFICES ASSUME ScrapeInv, SteadyInv, ScrapeNext, NEW t \in db' \ db
               PROVE  \E p \in Payments :
                        /\ p.id = t.ref
                        /\ \/ t.movement = p
                           \/ /\ ~(page.steady /\ script.version.dropsExchange)
                              /\ (p.minute + p.delay) - t.movement.minute \in -30 .. 30
    OBVIOUS
  <2>1. script.step = "ingest" /\ t \in ToSet(script.built)
    BY StoredIsBuilt
  <2>2. CASE page.steady /\ script.version.dropsExchange
    BY <2>1, <2>2 DEF SteadyInv, SteadyPairs, Own
  <2>3. CASE ~(page.steady /\ script.version.dropsExchange)
    BY <2>1, <2>3 DEF ScrapeInv, EntriesWhole, Whole
  <2> QED BY <2>2, <2>3
<1>3. ScrapeInv /\ SteadyInv /\ [ScrapeNext]_scrapeVars => SteadyInv'
  BY SteadyKeeps
<1>4. StoredAsPaid <=> [][Paid]_scrapeVars
  BY DEF StoredAsPaid
<1> HIDE DEF Paid
<1> QED BY <1>1, <1>2, <1>3, <1>4, ScrapeSafe, PTL DEF ScrapeSpec

=============================================================================
