--------------------------- MODULE ListingProofs ---------------------------
(***************************************************************************)
(* The pages of GET /account/otx/{address}.  Both properties rest on what  *)
(* ORDER BY and LIMIT do to a finite set of ids: the oldest n ids are      *)
(* closed downwards and, when one is left out, n in number.  What signing  *)
(* contributes is that an account's new ids are above all its old ones.    *)
(***************************************************************************)
EXTENDS Listing, NonceProofs, FiniteSetTheorems, WellFoundedInduction

(* Ids are numbers below some bound.                                       *)
Bounded(ids, b) == /\ b \in Nat /\ ids \subseteq Nat
                   /\ \A i \in ids : i < b

Below(ids, i) == {k \in ids : k < i}
Above(ids, i) == {k \in ids : k > i}

(* What LIMIT keeps: the rows with fewer than n rows before them.          *)
LEMMA OldestLemma ==
    ASSUME NEW ids, NEW n
    PROVE  /\ Oldest(ids, n) \subseteq ids
           /\ \A i \in ids : i \in Oldest(ids, n) <=> Cardinality(Below(ids, i)) < n
BY Zenon DEF Oldest, Below

(* The same, counting the rows after.                                      *)
LEMMA NewestLemma ==
    ASSUME NEW ids, NEW n
    PROVE  /\ Newest(ids, n) \subseteq ids
           /\ \A i \in ids : i \in Newest(ids, n) <=> Cardinality(Above(ids, i)) < n
BY Zenon DEF Newest, Above

(* Ids below a bound are finitely many.                                    *)
LEMMA FiniteLemma ==
    ASSUME NEW ids, NEW b, Bounded(ids, b)
    PROVE  IsFiniteSet(ids)
<1>1. \A i \in ids : i <= b
  BY DEF Bounded
<1> QED BY <1>1, FS_BoundedSetOfNaturals DEF Bounded

(* A part of a finite set has no more elements, and fewer if one is left   *)
(* out.                                                                    *)
LEMMA PartLemma ==
    ASSUME NEW ids, IsFiniteSet(ids), NEW part, part \subseteq ids
    PROVE  /\ IsFiniteSet(part)
           /\ Cardinality(part) \in Nat /\ Cardinality(ids) \in Nat
           /\ Cardinality(part) <= Cardinality(ids)
           /\ part # ids => Cardinality(part) < Cardinality(ids)
<1>1. /\ IsFiniteSet(part)
      /\ Cardinality(part) <= Cardinality(ids)
      /\ Cardinality(ids) = Cardinality(part) => ids = part
  BY FS_Subset
<1>2. Cardinality(part) \in Nat /\ Cardinality(ids) \in Nat
  BY <1>1, FS_CardinalityType
<1> QED BY <1>1, <1>2

(* Among any ids there is a least one.                                     *)
LEMMA LeastLemma ==
    ASSUME NEW ids, ids \subseteq Nat, ids # {}
    PROVE  \E i \in ids : \A k \in ids : i <= k
<1> DEFINE less == {p \in Nat \X Nat : p[1] < p[2]}
<1>1. IsWellFoundedOn(less, Nat)
  BY NatLessThanWellFounded DEF OpToRel
<1>2. PICK i \in ids : \A k \in ids : ~ (<<k, i>> \in less)
  <2> HIDE DEF less
  <2> QED BY <1>1, WFMin
<1>3. \A k \in ids : ~ (k < i)
  BY <1>2
<1> QED BY <1>3

(* Below a bound there is a greatest one: the one closest to the bound.    *)
LEMMA GreatestLemma ==
    ASSUME NEW ids, NEW b, Bounded(ids, b), ids # {}
    PROVE  \E i \in ids : \A k \in ids : k <= i
<1> DEFINE gaps == {b - i : i \in ids}
<1>1. gaps \subseteq Nat /\ gaps # {}
  BY DEF Bounded
<1>2. PICK g \in gaps : \A h \in gaps : g <= h
  <2> HIDE DEF gaps
  <2> QED BY <1>1, LeastLemma
<1>3. PICK i \in ids : g = b - i
  OBVIOUS
<1>4. \A k \in ids : b - i <= b - k
  BY <1>2, <1>3
<1>5. \A k \in ids : k <= i
  BY <1>4 DEF Bounded
<1> QED BY <1>5

(* The first and the last id of a page.                                    *)
LEMMA EndsLemma ==
    ASSUME NEW page, NEW b, Bounded(page, b), page # {}
    PROVE  /\ First(page) \in page /\ \A k \in page : First(page) <= k
           /\ Last(page) \in page /\ \A k \in page : k <= Last(page)
<1> DEFINE IsFirst(i) == \A k \in page : i <= k
           IsLast(i) == \A k \in page : k <= i
<1>1. \E i \in page : IsFirst(i)
  BY LeastLemma DEF Bounded
<1>2. \E i \in page : IsLast(i)
  BY GreatestLemma
<1>3. First(page) = CHOOSE i \in page : IsFirst(i)
  BY DEF First
<1>4. Last(page) = CHOOSE i \in page : IsLast(i)
  BY DEF Last
<1>5. First(page) \in page /\ IsFirst(First(page))
  <2> HIDE DEF IsFirst
  <2> QED BY <1>1, <1>3
<1>6. Last(page) \in page /\ IsLast(Last(page))
  <2> HIDE DEF IsLast
  <2> QED BY <1>2, <1>4
<1> QED BY <1>5, <1>6

(* ORDER BY id ASC LIMIT n leaves no gap: what precedes a row of the page  *)
(* is on the page.                                                         *)
LEMMA OldestIsClosed ==
    ASSUME NEW ids, NEW b, Bounded(ids, b), NEW n \in Nat,
           NEW i \in Oldest(ids, n), NEW k \in ids, k < i
    PROVE  k \in Oldest(ids, n)
<1>0. Oldest(ids, n) \subseteq ids
  BY OldestLemma
<1>1. Below(ids, k) \subseteq Below(ids, i)
  <2>1. i \in Nat /\ \A j \in ids : j \in Nat
    BY <1>0 DEF Bounded
  <2>2. \A j \in ids : j < k => j < i
    BY <2>1
  <2> QED BY <2>2 DEF Below
<1>2. Below(ids, i) \subseteq ids /\ Below(ids, k) \subseteq ids
  BY DEF Below
<1>3. IsFiniteSet(Below(ids, i))
  BY <1>2, FiniteLemma, PartLemma
<1>4. /\ Cardinality(Below(ids, k)) <= Cardinality(Below(ids, i))
      /\ Cardinality(Below(ids, k)) \in Nat /\ Cardinality(Below(ids, i)) \in Nat
  BY <1>1, <1>3, PartLemma
<1>5. Cardinality(Below(ids, i)) < n
  BY <1>0, OldestLemma
<1>6. Cardinality(Below(ids, k)) < n
  BY <1>4, <1>5
<1> QED BY <1>6, OldestLemma

(* ... and has at most n rows.                                             *)
LEMMA OldestIsShort ==
    ASSUME NEW ids, NEW b, Bounded(ids, b), NEW n \in Nat
    PROVE  Cardinality(Oldest(ids, n)) \in Nat /\ Cardinality(Oldest(ids, n)) <= n
<1> DEFINE page == Oldest(ids, n)
<1>1. page \subseteq ids /\ Bounded(page, b)
  BY OldestLemma DEF Bounded
<1>2. CASE page = {}
  BY <1>2, FS_EmptySet
<1>3. CASE page # {}
  <2>1. PICK i \in page : \A k \in page : k <= i
    <3> HIDE DEF page
    <3> QED BY <1>1, <1>3, GreatestLemma
  <2>2. Cardinality(Below(ids, i)) < n
    BY <1>1, <2>1, OldestLemma
  <2>3. IsFiniteSet(Below(ids, i)) /\ Cardinality(Below(ids, i)) \in Nat
    <3>1. Below(ids, i) \subseteq ids
      BY DEF Below
    <3> QED BY <3>1, FiniteLemma, PartLemma
  <2>4. page \subseteq Below(ids, i) \cup {i}
    BY <1>1, <2>1 DEF Below, Bounded
  <2>5. /\ IsFiniteSet(Below(ids, i) \cup {i})
        /\ Cardinality(Below(ids, i) \cup {i}) = Cardinality(Below(ids, i)) + 1
    <3>1. i \notin Below(ids, i)
      BY <1>1 DEF Below, Bounded
    <3> QED BY <2>3, <3>1, FS_AddElement
  <2>6. /\ Cardinality(page) \in Nat
        /\ Cardinality(page) <= Cardinality(Below(ids, i) \cup {i})
    <3> HIDE DEF page
    <3> QED BY <2>4, <2>5, PartLemma
  <2> QED BY <2>2, <2>3, <2>5, <2>6
<1> QED BY <1>2, <1>3

(* ... and exactly n of them if a row is left for the next page.           *)
LEMMA OldestIsFull ==
    ASSUME NEW ids, NEW b, Bounded(ids, b), NEW n \in Nat, ids # Oldest(ids, n)
    PROVE  Cardinality(Oldest(ids, n)) = n
<1> DEFINE page == Oldest(ids, n)
           rest == ids \ page
<1>1. page \subseteq ids /\ rest # {} /\ rest \subseteq Nat
  BY OldestLemma DEF Bounded
<1>2. PICK m \in rest : \A k \in rest : m <= k
  <2> HIDE DEF rest
  <2> QED BY <1>1, LeastLemma
<1>3. ~ (Cardinality(Below(ids, m)) < n)
  BY <1>2, OldestLemma
<1>4. Below(ids, m) \subseteq page
  <2>1. \A k \in ids : k < m => k \notin rest
    <3>1. m \in Nat /\ \A k \in ids : k \in Nat
      BY <1>1 DEF Bounded
    <3> HIDE DEF rest
    <3> QED BY <1>2, <3>1
  <2> QED BY <2>1 DEF Below
<1>5. IsFiniteSet(page)
  <2> HIDE DEF page
  <2> QED BY <1>1, FiniteLemma, PartLemma
<1>6. /\ Cardinality(Below(ids, m)) <= Cardinality(page)
      /\ Cardinality(Below(ids, m)) \in Nat /\ Cardinality(page) \in Nat
  <2> HIDE DEF page, rest
  <2> QED BY <1>4, <1>5, PartLemma
<1> QED BY <1>3, <1>6, OldestIsShort

(* Rows with larger ids change nothing in a full page.                     *)
LEMMA OldestIsStable ==
    ASSUME NEW ids, NEW more, NEW b, Bounded(more, b),
           ids \subseteq more, \A i \in more \ ids : \A k \in ids : k < i,
           NEW n \in Nat, Cardinality(Oldest(ids, n)) = n
    PROVE  Oldest(more, n) = Oldest(ids, n)
<1>1. \A i \in more : i \in Nat
  BY DEF Bounded
<1>2. ASSUME NEW i \in ids PROVE i \in Oldest(more, n) <=> i \in Oldest(ids, n)
  <2>1. \A k \in more : k < i => k \in ids
    BY <1>1, <1>2
  <2>2. Below(more, i) = Below(ids, i)
    BY <2>1 DEF Below
  <2> QED BY <2>2, OldestLemma
<1>3. ASSUME NEW i \in more \ ids PROVE i \notin Oldest(more, n)
  <2>1. Oldest(ids, n) \subseteq Below(more, i)
    <3>1. Oldest(ids, n) \subseteq ids
      BY OldestLemma
    <3> QED BY <1>3, <3>1 DEF Below
  <2>2. IsFiniteSet(Below(more, i))
    <3>1. Below(more, i) \subseteq more
      BY DEF Below
    <3> QED BY <3>1, FiniteLemma, PartLemma
  <2>3. n <= Cardinality(Below(more, i)) /\ Cardinality(Below(more, i)) \in Nat
    BY <2>1, <2>2, PartLemma
  <2> QED BY <2>3, OldestLemma
<1>4. Oldest(more, n) \subseteq more /\ Oldest(ids, n) \subseteq ids
  BY OldestLemma
<1> QED BY <1>2, <1>3, <1>4

(* The page after cursor c, and the one its last id leads to.              *)
NextPage(ids, c, n) == Oldest(Above(ids, c), n)
PageAfterNext(ids, c, n) == NextPage(ids, Last(NextPage(ids, c, n)), n)

(* No row lies between the two, and the newest n rows before the second    *)
(* are the first.                                                          *)
LEMMA AdjoinLemma ==
    ASSUME NEW ids, NEW b, Bounded(ids, b), NEW n \in Nat, NEW c \in Nat,
           NextPage(ids, c, n) # {}, PageAfterNext(ids, c, n) # {}
    PROVE  /\ \A i \in ids : ~ (/\ Last(NextPage(ids, c, n)) < i
                               /\ i < First(PageAfterNext(ids, c, n)))
           /\ Newest(Below(ids, First(PageAfterNext(ids, c, n))), n) = NextPage(ids, c, n)
           /\ First(PageAfterNext(ids, c, n)) \in Nat \ {0}
<1>0. PICK page, after : page = NextPage(ids, c, n) /\ after = PageAfterNext(ids, c, n)
  OBVIOUS
<1> DEFINE l == Last(page)
           m == First(after)
           rows == Above(ids, c)
           rest == Above(ids, l)
           before == Below(ids, m)
<1>1. \A i \in ids : i \in Nat
  BY DEF Bounded
<1>2. Bounded(rows, b) /\ Bounded(rest, b) /\ Bounded(before, b)
  BY DEF Bounded, Above, Below
<1>3. /\ page = Oldest(rows, n) /\ after = Oldest(rest, n)
      /\ page \subseteq rows /\ after \subseteq rest
      /\ page # {} /\ after # {}
  BY <1>0, OldestLemma DEF NextPage, PageAfterNext
<1>4. Bounded(page, b) /\ Bounded(after, b)
  BY <1>2, <1>3 DEF Bounded
<1>5. l \in page /\ \A k \in page : k <= l
  BY <1>3, <1>4, EndsLemma
<1>6. m \in after /\ \A k \in after : m <= k
  BY <1>3, <1>4, EndsLemma
<1>7. /\ l \in ids /\ m \in ids /\ c < l /\ l < m
      /\ \A i \in page : i \in ids /\ c < i
  BY <1>3, <1>5, <1>6 DEF Above
<1>8. \A i \in ids : ~ (l < i /\ i < m)
  <2> SUFFICES ASSUME NEW i \in ids, l < i, i < m
               PROVE  FALSE
    OBVIOUS
  <2>1. i \in rest
    BY <1>1, <1>7 DEF Above
  <2>2. i \in after
    <3> HIDE DEF rest, m, l
    <3> QED BY <1>2, <1>3, <1>6, <2>1, OldestIsClosed DEF rest, l
  <2> QED BY <1>1, <1>6, <1>7, <2>2
<1>9. ASSUME NEW i \in ids, c < i, i < m PROVE i \in page
  <2>1. i \in rows /\ (i = l \/ i < l)
    BY <1>1, <1>7, <1>8, <1>9 DEF Above
  <2> HIDE DEF rows, m, l
  <2> QED BY <1>2, <1>3, <1>5, <2>1, OldestIsClosed DEF rows
<1>10. Cardinality(page) = n
  <2>1. m \in rows /\ m \notin page
    BY <1>1, <1>5, <1>7 DEF Above
  <2> HIDE DEF rows, m
  <2> QED BY <1>2, <1>3, <2>1, OldestIsFull DEF rows
<1>11. IsFiniteSet(page) /\ IsFiniteSet(before)
  BY <1>2, <1>4, FiniteLemma
<1>12. ASSUME NEW i \in before PROVE i \in Newest(before, n) <=> i \in page
  <2>1. i \in ids /\ i < m
    BY DEF Below
  <2>2. CASE i \in page
    <3>1. Above(before, i) \subseteq page \ {i}
      <4>1. \A k \in Above(before, i) : k \in ids /\ k < m /\ i < k
        BY <1>1, <2>1 DEF Above, Below
      <4>2. c < i
        BY <1>7, <2>2
      <4>3. \A k \in Above(before, i) : c < k /\ k # i
        BY <1>1, <2>1, <4>1, <4>2
      <4> QED BY <1>9, <4>1, <4>3
    <3>2. Cardinality(page \ {i}) = n - 1 /\ IsFiniteSet(page \ {i})
      BY <1>10, <1>11, <2>2, FS_RemoveElement
    <3>3. /\ Cardinality(Above(before, i)) <= Cardinality(page \ {i})
          /\ Cardinality(Above(before, i)) \in Nat
      BY <3>1, <3>2, PartLemma
    <3>4. Cardinality(Above(before, i)) < n
      BY <3>2, <3>3
    <3> HIDE DEF before
    <3> QED BY <2>2, <3>4, NewestLemma
  <2>3. CASE i \notin page
    <3>1. i <= c
      BY <1>1, <1>9, <2>1, <2>3
    <3>2. page \subseteq Above(before, i)
      <4>1. \A k \in page : k \in ids /\ k < m /\ i < k
        BY <1>1, <1>5, <1>7, <2>1, <3>1
      <4> QED BY <1>1, <2>1, <4>1 DEF Above, Below
    <3>3. IsFiniteSet(Above(before, i))
      <4>1. Above(before, i) \subseteq before
        BY DEF Above
      <4> HIDE DEF before
      <4> QED BY <1>11, <4>1, PartLemma
    <3>4. n <= Cardinality(Above(before, i)) /\ Cardinality(Above(before, i)) \in Nat
      BY <1>10, <3>2, <3>3, PartLemma
    <3> HIDE DEF before
    <3> QED BY <2>3, <3>4, NewestLemma
  <2> QED BY <2>2, <2>3
<1>13. page \subseteq before
  BY <1>1, <1>5, <1>7 DEF Below
<1>14. Newest(before, n) = page
  <2>1. Newest(before, n) \subseteq before
    BY NewestLemma
  <2> QED BY <1>12, <1>13, <2>1
<1>15. m \in Nat \ {0}
  BY <1>1, <1>7
<1> QED BY <1>0, <1>8, <1>14, <1>15

(* What the handler asks the store for: more per page than MaxPerPage is   *)
(* cut to MaxPerPage.                                                      *)
LEMMA HandlerLemma ==
    ASSUME NEW a, NEW next \in BOOLEAN, NEW c \in Nat
    PROVE  getOTXByAddressHandler(a, next, c, PerPage) =
               IF next THEN Oldest(Above(Visible(a), c), MaxPerPage)
               ELSE IF c = 0 THEN Oldest(Visible(a), MaxPerPage)
               ELSE Newest(Below(Visible(a), c), MaxPerPage)
<1>1. PerPage > MaxPerPage /\ (c < 1 <=> c = 0)
  BY MaxPerPageAssumption DEF PerPage
<1> QED BY <1>1 DEF getOTXByAddressHandler, GetOTXByAccount, GetOTXByAccountNext,
                    GetOTXByAccountPrevious, Above, Below

(* An account's ids are numbers below the sequence.                        *)
LEMMA VisibleLemma ==
    ASSUME Typed, NonceInv, NEW a
    PROVE  Bounded(Visible(a), nextID)
<1>1. nextID \in Nat /\ \A o \in otx : o.id \in Nat /\ o.id < nextID
  BY NumbersLemma DEF Typed, NonceInv, BooksInv
<1> QED BY <1>1 DEF Bounded, Visible

(* Paging on and back over what is committed skips and repeats no OTX.     *)
THEOREM PagingIsSeamless == Spec => []PagesAdjoin
<1>1. ASSUME Typed, NonceInv, NEW a \in Accounts, NEW c \in Cursors(a)
      PROVE  LET page  == getOTXByAddressHandler(a, TRUE, c, PerPage)
                 after == getOTXByAddressHandler(a, TRUE, Last(page), PerPage)
             IN  page # {} /\ after # {} =>
                   /\ ~\E i \in Visible(a) : Last(page) < i /\ i < First(after)
                   /\ getOTXByAddressHandler(a, FALSE, First(after), PerPage) = page
  <2> DEFINE ids == Visible(a)
             page == NextPage(ids, c, MaxPerPage)
             after == PageAfterNext(ids, c, MaxPerPage)
  <2>1. Bounded(ids, nextID) /\ MaxPerPage \in Nat
    BY <1>1, VisibleLemma, MaxPerPageAssumption
  <2>2. c \in Nat
    BY <2>1 DEF Cursors, Bounded
  <2>3. getOTXByAddressHandler(a, TRUE, c, PerPage) = page
    BY <2>2, HandlerLemma DEF NextPage
  <2>4. CASE page = {}
    BY <2>3, <2>4
  <2>5. CASE page # {}
    <3>1. Last(page) \in Nat
      <4>1. page \subseteq ids
        BY OldestLemma DEF NextPage, Above
      <4>2. Bounded(page, nextID)
        BY <2>1, <4>1 DEF Bounded
      <4> HIDE DEF page
      <4> QED BY <2>5, <4>2, EndsLemma DEF Bounded
    <3>2. getOTXByAddressHandler(a, TRUE, Last(page), PerPage) = after
      BY <3>1, HandlerLemma DEF NextPage, PageAfterNext
    <3>3. CASE after = {}
      BY <2>3, <3>2, <3>3
    <3>4. CASE after # {}
      <4>1. /\ \A i \in ids : ~ (Last(page) < i /\ i < First(after))
            /\ Newest(Below(ids, First(after)), MaxPerPage) = page
            /\ First(after) \in Nat \ {0}
        <5> HIDE DEF ids
        <5> QED BY <2>1, <2>2, <2>5, <3>4, AdjoinLemma
      <4>2. getOTXByAddressHandler(a, FALSE, First(after), PerPage) = page
        BY <4>1, HandlerLemma
      <4> HIDE DEF page, after
      <4> QED BY <2>3, <3>2, <4>1, <4>2 DEF ids
    <3> QED BY <3>3, <3>4
  <2> QED BY <2>4, <2>5
<1>2. Typed /\ NonceInv => PagesAdjoin
  BY <1>1, Zenon DEF PagesAdjoin
<1> QED BY <1>2, NonceInvariant, PTL

(* A step shows an account no OTX below one it has shown already.          *)
LEMMA GrowthIsAbove ==
    ASSUME Typed, NonceInv, [Next]_vars, NEW a
    PROVE  /\ Visible(a) \subseteq Visible(a)'
           /\ \A i \in Visible(a)' \ Visible(a) : \A k \in Visible(a) : k < i
<1>1. CASE UNCHANGED otx
  BY <1>1 DEF Visible
<1>2. ASSUME NEW j \in Jobs, Committed(j)
      PROVE  /\ otx' = otx \cup pend[j]
             /\ \A p \in pend[j], o \in otx : o.signer = p.signer => o.id < p.id
  BY <1>2 DEF Committed, NonceInv, FreshInv
<1>3. ASSUME NEW new, otx' = otx \cup new,
             \A p \in new, o \in otx : o.signer = p.signer => o.id < p.id
      PROVE  /\ Visible(a) \subseteq Visible(a)'
             /\ \A i \in Visible(a)' \ Visible(a) : \A k \in Visible(a) : k < i
  <2>1. Visible(a) \subseteq Visible(a)'
    BY <1>3 DEF Visible
  <2>2. ASSUME NEW i \in Visible(a)' \ Visible(a), NEW k \in Visible(a)
        PROVE  k < i
    <3>1. PICK p \in otx' : p.signer = a /\ p.id = i
      BY DEF Visible
    <3>2. PICK o \in otx : o.signer = a /\ o.id = k
      BY DEF Visible
    <3>3. p \in new
      BY <1>3, <3>1 DEF Visible
    <3> QED BY <1>3, <3>1, <3>2, <3>3
  <2> QED BY <2>1, <2>2
<1> QED BY <1>1, <1>2, <1>3, GrowthLemma

(* What a client has paged past stays as it was.                           *)
THEOREM FullPagesStay == Spec => PagesStable
<1> DEFINE Page(a, next, c) ==
               IF next THEN Oldest(Above(Visible(a), c), MaxPerPage)
               ELSE IF c = 0 THEN Oldest(Visible(a), MaxPerPage)
               ELSE Newest(Below(Visible(a), c), MaxPerPage)
           Right == /\ Typed /\ NonceInv
                        => \A a \in Accounts : Bounded(Visible(a), nextID)
                    /\ \A a \in Accounts, next \in BOOLEAN, c \in Nat :
                          getOTXByAddressHandler(a, next, c, PerPage) = Page(a, next, c)
<1>a. Right
  BY VisibleLemma, HandlerLemma
<1>b. Right'
  <2> HIDE DEF Right
  <2> QED BY <1>a, PTL
<1>1. ASSUME Typed, NonceInv, Typed', NonceInv', [Next]_vars,
             NEW a \in Accounts, NEW next \in BOOLEAN, NEW c \in Cursors(a),
             Cardinality(getOTXByAddressHandler(a, next, c, PerPage)) = MaxPerPage
      PROVE  getOTXByAddressHandler(a, next, c, PerPage)'
                 = getOTXByAddressHandler(a, next, c, PerPage)
  <2> DEFINE ids == Visible(a)
             more == Visible(a)'
             page == getOTXByAddressHandler(a, next, c, PerPage)
  <2>1. Bounded(ids, nextID) /\ Bounded(more, nextID')
    BY <1>a, <1>b, <1>1
  <2>2. ids \subseteq more /\ \A i \in more \ ids : \A k \in ids : k < i
    BY <1>1, GrowthIsAbove
  <2>3. c \in Nat /\ (c = 0 \/ c \in ids)
    BY <2>1 DEF Cursors, Bounded
  <2>4. page = IF next THEN Oldest(Above(ids, c), MaxPerPage)
               ELSE IF c = 0 THEN Oldest(ids, MaxPerPage)
               ELSE Newest(Below(ids, c), MaxPerPage)
    BY <2>3, HandlerLemma
  <2>5. page' = IF next THEN Oldest(Above(more, c), MaxPerPage)
                ELSE IF c = 0 THEN Oldest(more, MaxPerPage)
                ELSE Newest(Below(more, c), MaxPerPage)
    BY <1>b, <2>3
  <2>6. MaxPerPage \in Nat
    BY MaxPerPageAssumption
  <2>7. CASE next
    <3>1. /\ Bounded(Above(more, c), nextID')
          /\ Above(ids, c) \subseteq Above(more, c)
          /\ \A i \in Above(more, c) \ Above(ids, c) : \A k \in Above(ids, c) : k < i
      BY <2>1, <2>2 DEF Above, Bounded
    <3>2. Oldest(Above(more, c), MaxPerPage) = Oldest(Above(ids, c), MaxPerPage)
      <4> HIDE DEF ids, more
      <4> QED BY <1>1, <2>4, <2>6, <2>7, <3>1, OldestIsStable
    <3> QED BY <2>4, <2>5, <2>7, <3>2
  <2>8. CASE ~next /\ c = 0
    <3>1. Oldest(more, MaxPerPage) = Oldest(ids, MaxPerPage)
      BY <1>1, <2>1, <2>2, <2>4, <2>6, <2>8, OldestIsStable
    <3> QED BY <2>4, <2>5, <2>8, <3>1
  <2>9. CASE ~next /\ c # 0
    <3>1. Below(more, c) = Below(ids, c)
      <4>1. \A i \in more : i < c => i \in ids
        BY <2>1, <2>2, <2>3, <2>9 DEF Bounded
      <4> QED BY <2>2, <4>1 DEF Below
    <3> QED BY <2>4, <2>5, <2>9, <3>1
  <2> QED BY <2>7, <2>8, <2>9
<1>2. Typed /\ NonceInv /\ Typed' /\ NonceInv' /\ [Next]_vars =>
          [otx' # otx =>
             \A a \in Accounts, next \in BOOLEAN : \A c \in Cursors(a) :
                LET page == getOTXByAddressHandler(a, next, c, PerPage)
                IN  Cardinality(page) = MaxPerPage
                        => getOTXByAddressHandler(a, next, c, PerPage)' = page]_vars
  BY <1>1, Zenon
<1> QED BY <1>2, NonceInvariant, PTL DEF Spec, PagesStable
============================================================================
