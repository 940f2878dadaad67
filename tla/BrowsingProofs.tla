---------------------------- MODULE BrowsingProofs ----------------------------
(***************************************************************************)
(* Browsing, for every page size, every listing and every number of        *)
(* changes under a request.                                                *)
(*                                                                         *)
(* A page is an interval of ranks: LIMIT and OFFSET pick a photo by the    *)
(* number of photos before it.  The first part says what ranks tell about  *)
(* the photos next to one (Forward, Backward); the second follows a photo  *)
(* through the transactions of its page: what joins the listing can only   *)
(* push it back, what leaves it can only pull it forward (OnPage).         *)
(***************************************************************************)
EXTENDS Browsing, FiniteSetTheorems, WellFoundedInduction, TLAPS

-------------------------------------------------------------------------------
(* Ranks.                                                                  *)
LEMMA LeastExists ==
  ASSUME NEW S, S \subseteq Nat, S # {}
  PROVE  \E m \in S : \A q \in S : m <= q
<1>1. PICK m \in S : \A q \in S : <<q, m>> \notin OpToRel(<, Nat)
  BY NatLessThanWellFounded, WFMin
<1>2. \A q \in S : ~(q < m)
  BY <1>1 DEF OpToRel
<1>3. QED
  BY <1>2

LEMMA Numbered ==
  ASSUME NEW S, S \subseteq Photo
  PROVE  S \subseteq Nat /\ IsFiniteSet(S)
  BY BrowsingAssumption, FS_Subset

LEMMA RankOf ==
  ASSUME NEW S, S \subseteq Photo, NEW p \in Nat
  PROVE  /\ IsFiniteSet(S) /\ Cardinality(S) \in Nat
         /\ IsFiniteSet({q \in S : q < p}) /\ Rank(S, p) \in Nat
<1>1. IsFiniteSet(S) /\ {q \in S : q < p} \subseteq S
  BY Numbered
<1>2. IsFiniteSet({q \in S : q < p})
  BY <1>1, FS_Subset
<1>3. QED
  BY <1>1, <1>2, FS_CardinalityType DEF Rank

(* The rank rises with the photo and, for a photo, with the set.           *)
LEMMA RankRises ==
  ASSUME NEW S, NEW T, S \subseteq T, T \subseteq Photo, NEW p \in Nat, NEW q \in Nat, p <= q
  PROVE  Rank(S, p) <= Rank(T, q)
<1>1. {r \in S : r < p} \subseteq {r \in T : r < q}
  <2>1. \A r \in S : r \in T /\ r \in Nat
    BY Numbered
  <2>2. QED
    BY <2>1
<1>2. IsFiniteSet({r \in T : r < q})
  BY RankOf
<1>3. QED
  BY <1>1, <1>2, FS_Subset DEF Rank

(* What one photo of the set adds.                                         *)
LEMMA RankStep ==
  ASSUME NEW S, S \subseteq Photo, NEW p \in S
  PROVE  /\ IsFiniteSet({q \in S : q <= p})
         /\ Cardinality({q \in S : q <= p}) = Rank(S, p) + 1
<1>1. {q \in S : q <= p} = {q \in S : q < p} \cup {p} /\ p \notin {q \in S : q < p} /\ p \in Nat
  <2>1. \A q \in S : q \in Nat
    BY Numbered
  <2>2. QED
    BY <2>1
<1>2. IsFiniteSet({q \in S : q < p})
  BY <1>1, RankOf
<1>3. QED
  BY <1>1, <1>2, FS_AddElement DEF Rank

LEMMA RankStrict ==
  ASSUME NEW S, S \subseteq Photo, NEW p \in S, NEW q \in Nat, p < q
  PROVE  Rank(S, p) < Rank(S, q)
<1>1. {r \in S : r <= p} \subseteq {r \in S : r < q} /\ p \in Nat
  <2>1. \A r \in S : r \in Nat
    BY Numbered
  <2>2. QED
    BY <2>1
<1>2. Cardinality({r \in S : r <= p}) <= Rank(S, q)
  BY <1>1, RankOf, FS_Subset DEF Rank
<1>3. Rank(S, p) \in Nat /\ Rank(S, q) \in Nat
  BY <1>1, RankOf
<1>4. QED
  BY <1>2, <1>3, RankStep

(* The next photo has the next rank, and with the last one it is all.      *)
LEMMA RankNext ==
  ASSUME NEW S, S \subseteq Photo, NEW p \in S, NEW m \in S, p < m,
         \A q \in S : q > p => q >= m
  PROVE  Rank(S, m) = Rank(S, p) + 1
<1>1. {r \in S : r < m} = {r \in S : r <= p}
  <2>1. \A r \in S : r \in Nat
    BY Numbered
  <2>2. QED
    BY <2>1
<1>2. QED
  BY <1>1, RankStep DEF Rank

LEMMA RankLast ==
  ASSUME NEW S, S \subseteq Photo, NEW p \in S, \A q \in S : q <= p
  PROVE  Cardinality(S) = Rank(S, p) + 1
<1>1. S = {r \in S : r <= p}
  OBVIOUS
<1>2. QED
  BY <1>1, RankStep

LEMMA RankFirst ==
  ASSUME NEW S, NEW p, {q \in S : q < p} = {}
  PROVE  Rank(S, p) = 0
  BY FS_EmptySet DEF Rank

LEMMA RankWithin ==
  ASSUME NEW S, S \subseteq Photo, NEW p \in S
  PROVE  Rank(S, p) < Cardinality(S)
<1>1. {q \in S : q <= p} \subseteq S /\ IsFiniteSet(S) /\ p \in Nat
  BY Numbered
<1>2. Cardinality({q \in S : q <= p}) <= Cardinality(S)
  BY <1>1, FS_Subset
<1>3. Rank(S, p) \in Nat /\ Cardinality(S) \in Nat
  BY <1>1, RankOf
<1>4. QED
  BY <1>2, <1>3, RankStep

LEMMA Least ==
  ASSUME NEW S, S \subseteq Photo, S # {}
  PROVE  Min(S) \in S /\ \A q \in S : Min(S) <= q
<1>1. \E m \in S : \A q \in S : m <= q
  BY LeastExists, Numbered
<1>2. QED
  BY <1>1 DEF Min

(* A photo of the greatest rank is the greatest.                           *)
LEMMA Greatest ==
  ASSUME NEW S, S \subseteq Photo, S # {}
  PROVE  Max(S) \in S /\ \A q \in S : Max(S) >= q
<1> DEFINE Left(p) == Cardinality(S) - Rank(S, p)
<1>1. S \subseteq Nat
  BY Numbered
<1>2. \A p \in S : Left(p) \in Nat /\ Rank(S, p) \in Nat /\ Cardinality(S) \in Nat
  <2>1. \A p \in S : Rank(S, p) \in Nat /\ Cardinality(S) \in Nat
    BY <1>1, RankOf
  <2>2. \A p \in S : Rank(S, p) < Cardinality(S)
    BY RankWithin
  <2>3. QED
    BY <2>1, <2>2
<1> HIDE DEF Left
<1>3. PICK m \in S : \A p \in S : Left(m) <= Left(p)
  <2>1. {Left(p) : p \in S} \subseteq Nat /\ {Left(p) : p \in S} # {}
    BY <1>2
  <2>2. PICK k \in {Left(p) : p \in S} : \A j \in {Left(p) : p \in S} : k <= j
    BY <2>1, LeastExists
  <2>3. QED
    BY <2>2
<1>4. ASSUME NEW p \in S, ~(m >= p)
      PROVE  FALSE
  <2>1. m < p /\ p \in Nat
    BY <1>1, <1>4
  <2>2. Rank(S, m) < Rank(S, p)
    BY <2>1, RankStrict
  <2>3. QED
    BY <1>2, <1>3, <1>4, <2>2 DEF Left
<1>5. QED
  BY <1>4 DEF Max

(* The photo after p, by the page that has p and the one behind it.        *)
LEMMA Forward ==
  ASSUME NEW S, S \subseteq Photo, NEW o \in Nat, NEW p \in Rows(S, o, PageSize)
  PROVE  LET later == {q \in S : q > p}
             after == {q \in Rows(S, o, PageSize) : q > p}
         IN  /\ after # {} => later # {} /\ Min(after) = Min(later)
             /\ later = {} => Cardinality(S) <= o + PageSize
             /\ after = {} /\ later # {} =>
                  /\ o + PageSize < Cardinality(S)
                  /\ Rows(S, o + PageSize, 1) = {Min(later)}
                  /\ Min(later) \in Rows(S, o + PageSize, PageSize)
<1> DEFINE later == {q \in S : q > p}
           after == {q \in Rows(S, o, PageSize) : q > p}
<1> SUFFICES /\ after # {} => later # {} /\ Min(after) = Min(later)
             /\ later = {} => Cardinality(S) <= o + PageSize
             /\ after = {} /\ later # {} =>
                  /\ o + PageSize < Cardinality(S)
                  /\ Rows(S, o + PageSize, 1) = {Min(later)}
                  /\ Min(later) \in Rows(S, o + PageSize, PageSize)
  OBVIOUS
<1>1. PageSize \in Nat \ {0} /\ S \subseteq Nat /\ p \in S /\ p \in Nat
  BY Numbered, BrowsingAssumption DEF Rows
<1>2. \A q \in S : Rank(S, q) \in Nat /\ q \in Nat
  BY <1>1, RankOf
<1>3. \A q, r \in S : q < r => Rank(S, q) < Rank(S, r)
  BY <1>2, RankStrict
<1>4. \A n \in Nat, k \in Nat, q \in S :
        q \in Rows(S, n, k) <=> Rank(S, q) >= n /\ Rank(S, q) < n + k
  BY <1>2 DEF Rows
<1>5. \A n, k : Rows(S, n, k) \subseteq S
  BY DEF Rows
<1>6. Rank(S, p) >= o /\ Rank(S, p) < o + PageSize
  BY <1>1, <1>4
<1>7. later = {} => Cardinality(S) <= o + PageSize
  <2>1. ASSUME later = {} PROVE Cardinality(S) <= o + PageSize
    <3>1. \A q \in S : q <= p
      BY <1>1, <1>2, <2>1
    <3>2. Cardinality(S) = Rank(S, p) + 1
      BY <1>1, <3>1, RankLast
    <3>3. QED
      BY <1>1, <1>2, <1>6, <3>2
  <2>2. QED
    BY <2>1
<1>8. ASSUME later # {}
      PROVE  /\ Min(later) \in S /\ Min(later) \in Nat /\ Min(later) > p
             /\ \A q \in later : Min(later) <= q
             /\ Rank(S, Min(later)) = Rank(S, p) + 1
  <2>1. Min(later) \in later /\ \A q \in later : Min(later) <= q
    BY <1>8, Least
  <2>2. Min(later) \in S /\ Min(later) \in Nat /\ Min(later) > p
    BY <1>1, <2>1
  <2>3. \A q \in S : q > p => q >= Min(later)
    BY <1>2, <2>1, <2>2
  <2>4. QED
    BY <1>1, <2>1, <2>2, <2>3, RankNext
<1> HIDE DEF later
<1>9. ASSUME after # {}
      PROVE  later # {} /\ Min(after) = Min(later)
  <2>1. after \subseteq later
    BY <1>5 DEF later
  <2>2. Min(after) \in after /\ \A q \in after : Min(after) <= q
    BY <1>9, <1>5, Least
  <2>3. later # {} /\ Min(after) \in S /\ Min(after) \in Nat
    BY <1>2, <1>5, <2>1, <2>2
  <2>4. Min(later) <= Min(after)
    BY <1>8, <2>1, <2>2, <2>3
  <2>5. Min(later) \in after
    <3>1. Rank(S, Min(later)) <= Rank(S, Min(after))
      BY <1>8, <2>3, <2>4, RankRises
    <3>2. Rank(S, Min(after)) < o + PageSize
      BY <1>1, <1>4, <2>2, <2>3
    <3>3. Min(later) \in Rows(S, o, PageSize)
      BY <1>1, <1>2, <1>4, <1>6, <1>8, <2>3, <3>1, <3>2
    <3>4. QED
      BY <1>8, <2>3, <3>3
  <2>6. QED
    BY <1>8, <2>2, <2>3, <2>4, <2>5
<1>10. ASSUME after = {}, later # {}
       PROVE  /\ o + PageSize < Cardinality(S)
              /\ Rows(S, o + PageSize, 1) = {Min(later)}
              /\ Min(later) \in Rows(S, o + PageSize, PageSize)
  <2> DEFINE m == Min(later)
  <2>1. m \in S /\ m \in Nat /\ m > p /\ Rank(S, m) = Rank(S, p) + 1 /\ Rank(S, m) \in Nat
    BY <1>2, <1>8, <1>10
  <2>2. Rank(S, p) \in Nat
    BY <1>1, <1>2
  <2>3. m \notin Rows(S, o, PageSize)
    BY <1>10, <2>1
  <2>4. Rank(S, m) = o + PageSize
    <3>1. ~(Rank(S, m) >= o /\ Rank(S, m) < o + PageSize)
      BY <1>1, <1>4, <2>1, <2>3
    <3>2. QED
      BY <1>1, <1>6, <2>1, <2>2, <3>1
  <2>5. Rank(S, m) < Cardinality(S)
    BY <2>1, RankWithin
  <2> HIDE DEF m
  <2>6. o + PageSize \in Nat
    BY <1>1
  <2>7. m \in Rows(S, o + PageSize, 1) /\ m \in Rows(S, o + PageSize, PageSize)
    BY <1>1, <1>4, <2>1, <2>4, <2>6
  <2>8. ASSUME NEW q \in Rows(S, o + PageSize, 1)
        PROVE  q = m
    <3>1. q \in S /\ q \in Nat /\ Rank(S, q) = Rank(S, m)
      <4>1. q \in S /\ q \in Nat /\ Rank(S, q) \in Nat
        BY <1>2, <1>5
      <4>2. Rank(S, q) >= o + PageSize /\ Rank(S, q) < o + PageSize + 1
        BY <1>4, <2>6, <4>1
      <4>3. QED
        BY <2>4, <2>6, <4>1, <4>2
    <3>2. ~(q < m) /\ ~(m < q)
      BY <1>2, <1>3, <2>1, <3>1
    <3>3. QED
      BY <2>1, <3>1, <3>2
  <2>9. QED
    BY <2>4, <2>5, <2>7, <2>8 DEF m
<1>11. QED
  BY <1>7, <1>9, <1>10

(* And the photo before it.                                                *)
Below(S, p) == {q \in S : q < p}

LEMMA Backward ==
  ASSUME NEW S, S \subseteq Photo, NEW o \in Nat, NEW p \in Rows(S, o, PageSize),
         o = 0 \/ o >= PageSize
  PROVE  /\ Below(Rows(S, o, PageSize), p) # {} =>
              /\ Below(S, p) # {}
              /\ Max(Below(Rows(S, o, PageSize), p)) = Max(Below(S, p))
         /\ Below(S, p) = {} => o = 0
         /\ Below(Rows(S, o, PageSize), p) = {} /\ Below(S, p) # {} =>
              /\ o > 0
              /\ Max(Below(S, p)) \in Rows(S, o - PageSize, PageSize)
              /\ Max(Rows(S, o - PageSize, PageSize)) = Max(Below(S, p))
<1> DEFINE earlier == {q \in S : q < p}
           before == {q \in Rows(S, o, PageSize) : q < p}
           rows == Rows(S, o - PageSize, PageSize)
<1> SUFFICES /\ before # {} => earlier # {} /\ Max(before) = Max(earlier)
             /\ earlier = {} => o = 0
             /\ before = {} /\ earlier # {} =>
                  o > 0 /\ Max(earlier) \in rows /\ Max(rows) = Max(earlier)
  BY DEF Below
<1>1. PageSize \in Nat \ {0} /\ S \subseteq Nat /\ p \in S /\ p \in Nat
  BY Numbered, BrowsingAssumption DEF Rows
<1>2. \A q \in S : Rank(S, q) \in Nat /\ q \in Nat
  BY <1>1, RankOf
<1>3. \A q, r \in S : q < r => Rank(S, q) < Rank(S, r)
  BY <1>2, RankStrict
<1>4. \A n \in Nat, k \in Nat, q \in S :
        q \in Rows(S, n, k) <=> Rank(S, q) >= n /\ Rank(S, q) < n + k
  BY <1>2 DEF Rows
<1>5. \A n, k : Rows(S, n, k) \subseteq S
  BY DEF Rows
<1>6. Rank(S, p) >= o /\ Rank(S, p) < o + PageSize
  BY <1>1, <1>4
<1>7. earlier = {} => o = 0
  <2>1. earlier = {} => Rank(S, p) = 0
    BY RankFirst
  <2>2. QED
    BY <1>6, <2>1
<1>8. ASSUME earlier # {}
      PROVE  /\ Max(earlier) \in S /\ Max(earlier) \in Nat /\ Max(earlier) < p
             /\ \A q \in earlier : Max(earlier) >= q
             /\ Rank(S, p) = Rank(S, Max(earlier)) + 1
  <2>1. Max(earlier) \in earlier /\ \A q \in earlier : Max(earlier) >= q
    BY <1>8, Greatest
  <2>2. Max(earlier) \in S /\ Max(earlier) \in Nat /\ Max(earlier) < p
    BY <1>1, <2>1
  <2>3. \A q \in S : q > Max(earlier) => q >= p
    BY <1>1, <1>2, <2>1, <2>2
  <2>4. QED
    BY <1>1, <2>1, <2>2, <2>3, RankNext
<1> HIDE DEF earlier
<1>9. ASSUME before # {}
      PROVE  earlier # {} /\ Max(before) = Max(earlier)
  <2>1. before \subseteq earlier
    BY <1>5 DEF earlier
  <2>2. Max(before) \in before /\ \A q \in before : Max(before) >= q
    BY <1>9, <1>5, Greatest
  <2>3. earlier # {} /\ Max(before) \in S /\ Max(before) \in Nat
    BY <1>2, <1>5, <2>1, <2>2
  <2>4. Max(earlier) >= Max(before)
    BY <1>8, <2>1, <2>2, <2>3
  <2>5. Max(earlier) \in before
    <3>1. Rank(S, Max(before)) <= Rank(S, Max(earlier))
      BY <1>8, <2>3, <2>4, RankRises
    <3>2. Rank(S, Max(before)) >= o
      BY <1>1, <1>4, <2>2, <2>3
    <3>3. Max(earlier) \in Rows(S, o, PageSize)
      <4>1. /\ Max(earlier) \in S /\ Rank(S, Max(earlier)) \in Nat
            /\ Rank(S, Max(before)) \in Nat /\ Rank(S, p) \in Nat
            /\ Rank(S, p) = Rank(S, Max(earlier)) + 1
        BY <1>1, <1>2, <1>8, <2>3
      <4>2. Rank(S, Max(earlier)) >= o /\ Rank(S, Max(earlier)) < o + PageSize
        BY <1>1, <1>6, <3>1, <3>2, <4>1
      <4>3. QED
        BY <1>1, <1>4, <4>1, <4>2
    <3>4. QED
      BY <1>8, <2>3, <3>3
  <2>6. QED
    BY <1>8, <2>2, <2>3, <2>4, <2>5
<1>10. ASSUME before = {}, earlier # {}
       PROVE  o > 0 /\ Max(earlier) \in rows /\ Max(rows) = Max(earlier)
  <2> DEFINE m == Max(earlier)
  <2>1. m \in S /\ m \in Nat /\ m < p /\ Rank(S, p) = Rank(S, m) + 1 /\ Rank(S, m) \in Nat
    BY <1>2, <1>8, <1>10
  <2>2. m \notin Rows(S, o, PageSize)
    BY <1>10, <2>1
  <2>3. o >= PageSize /\ o - PageSize \in Nat /\ Rank(S, m) = o - 1
    BY <1>1, <1>4, <1>6, <2>1, <2>2
  <2> HIDE DEF m
  <2>4. m \in rows
    BY <1>1, <1>4, <2>1, <2>3
  <2>5. rows \subseteq S /\ Max(rows) \in rows /\ Max(rows) >= m
    <3>1. rows \subseteq Photo /\ rows # {}
      BY <1>5, <2>4
    <3>2. QED
      BY <1>5, <2>4, <3>1, Greatest
  <2>6. Max(rows) \in S /\ Max(rows) \in Nat /\ Rank(S, Max(rows)) < o
    <3>1. Max(rows) \in S /\ Max(rows) \in Nat /\ Rank(S, Max(rows)) \in Nat
      BY <1>2, <2>5
    <3>2. Rank(S, Max(rows)) < o - PageSize + PageSize
      BY <1>1, <1>4, <2>3, <2>5, <3>1
    <3>3. QED
      BY <1>1, <2>3, <3>1, <3>2
  <2>7. ~(m < Max(rows))
    BY <1>3, <2>1, <2>3, <2>6, <1>2
  <2>8. QED
    BY <1>1, <2>1, <2>3, <2>4, <2>5, <2>6, <2>7 DEF m
<1>11. QED
  BY <1>7, <1>9, <1>10

-------------------------------------------------------------------------------
(* Where handlers of photo pages are, and what they have not written yet.  *)
Blank ==
  /\ pc \in {"idle", "found"} => page = {}
  /\ pc \in {"idle", "found", "located"} => prev = None
  /\ pc \in {"idle", "found", "located", "adjacent"} => next = None
  /\ pc = "idle" => arrived = 0 /\ departed = 0 /\ ~failed
  /\ pc \in {"found", "located", "adjacent"} => request.page = "photo"
  /\ pc # "idle" /\ request.page = "photo" => request.photo \in Photo

List == Listing(request.context)
Place == Rank(List, request.photo)
PageRead == page = Rows(List, request.offset, PageSize) /\ total = Cardinality(List)

(* The photo was on the page of the URL when that page was read.  Arrivals *)
(* only push it back and departures only pull it forward.                  *)
OnPage ==
  pc \in {"located", "adjacent"} =>
    /\ request.photo \in page
    /\ arrived = 0 => Place < request.offset + PageSize
    /\ departed = 0 => Place >= request.offset
    /\ Whole /\ arrived = 0 /\ departed = 0 => PageRead

Earlier == {q \in List : q < request.photo}
Later == {q \in List : q > request.photo}

PrevWalks ==
  /\ prev = None <=> Earlier = {}
  /\ prev # None => /\ prev.photo = Max(Earlier)
                    /\ prev.photo \in Rows(List, prev.offset, PageSize)

NextWalks ==
  /\ next = None <=> Later = {}
  /\ next # None => /\ next.photo = Min(Later)
                    /\ next.photo \in Rows(List, next.offset, PageSize)

(* What the links are once they are made.                                  *)
BackRight ==
  pc = "adjacent" \/ Served("photo") =>
    /\ departed = 0 /\ prev # None => prev.photo < request.photo
    /\ Whole /\ Quiet /\ request.photo \in page => PrevWalks

ForthRight ==
  Served("photo") =>
    /\ arrived = 0 /\ next # None => next.photo > request.photo
    /\ Whole /\ Quiet /\ request.photo \in page => NextWalks

(* The page of a list and the library are of one moment.                   *)
ListRight ==
  Served("list") /\ Whole =>
    /\ page = Rows(List, request.offset, PageSize)
    /\ next = IF request.offset + PageSize < Cardinality(List)
              THEN To(None, request.offset + PageSize) ELSE None

IInv == TypeOK /\ Blank /\ OnPage /\ BackRight /\ ForthRight /\ ListRight

-------------------------------------------------------------------------------
LEMMA Offsets ==
  ASSUME NEW o \in Offset
  PROVE  o \in Nat /\ (o = 0 \/ o >= PageSize)
<1>1. o \in Nat /\ o % PageSize = 0 /\ PageSize \in Nat \ {0}
  BY BrowsingAssumption DEF Offset
<1>2. o < PageSize => o % PageSize = o
  BY <1>1
<1>3. QED
  BY <1>1, <1>2

LEMMA PageTyped ==
  ASSUME TypeOK, NEW c, NEW o, NEW authed
  PROVE  /\ Listing(c) \subseteq Photo
         /\ Rows(Listing(c), o, PageSize) \subseteq Listing(c)
         /\ PageOf(c, o, authed) \subseteq Rows(Listing(c), o, PageSize)
         /\ TotalOf(c, o, authed) \in Nat
<1>1. /\ Listing(c) \subseteq Photo /\ Rows(Listing(c), o, PageSize) \subseteq Listing(c)
      /\ PageOf(c, o, authed) \subseteq Rows(Listing(c), o, PageSize)
  BY DEF TypeOK, Listing, Rows, PageOf
<1>2. IsFiniteSet(Listing(c)) /\ IsFiniteSet(PageOf(c, o, authed))
  BY <1>1, Numbered
<1>3. QED
  BY <1>1, <1>2, FS_CardinalityType DEF TotalOf

LEMMA LinksTyped ==
  ASSUME NEW S, S \subseteq Photo, S # {}, NEW o \in Nat
  PROVE  To(Max(S), o) \in Link /\ To(Min(S), o) \in Link
  BY Least, Greatest DEF To, Link

LEMMA TypeKept == TypeOK /\ [Next]_vars => TypeOK'
<1> SUFFICES ASSUME TypeOK, [Next]_vars PROVE TypeOK'
  OBVIOUS
<1> USE DEF TypeOK, libraryVars, changeVars
<1>1. PageSize \in Nat \ {0} /\ MaxChanges \in Nat /\ \A o \in Offset : o \in Nat
  BY BrowsingAssumption DEF Offset
<1>2. ASSUME NEW c \in Context, NEW o \in Offset, NEW authed \in BOOLEAN, OpenList(c, o, authed)
      PROVE  TypeOK'
  <2>1. page' \in SUBSET Photo /\ total' \in Nat
    BY <1>2, PageTyped DEF OpenList
  <2>2. prev' \in Link \cup {None} /\ next' \in Link \cup {None}
    <3>1. PreviousOffset(o) \in Nat /\ o + PageSize \in Nat
      BY <1>1 DEF PreviousOffset
    <3>2. \A n \in Nat : To(None, n) \in Link
      BY DEF To, Link
    <3>3. QED
      BY <1>2, <3>1, <3>2 DEF OpenList
  <2>3. request' \in Request
    BY <1>2 DEF OpenList, Request
  <2>4. QED
    BY <1>2, <2>1, <2>2, <2>3 DEF OpenList, Respond
<1>3. ASSUME NEW c \in Context, NEW p \in Photo, NEW o \in Offset, NEW authed \in BOOLEAN,
             OpenPhoto(c, p, o, authed)
      PROVE  TypeOK'
  <2>1. request' \in Request
    BY <1>3 DEF OpenPhoto, Request
  <2>2. QED
    BY <1>3, <2>1 DEF OpenPhoto
<1>4. CASE Locate
  <2>1. page' \in SUBSET Photo /\ total' \in Nat
    BY <1>4, PageTyped DEF Locate
  <2>2. QED
    BY <1>4, <2>1 DEF Locate
<1>5. request.offset \in Offset /\ request.offset \in Nat
  BY <1>1 DEF Request
<1>6. CASE LinkPrevious
  <2>1. Before \subseteq Photo
    BY DEF Before
  <2>2. LastOfPrevious \in Link \cup {None}
    <3> DEFINE o == PreviousOffset(request.offset)
               rows == Rows(Listing(request.context), o, PageSize)
    <3>1. o \in Nat /\ rows \subseteq Photo
      <4>1. o \in Nat
        BY <1>1, <1>5 DEF PreviousOffset
      <4>2. QED
        BY <4>1 DEF Listing, Rows
    <3>2. rows # {} => To(Max(rows), o) \in Link
      BY <3>1, LinksTyped
    <3>3. QED
      BY <3>2 DEF LastOfPrevious
  <2>3. prev' \in Link \cup {None}
    BY <1>5, <1>6, <2>1, <2>2, LinksTyped DEF LinkPrevious
  <2>4. QED
    BY <1>6, <2>3 DEF LinkPrevious
<1>7. CASE LinkNext
  <2>1. After \subseteq Photo
    BY DEF After
  <2>2. FirstOfNext \in Link \cup {None}
    <3> DEFINE o == request.offset + PageSize
               rows == Rows(Listing(request.context), o, 1)
    <3>1. o \in Nat /\ rows \subseteq Photo
      BY <1>1, <1>5 DEF Listing, Rows
    <3>2. rows # {} => To(Min(rows), o) \in Link
      BY <3>1, LinksTyped
    <3>3. QED
      BY <3>2 DEF FirstOfNext
  <2>3. next' \in Link \cup {None}
    BY <1>5, <1>7, <2>1, <2>2, LinksTyped DEF LinkNext
  <2>4. QED
    BY <1>7, <2>3 DEF LinkNext, Respond
<1>8. CASE LookupFails
  BY <1>8 DEF LookupFails, Respond
<1>9. CASE Close
  <2>1. NoRequest \in Request
    BY BrowsingAssumption DEF NoRequest, Request, Context, Offset
  <2>2. /\ request' = NoRequest /\ pc' = "idle" /\ page' = {} /\ total' = 0
        /\ prev' = None /\ next' = None /\ failed' = FALSE
        /\ visible' = visible /\ member' = member
    BY <1>9 DEF Close
  <2>3. arrived' \in 0 .. MaxChanges /\ departed' \in 0 .. MaxChanges
    BY <1>1, <1>9 DEF Close
  <2>4. QED
    BY <2>1, <2>2, <2>3
<1>10. ASSUME NEW p \in Photo, Arrive(p) \/ Depart(p)
       PROVE  TypeOK'
  BY <1>1, <1>10 DEF Arrive, Depart, InFlight
<1>11. CASE UNCHANGED vars
  BY <1>11 DEF vars
<1>12. QED
  BY <1>2, <1>3, <1>4, <1>6, <1>7, <1>8, <1>9, <1>10, <1>11 DEF Next

-------------------------------------------------------------------------------
(* What the steps do to the other parts, handler by handler.               *)
Links == Blank /\ OnPage /\ BackRight /\ ForthRight /\ ListRight

LEMMA OpenListKeeps ==
  ASSUME IInv, NEW c \in Context, NEW o \in Offset, NEW authed \in BOOLEAN,
         OpenList(c, o, authed)
  PROVE  Links'
<1> USE DEF OpenList, Respond, libraryVars, changeVars
<1>1. /\ request' = [page |-> "list", context |-> c, photo |-> None, offset |-> o,
                     authed |-> authed]
      /\ pc = "idle" /\ pc' = "done" /\ visible' = visible /\ member' = member
  OBVIOUS
<1>2. Blank' /\ OnPage' /\ BackRight' /\ ForthRight'
  BY <1>1 DEF Blank, OnPage, BackRight, ForthRight, Served
<1>3. ListRight'
  <2>1. ASSUME Whole'
        PROVE  /\ page' = Rows(List', o, PageSize)
               /\ next' = IF o + PageSize < Cardinality(List') THEN To(None, o + PageSize) ELSE None
    <3>1. List' = Listing(c) /\ ~Filtered(c, authed)
      BY <1>1, <2>1 DEF List, Listing, Whole, Filtered
    <3>2. page' = Rows(Listing(c), o, PageSize) /\ total' = Cardinality(Listing(c))
      BY <3>1 DEF PageOf, TotalOf
    <3>3. QED
      BY <3>1, <3>2
  <2>2. QED
    BY <1>1, <2>1 DEF ListRight, Rows, Rank
<1>4. QED
  BY <1>2, <1>3 DEF Links

LEMMA OpenPhotoKeeps ==
  ASSUME IInv, NEW c \in Context, NEW p \in Photo, NEW o \in Offset, NEW authed \in BOOLEAN,
         OpenPhoto(c, p, o, authed)
  PROVE  Links'
<1>1. /\ request'.page = "photo" /\ request'.photo = p /\ pc = "idle" /\ pc' \in {"found", "done"}
      /\ page' = page /\ prev' = prev /\ next' = next
  BY DEF OpenPhoto
<1>2. page = {} /\ prev = None /\ next = None
  BY <1>1 DEF IInv, Blank
<1>3. QED
  BY <1>1, <1>2 DEF Links, Blank, OnPage, BackRight, ForthRight, ListRight, Served

(* The page that is read now is the one that the library has now.          *)
LEMMA LocateKeeps ==
  ASSUME IInv, Locate
  PROVE  Links'
<1> DEFINE o == request.offset
           p == request.photo
<1>1. /\ pc = "found" /\ UNCHANGED <<visible, member, request, prev, next, arrived, departed, failed>>
      /\ page' = PageOf(request.context, o, request.authed)
      /\ total' = TotalOf(request.context, o, request.authed)
      /\ pc' = IF p \in page' THEN "located" ELSE "done"
  BY DEF Locate, libraryVars, changeVars
<1>2. prev = None /\ next = None /\ request.page = "photo" /\ p \in Photo
  BY <1>1 DEF IInv, Blank
<1>3. List' = List /\ Place' = Place /\ (Whole' <=> Whole)
  BY <1>1 DEF List, Listing, Place, Rank, Whole, Filtered
<1>4. Blank' /\ BackRight' /\ ForthRight' /\ ListRight'
  BY <1>1, <1>2 DEF Blank, BackRight, ForthRight, ListRight, Served
<1>5. OnPage'
  <2>1. ASSUME p \in page'
        PROVE  Place < o + PageSize /\ Place >= o
    <3>1. p \in Rows(List, o, PageSize)
      BY <1>1, <2>1 DEF PageOf, List
    <3>2. Place \in o .. (o + PageSize - 1)
      BY <3>1 DEF Rows, Place
    <3>3. o \in Nat /\ PageSize \in Nat
      BY BrowsingAssumption DEF IInv, TypeOK, Request, Offset
    <3>4. QED
      BY <3>2, <3>3
  <2>2. Whole => page' = Rows(List, o, PageSize) /\ total' = Cardinality(List)
    BY <1>1 DEF PageOf, TotalOf, List, Whole
  <2>3. Rows(List, o, PageSize)' = Rows(List, o, PageSize)
    BY <1>1, <1>3 DEF Rows, Rank
  <2>4. QED
    BY <1>1, <1>3, <2>1, <2>2, <2>3 DEF OnPage, PageRead
<1>6. QED
  BY <1>4, <1>5 DEF Links

(* A photo of lower rank comes before, in the listing of this moment.      *)
LEMMA RankDecides ==
  ASSUME NEW S, S \subseteq Photo, NEW p \in Photo, NEW q \in Photo, Rank(S, p) < Rank(S, q)
  PROVE  p < q
<1>1. p \in Nat /\ q \in Nat
  BY BrowsingAssumption
<1>2. Rank(S, p) \in Nat /\ Rank(S, q) \in Nat
  BY <1>1, RankOf
<1>3. CASE q <= p
  <2>1. Rank(S, q) <= Rank(S, p)
    BY <1>1, <1>3, RankRises
  <2>2. QED
    BY <1>2, <2>1
<1>4. QED
  BY <1>1, <1>3

LEMMA LinkPreviousKeeps ==
  ASSUME IInv, LinkPrevious
  PROVE  Links'
<1> DEFINE o == request.offset
           p == request.photo
           rows == Rows(List, o - PageSize, PageSize)
<1>1. /\ pc = "located" /\ pc' = "adjacent"
      /\ UNCHANGED <<visible, member, request, page, total, next, arrived, departed, failed>>
      /\ prev' = IF Before # {} THEN To(Max(Before), o)
                 ELSE IF o > 0 THEN LastOfPrevious ELSE None
  BY DEF LinkPrevious, libraryVars, changeVars
<1>2. /\ p \in Photo /\ p \in Nat /\ request.page = "photo" /\ next = None /\ p \in page
      /\ page \subseteq Photo /\ List \subseteq Photo /\ List \subseteq Nat
  BY <1>1, BrowsingAssumption DEF IInv, TypeOK, Blank, OnPage, List, Listing
<1>3. o \in Nat /\ PageSize \in Nat \ {0} /\ (o = 0 \/ o >= PageSize)
  BY Offsets, BrowsingAssumption DEF IInv, TypeOK, Request
<1>4. /\ List' = List /\ Place' = Place /\ Earlier' = Earlier
      /\ (Whole' <=> Whole) /\ (PageRead' <=> PageRead)
      /\ \A n : Rows(List, n, PageSize)' = Rows(List, n, PageSize)
  BY <1>1 DEF List, Listing, Place, Rank, Whole, Filtered, PageRead, Earlier, Rows
<1>5. o > 0 => LastOfPrevious = IF rows = {} THEN None ELSE To(Max(rows), o - PageSize)
  BY <1>3 DEF LastOfPrevious, PreviousOffset, List
<1>6. OnPage' /\ ForthRight' /\ ListRight' /\ Blank'
  <2>1. OnPage'
    BY <1>1, <1>4 DEF IInv, OnPage
  <2>2. QED
    BY <1>1, <1>2, <2>1 DEF IInv, Blank, ForthRight, ListRight, Served
<1>7. ASSUME departed = 0, prev' # None
      PROVE  prev'.photo < p
  <2>1. CASE Before # {}
    <3>1. Before \subseteq Photo
      BY <1>2 DEF Before
    <3>2. Max(Before) \in Before
      BY <2>1, <3>1, Greatest
    <3>3. QED
      BY <1>1, <2>1, <3>2 DEF Before, To
  <2>2. CASE Before = {}
    <3>1. o > 0 /\ rows # {} /\ prev'.photo = Max(rows)
      BY <1>1, <1>3, <1>5, <1>7, <2>2 DEF To
    <3>2. rows \subseteq List
      BY DEF Rows
    <3>3. Max(rows) \in rows /\ Max(rows) \in Photo
      BY <1>2, <3>1, <3>2, Greatest
    <3>4. Rank(List, Max(rows)) \in (o - PageSize) .. (o - PageSize + PageSize - 1)
      BY <3>3 DEF Rows
    <3>5. Place >= o /\ Place \in Nat
      BY <1>1, <1>2, <1>7, RankOf DEF IInv, OnPage, Place
    <3>6. Rank(List, Max(rows)) < Rank(List, p)
      BY <1>3, <3>4, <3>5 DEF Place
    <3>7. QED
      BY <1>2, <3>1, <3>3, <3>6, RankDecides
  <2>3. QED
    BY <2>1, <2>2
<1>8. ASSUME Whole, Quiet
      PROVE  PrevWalks'
  <2>1. page = Rows(List, o, PageSize) /\ p \in Rows(List, o, PageSize)
    BY <1>1, <1>2, <1>8 DEF IInv, OnPage, PageRead, Quiet, Before
  <2>2. /\ Before # {} => Earlier # {} /\ Max(Before) = Max(Earlier)
        /\ Earlier = {} => o = 0
        /\ Before = {} /\ Earlier # {} =>
             o > 0 /\ Max(Earlier) \in rows /\ Max(rows) = Max(Earlier)
    <3> DEFINE rest == Below(List, p)
    <3>1. /\ Below(page, p) # {} => rest # {} /\ Max(Below(page, p)) = Max(rest)
          /\ rest = {} => o = 0
          /\ Below(page, p) = {} /\ rest # {} =>
               o > 0 /\ Max(rest) \in rows /\ Max(rows) = Max(rest)
      BY <1>2, <1>3, <2>1, Backward
    <3>2. QED
      BY <2>1, <3>1 DEF Earlier, Before, Below
  <2>3. /\ prev' = None <=> Earlier = {}
        /\ prev' # None => /\ prev'.photo = Max(Earlier)
                           /\ prev'.photo \in Rows(List, prev'.offset, PageSize)
    <3>1. \A n \in Nat, q \in Photo : To(q, n) # None
      BY BrowsingAssumption DEF To
    <3>2. CASE Before # {}
      <4>1. Before \subseteq Photo
        BY <1>2 DEF Before
      <4>2. Max(Before) \in Before /\ Max(Before) \in Photo
        BY <3>2, <4>1, Greatest
      <4>3. prev' = To(Max(Before), o)
        BY <1>1, <3>2
      <4>4. Max(Before) \in Rows(List, o, PageSize)
        BY <2>1, <4>2 DEF Before
      <4>5. QED
        BY <1>3, <2>2, <3>1, <3>2, <4>2, <4>3, <4>4 DEF To
    <3>3. CASE Before = {} /\ Earlier # {}
      <4>1. o > 0 /\ Max(Earlier) \in rows /\ Max(rows) = Max(Earlier) /\ o - PageSize \in Nat
        BY <1>3, <2>2, <3>3
      <4>2. prev' = To(Max(Earlier), o - PageSize)
        BY <1>1, <1>5, <3>3, <4>1
      <4>3. Max(Earlier) \in Photo
        BY <1>2, <4>1 DEF Rows
      <4>4. QED
        BY <3>1, <3>3, <4>1, <4>2, <4>3 DEF To
    <3>4. CASE Before = {} /\ Earlier = {}
      BY <1>1, <1>3, <2>2, <3>4
    <3>5. QED
      BY <3>2, <3>3, <3>4
  <2>4. QED
    BY <1>1, <1>4, <2>3 DEF PrevWalks
<1>9. BackRight'
  BY <1>1, <1>4, <1>7, <1>8 DEF BackRight, Quiet
<1>10. QED
  BY <1>6, <1>9 DEF Links

LEMMA LinkNextKeeps ==
  ASSUME IInv, LinkNext
  PROVE  Links'
<1> DEFINE o == request.offset
           p == request.photo
           rows == Rows(List, o + PageSize, 1)
<1>1. /\ pc = "adjacent" /\ pc' = "done"
      /\ UNCHANGED <<visible, member, request, page, total, prev, arrived, departed, failed>>
      /\ next' = IF After # {} THEN To(Min(After), o)
                 ELSE IF o + PageSize < total THEN FirstOfNext ELSE None
  BY DEF LinkNext, Respond, libraryVars, changeVars
<1>2. /\ p \in Photo /\ p \in Nat /\ request.page = "photo" /\ p \in page
      /\ page \subseteq Photo /\ List \subseteq Photo /\ List \subseteq Nat
  BY <1>1, BrowsingAssumption DEF IInv, TypeOK, Blank, OnPage, List, Listing
<1>3. o \in Nat /\ PageSize \in Nat \ {0}
  BY Offsets, BrowsingAssumption DEF IInv, TypeOK, Request
<1>4. /\ List' = List /\ Later' = Later /\ Earlier' = Earlier /\ (Whole' <=> Whole)
      /\ \A n : Rows(List, n, PageSize)' = Rows(List, n, PageSize)
  BY <1>1 DEF List, Listing, Rank, Whole, Filtered, Earlier, Later, Rows
<1>5. FirstOfNext = IF rows = {} THEN None ELSE To(Min(rows), o + PageSize)
  BY DEF FirstOfNext, List
<1>6. Blank' /\ OnPage' /\ BackRight' /\ ListRight'
  <2>1. PrevWalks' <=> PrevWalks
    BY <1>1, <1>4 DEF PrevWalks
  <2>2. BackRight'
    BY <1>1, <1>4, <2>1 DEF IInv, BackRight, Quiet, Served
  <2>3. QED
    BY <1>1, <1>2, <2>2 DEF Blank, OnPage, ListRight, Served
<1>7. ASSUME arrived = 0, next' # None
      PROVE  next'.photo > p
  <2>1. CASE After # {}
    <3>1. After \subseteq Photo
      BY <1>2 DEF After
    <3>2. Min(After) \in After
      BY <2>1, <3>1, Least
    <3>3. QED
      BY <1>1, <2>1, <3>2 DEF After, To
  <2>2. CASE After = {}
    <3>1. rows # {} /\ next'.photo = Min(rows)
      BY <1>1, <1>5, <1>7, <2>2 DEF To
    <3>2. rows \subseteq List
      BY DEF Rows
    <3>3. Min(rows) \in rows /\ Min(rows) \in Photo /\ Min(rows) \in Nat
      BY <1>2, <3>1, <3>2, Least
    <3>4. Rank(List, Min(rows)) \in (o + PageSize) .. (o + PageSize + 1 - 1)
      BY <3>3 DEF Rows
    <3>5. Place < o + PageSize /\ Place \in Nat
      BY <1>1, <1>2, <1>7, RankOf DEF IInv, OnPage, Place
    <3>6. Rank(List, p) < Rank(List, Min(rows))
      BY <1>3, <3>4, <3>5 DEF Place
    <3>7. p < Min(rows)
      BY <1>2, <3>3, <3>6, RankDecides
    <3>8. QED
      BY <1>2, <3>1, <3>3, <3>7
  <2>3. QED
    BY <2>1, <2>2
<1>8. ASSUME Whole, Quiet
      PROVE  NextWalks'
  <2> DEFINE after == {q \in Rows(List, o, PageSize) : q > p}
  <2>1. /\ page = Rows(List, o, PageSize) /\ p \in Rows(List, o, PageSize) /\ after = After
        /\ total = Cardinality(List)
    BY <1>1, <1>2, <1>8 DEF IInv, OnPage, PageRead, Quiet, After
  <2>2. /\ After # {} => Later # {} /\ Min(After) = Min(Later)
        /\ Later = {} => Cardinality(List) <= o + PageSize
        /\ After = {} /\ Later # {} =>
             /\ o + PageSize < Cardinality(List)
             /\ rows = {Min(Later)}
             /\ Min(Later) \in Rows(List, o + PageSize, PageSize)
    <3>1. /\ after # {} => {q \in List : q > p} # {} /\ Min(after) = Min({q \in List : q > p})
          /\ {q \in List : q > p} = {} => Cardinality(List) <= o + PageSize
          /\ after = {} /\ {q \in List : q > p} # {} =>
               /\ o + PageSize < Cardinality(List)
               /\ rows = {Min({q \in List : q > p})}
               /\ Min({q \in List : q > p}) \in Rows(List, o + PageSize, PageSize)
      BY <1>2, <1>3, <2>1, Forward
    <3>2. QED
      BY <2>1, <3>1 DEF Later
  <2>3. /\ next' = None <=> Later = {}
        /\ next' # None => /\ next'.photo = Min(Later)
                           /\ next'.photo \in Rows(List, next'.offset, PageSize)
    <3>1. \A n \in Nat, q \in Photo : To(q, n) # None
      BY BrowsingAssumption DEF To
    <3>2. CASE After # {}
      <4>1. After \subseteq Photo
        BY <1>2 DEF After
      <4>2. Min(After) \in After /\ Min(After) \in Photo
        BY <3>2, <4>1, Least
      <4>3. next' = To(Min(After), o)
        BY <1>1, <3>2
      <4>4. Min(After) \in Rows(List, o, PageSize)
        BY <2>1, <4>2
      <4>5. QED
        BY <1>3, <2>2, <3>1, <3>2, <4>2, <4>3, <4>4 DEF To
    <3>3. CASE After = {} /\ Later # {}
      <4>1. /\ o + PageSize < total /\ rows = {Min(Later)} /\ o + PageSize \in Nat
            /\ Min(Later) \in Rows(List, o + PageSize, PageSize)
        BY <1>3, <2>1, <2>2, <3>3
      <4>2. Min(Later) \in Photo
        BY <1>2, <4>1 DEF Rows
      <4>3. Min(rows) = Min(Later)
        <5>1. rows \subseteq Photo /\ rows # {}
          BY <4>1, <4>2
        <5>2. Min(rows) \in rows
          BY <5>1, Least
        <5>3. QED
          BY <4>1, <5>2
      <4>4. next' = To(Min(Later), o + PageSize)
        BY <1>1, <1>5, <3>3, <4>1, <4>3
      <4>5. QED
        BY <3>1, <3>3, <4>1, <4>2, <4>4 DEF To
    <3>4. CASE After = {} /\ Later = {}
      <4>1. ~(o + PageSize < total)
        <5>1. Cardinality(List) \in Nat
          BY <1>2, RankOf
        <5>2. QED
          BY <1>3, <2>1, <2>2, <3>4, <5>1
      <4>2. QED
        BY <1>1, <3>4, <4>1
    <3>5. QED
      BY <3>2, <3>3, <3>4
  <2>4. QED
    BY <1>1, <1>4, <2>3 DEF NextWalks
<1>9. ForthRight'
  BY <1>1, <1>4, <1>7, <1>8 DEF ForthRight, Quiet
<1>10. QED
  BY <1>6, <1>9 DEF Links

LEMMA LookupFailsKeeps ==
  ASSUME IInv, LookupFails
  PROVE  Links'
<1>1. /\ UNCHANGED <<visible, member, request, page, total, prev, next, arrived, departed>>
      /\ failed' = TRUE /\ next = None /\ request.page = "photo" /\ request.photo \in Photo
      /\ \/ pc = "found" /\ pc' = "done"
         \/ pc = "located" /\ pc' = "adjacent"
         \/ pc = "adjacent" /\ pc' = "done"
  BY DEF LookupFails, Respond, libraryVars, changeVars, IInv, Blank
<1>2. /\ List' = List /\ Place' = Place /\ (Whole' <=> Whole) /\ (PageRead' <=> PageRead)
  BY <1>1 DEF List, Listing, Place, Rank, Whole, Filtered, PageRead, Rows
<1>3. Blank' /\ ForthRight' /\ ListRight'
  BY <1>1 DEF Blank, ForthRight, ListRight, Served, Quiet
<1>4. OnPage'
  BY <1>1, <1>2 DEF IInv, OnPage
<1>5. BackRight'
  BY <1>1 DEF IInv, Blank, BackRight, Served, Quiet
<1>6. QED
  BY <1>3, <1>4, <1>5 DEF Links

LEMMA CloseKeeps ==
  ASSUME Close
  PROVE  Links'
<1>1. pc' = "idle" /\ page' = {} /\ prev' = None /\ next' = None
      /\ arrived' = 0 /\ departed' = 0 /\ failed' = FALSE
  BY DEF Close
<1>2. QED
  BY <1>1 DEF Links, Blank, OnPage, BackRight, ForthRight, ListRight, Served

(* A photo that joins the listing pushes others back, one that leaves it   *)
(* pulls them forward.                                                     *)
LEMMA ChangeKeeps ==
  ASSUME IInv, NEW x \in Photo, Arrive(x) \/ Depart(x)
  PROVE  Links'
<1> DEFINE p == request.photo
           o == request.offset
<1>1. /\ UNCHANGED <<pc, request, page, total, prev, next, failed>>
      /\ pc \in {"found", "located", "adjacent"}
      /\ request.page = "photo" /\ p \in Photo /\ p \in Nat /\ o \in Nat /\ PageSize \in Nat
      /\ arrived \in Nat /\ departed \in Nat
  <2>1. /\ UNCHANGED <<pc, request, page, total, prev, next, failed>>
        /\ pc \in {"found", "located", "adjacent"}
    BY DEF Arrive, Depart, InFlight
  <2>2. request.page = "photo" /\ p \in Photo
    BY <2>1 DEF IInv, Blank
  <2>3. p \in Nat /\ o \in Nat /\ PageSize \in Nat
    <3>1. p \in Nat /\ PageSize \in Nat
      BY <2>2, BrowsingAssumption
    <3>2. request \in Request
      BY DEF IInv, TypeOK
    <3>3. o \in 0 .. MaxOffset
      BY <3>2 DEF Request, Offset
    <3>4. QED
      BY <3>1, <3>3, BrowsingAssumption
  <2>4. arrived \in Nat /\ departed \in Nat
    BY BrowsingAssumption DEF IInv, TypeOK
  <2>5. QED
    BY <2>1, <2>2, <2>3, <2>4
<1>2. /\ List \subseteq Photo /\ List' \subseteq Photo
      /\ \/ List \subseteq List' /\ arrived' = arrived + 1 /\ departed' = departed
         \/ List' \subseteq List /\ departed' = departed + 1 /\ arrived' = arrived
  BY <1>1 DEF IInv, TypeOK, List, Listing, Arrive, Depart
<1>3. Place \in Nat /\ Place' \in Nat /\ Place' = Rank(List', p)
  BY <1>1, <1>2, RankOf DEF Place
<1>4. /\ List \subseteq List' => Place <= Place'
      /\ List' \subseteq List => Place' <= Place
  <2>1. p <= p
    BY <1>1
  <2>2. QED
    BY <1>1, <1>2, <1>3, <2>1, RankRises DEF Place
<1>5. ~(arrived' = 0 /\ departed' = 0) /\ ~Quiet'
  BY <1>1, <1>2 DEF Quiet
<1>6. OnPage'
  BY <1>1, <1>2, <1>3, <1>4, <1>5 DEF IInv, OnPage
<1>7. Blank' /\ ForthRight' /\ ListRight'
  BY <1>1 DEF IInv, Blank, ForthRight, ListRight, Served
<1>8. BackRight'
  <2>1. departed' = 0 => departed = 0
    BY <1>1, <1>2
  <2>2. QED
    BY <1>1, <1>5, <2>1 DEF IInv, BackRight, Served
<1>9. QED
  BY <1>6, <1>7, <1>8 DEF Links

LEMMA StutterKeeps ==
  ASSUME IInv, UNCHANGED vars
  PROVE  Links'
  BY DEF vars, IInv, Links, Blank, OnPage, BackRight, ForthRight, ListRight, Served, Quiet,
         Whole, Filtered, List, Listing, Place, Rank, Rows, PageRead, PrevWalks, NextWalks,
         Earlier, Later

LEMMA InitIInv == Init => IInv
<1> SUFFICES ASSUME Init PROVE IInv
  OBVIOUS
<1>1. /\ pc = "idle" /\ request = NoRequest /\ page = {} /\ total = 0 /\ prev = None
      /\ next = None /\ arrived = 0 /\ departed = 0 /\ failed = FALSE
      /\ visible \in SUBSET Photo /\ member \in SUBSET Photo
  BY DEF Init
<1>2. TypeOK
  <2>1. NoRequest \in Request /\ 0 \in 0 .. MaxChanges
    BY BrowsingAssumption DEF NoRequest, Request, Context, Offset
  <2>2. QED
    BY <1>1, <2>1 DEF TypeOK
<1>3. QED
  BY <1>1, <1>2 DEF IInv, Blank, OnPage, BackRight, ForthRight, ListRight, Served

LEMMA NextIInv == IInv /\ [Next]_vars => IInv'
<1> SUFFICES ASSUME IInv, [Next]_vars PROVE IInv'
  OBVIOUS
<1>1. TypeOK'
  BY TypeKept DEF IInv
<1>2. Links'
  <2>1. ASSUME NEW c \in Context, NEW o \in Offset, NEW authed \in BOOLEAN,
               OpenList(c, o, authed)
        PROVE  Links'
    BY <2>1, OpenListKeeps
  <2>2. ASSUME NEW c \in Context, NEW p \in Photo, NEW o \in Offset, NEW authed \in BOOLEAN,
               OpenPhoto(c, p, o, authed)
        PROVE  Links'
    BY <2>2, OpenPhotoKeeps
  <2>3. CASE Locate
    BY <2>3, LocateKeeps
  <2>4. CASE LinkPrevious
    BY <2>4, LinkPreviousKeeps
  <2>5. CASE LinkNext
    BY <2>5, LinkNextKeeps
  <2>6. CASE LookupFails
    BY <2>6, LookupFailsKeeps
  <2>7. CASE Close
    BY <2>7, CloseKeeps
  <2>8. ASSUME NEW p \in Photo, Arrive(p) \/ Depart(p)
        PROVE  Links'
    BY <2>8, ChangeKeeps
  <2>9. CASE UNCHANGED vars
    BY <2>9, StutterKeeps
  <2>10. QED
    BY <2>1, <2>2, <2>3, <2>4, <2>5, <2>6, <2>7, <2>8, <2>9 DEF Next
<1>3. QED
  BY <1>1, <1>2 DEF IInv, Links

-------------------------------------------------------------------------------
(* Every variable has its type: http/html/photo.go, http/html/album.go.    *)
THEOREM TypeCorrect == Spec => []TypeOK
<1>1. IInv => TypeOK
  BY DEF IInv
<1>2. QED
  BY InitIInv, NextIInv, <1>1, PTL DEF Spec

(* Without changes, failures and filter the links of photo pages lead      *)
(* through the listing photo by photo, whatever the size of pages: from    *)
(* adjacentInGrid and adjacentInAlbum (http/html/photo.go).                *)
THEOREM WalksFollowListing == Spec => []WalkFollowsListing
<1>1. IInv => WalkFollowsListing
  <2> SUFFICES ASSUME IInv, Served("photo"), Whole, Quiet, request.photo \in page
               PROVE  PrevWalks /\ NextWalks
    BY DEF WalkFollowsListing, PrevWalks, NextWalks, Earlier, Later, List
  <2>1. QED
    BY DEF IInv, BackRight, ForthRight
<1>2. QED
  BY InitIInv, NextIInv, <1>1, PTL DEF Spec

(* Uploads and deletions between the transactions of one page can turn a   *)
(* link round only in one direction each.                                  *)
THEOREM LinksAlwaysKeepDirection == Spec => []LinksKeepDirection
<1>1. IInv => LinksKeepDirection
  BY DEF IInv, BackRight, ForthRight, LinksKeepDirection
<1>2. QED
  BY InitIInv, NextIInv, <1>1, PTL DEF Spec

(* Following the link forward from page to page shows each photo of the    *)
(* listing once, whatever the size of pages and however long the listing.  *)
THEOREM PagesAlwaysPartition == Spec => []PagesPartition
<1> DEFINE o == request.offset
           rows == Rows(List, o, PageSize)
           behind == Rows(List, o + PageSize, PageSize)
           rest == {q \in List : \A p \in page : q > p}
<1>1. ASSUME IInv, Served("list"), Whole, page # {}
      PROVE  /\ next = None <=> rest = {}
             /\ next # None => /\ PageOf(request.context, next.offset, request.authed) = behind
                               /\ behind \subseteq rest /\ Min(rest) \in behind
  <2>1. /\ page = rows
        /\ next = IF o + PageSize < Cardinality(List) THEN To(None, o + PageSize) ELSE None
    BY <1>1 DEF IInv, ListRight
  <2>2. o \in Nat /\ PageSize \in Nat \ {0} /\ List \subseteq Photo /\ List \subseteq Nat
    BY <1>1, BrowsingAssumption DEF IInv, TypeOK, Request, Offset, List, Listing
  <2>3. /\ Cardinality(List) \in Nat
        /\ \A q \in List : q \in Nat /\ Rank(List, q) \in Nat
        /\ \A q \in List : Rank(List, q) < Cardinality(List)
    BY <2>2, RankOf, RankWithin
  <2>4. \A q, r \in List : q < r => Rank(List, q) < Rank(List, r)
    BY <2>2, <2>3, RankStrict
  <2>5. \A q \in List : /\ q \in rows <=> Rank(List, q) >= o /\ Rank(List, q) < o + PageSize
                        /\ q \in behind <=> /\ Rank(List, q) >= o + PageSize
                                            /\ Rank(List, q) < o + PageSize + PageSize
    BY <2>2, <2>3 DEF Rows
  <2>6. rows \subseteq List /\ behind \subseteq List
    BY DEF Rows
  <2> HIDE DEF rows, behind
  <2> DEFINE x == Max(rows)
  <2>7. x \in rows /\ x \in List /\ x \in Nat /\ \A q \in rows : x >= q
    BY <1>1, <2>1, <2>2, <2>6, Greatest
  <2>8. Rank(List, x) \in Nat /\ Rank(List, x) >= o /\ Rank(List, x) < o + PageSize
    BY <2>3, <2>5, <2>7
  <2> HIDE DEF x
  <2>9. rest = {q \in List : q > x}
    <3>1. ASSUME NEW q \in List
          PROVE  (\A p \in page : q > p) <=> q > x
      <4>1. \A p \in rows : p \in Nat /\ x >= p
        BY <2>3, <2>6, <2>7
      <4>2. q \in Nat /\ x \in rows /\ x \in Nat /\ page = rows
        BY <2>1, <2>3, <2>7
      <4>3. ASSUME q > x, NEW p \in rows
            PROVE  q > p
        BY <4>1, <4>2, <4>3
      <4>4. QED
        BY <4>2, <4>3
    <3>2. QED
      BY <3>1
  <2> HIDE DEF rest
  <2>10. CASE rest = {}
    <3>1. \A q \in List : q <= x
      BY <2>3, <2>7, <2>9, <2>10
    <3>2. Cardinality(List) = Rank(List, x) + 1
      BY <2>2, <2>7, <3>1, RankLast
    <3>3. next = None
      BY <2>1, <2>2, <2>3, <2>8, <3>2
    <3>4. QED
      BY <2>10, <3>3
  <2>11. CASE rest # {}
    <3> DEFINE m == Min(rest)
    <3>1. m \in rest /\ \A q \in rest : m <= q
      BY <2>2, <2>9, <2>11, Least
    <3>2. m \in List /\ m \in Nat /\ x < m /\ Rank(List, m) \in Nat
      BY <2>3, <2>7, <2>9, <3>1
    <3>3. Rank(List, m) = Rank(List, x) + 1
      <4>1. \A q \in List : q > x => q >= m
        BY <2>3, <2>9, <3>1, <3>2
      <4>2. QED
        BY <2>2, <2>7, <3>2, <4>1, RankNext
    <3>4. Rank(List, m) = o + PageSize
      <4>1. m \notin rows
        BY <2>7, <3>2
      <4>2. QED
        BY <2>2, <2>5, <2>8, <3>2, <3>3, <4>1
    <3>5. next = To(None, o + PageSize) /\ next # None
      <4>1. o + PageSize < Cardinality(List)
        BY <2>3, <3>2, <3>4
      <4>2. To(None, o + PageSize) # None
        BY <2>2, BrowsingAssumption DEF To
      <4>3. QED
        BY <2>1, <4>1, <4>2
    <3>6. m \in behind
      BY <2>2, <2>5, <3>2, <3>4
    <3>7. ASSUME NEW q \in behind
          PROVE  q \in rest
      <4>1. q \in List /\ q \in Nat /\ Rank(List, q) >= o + PageSize /\ Rank(List, q) \in Nat
        BY <2>3, <2>5, <2>6
      <4>2. q # x /\ ~(q < x)
        BY <2>2, <2>4, <2>7, <2>8, <4>1
      <4>3. QED
        BY <2>7, <2>9, <4>1, <4>2
    <3>8. PageOf(request.context, next.offset, request.authed) = behind
      BY <1>1, <3>5 DEF PageOf, To, Whole, behind, List
    <3>9. QED
      BY <2>11, <3>5, <3>6, <3>7, <3>8
  <2>12. QED
    BY <2>10, <2>11
<1>2. IInv => PagesPartition
  BY <1>1 DEF PagesPartition, List
<1>3. QED
  BY InitIInv, NextIInv, <1>2, PTL DEF Spec
===============================================================================
