----------------------------- MODULE AreaProofs -----------------------------
(***************************************************************************)
(* Memory areas, for any threads, records, ranges, rights and window rules:*)
(* the areas stay a forest of disjoint sets, blocks of the heap stand for  *)
(* origin records, and what the protection unit holds of the running       *)
(* thread lies in its areas.                                               *)
(*                                                                         *)
(* Handlers change the records in two ways.  A grant, a mapping or a spawn *)
(* fills blank records (Grows); a revocation or a death blanks records and *)
(* takes holders out, and never leaves a record behind without its parent  *)
(* (Sheds).  Both keep the forest.                                         *)
(***************************************************************************)
EXTENDS Area, FiniteSetTheorems, WellFoundedInduction, TLAPS

-----------------------------------------------------------------------------
(* The forest of records.                                                   *)

Types == {"none", "heap", "grant", "periph"}
AreaRecords == [holder : Threads \cup {Nil}, parent : Records \cup {Nil}, base : Int, size : Nat,
                perms : SUBSET Perms, type : Types, backed : BOOLEAN]

(* A record that is not used is blank.                                      *)
Blank(r) == \A x \in Records \ Used(r) : r[x] = NoArea

(* A record is derived from one that exists, covers the same range and has  *)
(* the rights, and owns no block.                                           *)
Derived(r, x, p) ==
  /\ p \in Used(r) /\ r[p].base = r[x].base /\ r[p].size = r[x].size
  /\ r[x].perms \subseteq r[p].perms /\ ~r[x].backed

Rooted(r) == \A x \in Used(r) : r[x].parent # Nil => Derived(r, x, r[x].parent)
Acyclic(r) == \A x \in Used(r) : x \notin Ancestors(r, x)
Apart(r, x, y) == ~overlaps(r[x].base, r[x].size, r[y].base, r[y].size)
Disjoint(r) == \A x, y \in Used(r) : r[x].holder = r[y].holder /\ r[x].holder # Nil /\ x # y => Apart(r, x, y)

(* Records that own a block own different ones.                             *)
OneOwner(r) == \A x, y \in Used(r) : r[x].backed /\ r[y].backed /\ x # y => Apart(r, x, y)

Forest(r) == /\ r \in [Records -> AreaRecords] /\ Blank(r)
             /\ Rooted(r) /\ Acyclic(r) /\ Disjoint(r) /\ OneOwner(r)

(* A record nobody holds has a child.                                       *)
NoOrphan(r) == \A x \in Used(r) : r[x].holder = Nil => Kids(r, x) # {}

LEMMA UsedRecord ==
  ASSUME NEW r \in [Records -> AreaRecords], NEW x \in Used(r)
  PROVE  /\ x \in Records /\ x # Nil /\ r[x] \in AreaRecords /\ r[x].size > 0
         /\ r[x].parent \in Records \cup {Nil} /\ r[x].holder \in Threads \cup {Nil}
BY NameAssumption DEF Used, AreaRecords

LEMMA BlankIsBlank ==
  /\ NoArea \in AreaRecords /\ NoArea.size = 0 /\ NoArea.holder = Nil /\ NoArea.parent = Nil
  /\ NoArea.backed = FALSE
BY DEF NoArea, AreaRecords, Types, Perms

-----------------------------------------------------------------------------
(* Ancestors.                                                               *)

LEMMA AncestorsLeast ==
  ASSUME NEW r, NEW x, NEW S \in SUBSET Used(r), r[x].parent \in S \cup {Nil}, ParentClosed(r, S)
  PROVE  Ancestors(r, x) \subseteq S
BY DEF Ancestors

LEMMA ParentIsAncestor ==
  ASSUME NEW r, NEW x, r[x].parent \in Used(r), r[x].parent # Nil
  PROVE  r[x].parent \in Ancestors(r, x)
BY DEF Ancestors

(* The ancestors of an ancestor are ancestors.                              *)
LEMMA AncestorsTransitive ==
  ASSUME NEW r, NEW x, NEW a \in Ancestors(r, x), NEW b \in Ancestors(r, a)
  PROVE  b \in Ancestors(r, x)
<1> SUFFICES ASSUME NEW S \in SUBSET Used(r), r[x].parent \in S \cup {Nil}, ParentClosed(r, S)
             PROVE  b \in S
  BY DEF Ancestors
<1>1. a \in S
  BY DEF Ancestors
<1>2. r[a].parent \in S \cup {Nil}
  BY <1>1 DEF ParentClosed
<1> QED
  BY <1>2, AncestorsLeast

(* Filling blank records adds no ancestor to a record in use.               *)
LEMMA GrowthKeepsAncestors ==
  ASSUME NEW r, NEW r2, Rooted(r), Used(r) \subseteq Used(r2), \A x \in Used(r) : r2[x] = r[x],
         NEW x \in Used(r)
  PROVE  Ancestors(r2, x) \subseteq Ancestors(r, x)
<1> SUFFICES ASSUME NEW a \in Ancestors(r2, x), NEW S \in SUBSET Used(r),
                    r[x].parent \in S \cup {Nil}, ParentClosed(r, S)
             PROVE  a \in S
  <2>1. Used(r) \in SUBSET Used(r2) /\ r2[x].parent \in Used(r) \cup {Nil}
    BY DEF Rooted, Derived
  <2>2. ParentClosed(r2, Used(r))
    BY DEF ParentClosed, Rooted, Derived
  <2>3. Ancestors(r2, x) \subseteq Used(r)
    BY <2>1, <2>2, AncestorsLeast
  <2> QED
    BY <2>3 DEF Ancestors
<1>1. S \in SUBSET Used(r2) /\ r2[x].parent \in S \cup {Nil}
  OBVIOUS
<1>2. ParentClosed(r2, S)
  BY DEF ParentClosed
<1> QED
  BY <1>1, <1>2, AncestorsLeast

(* A new record is below records that were in use.                          *)
LEMMA AncestorsOfNew ==
  ASSUME NEW r, NEW r2, Rooted(r), Used(r) \subseteq Used(r2), \A x \in Used(r) : r2[x] = r[x],
         NEW x, r2[x].parent \in Used(r) \cup {Nil}
  PROVE  Ancestors(r2, x) \subseteq Used(r)
<1>1. ParentClosed(r2, Used(r))
  BY DEF ParentClosed, Rooted, Derived
<1> QED
  BY <1>1, AncestorsLeast

(* Blanking records adds no ancestor either.                                *)
LEMMA LossKeepsAncestors ==
  ASSUME NEW r, NEW r2, Rooted(r), Used(r2) \subseteq Used(r),
         \A x \in Used(r2) : r2[x].parent = r[x].parent /\ r[x].parent \in Used(r2) \cup {Nil},
         NEW x \in Used(r2)
  PROVE  Ancestors(r2, x) \subseteq Ancestors(r, x)
<1> SUFFICES ASSUME NEW a \in Ancestors(r2, x), NEW S \in SUBSET Used(r),
                    r[x].parent \in S \cup {Nil}, ParentClosed(r, S)
             PROVE  a \in S
  BY DEF Ancestors
<1> DEFINE T == S \cap Used(r2)
<1>1. T \in SUBSET Used(r2) /\ r2[x].parent \in T \cup {Nil}
  OBVIOUS
<1>2. ParentClosed(r2, T)
  BY DEF ParentClosed
<1> QED
  BY <1>1, <1>2, AncestorsLeast

-----------------------------------------------------------------------------
(* Growing and shedding.                                                    *)

(* r2 is r with blank records filled.                                       *)
Grows(r, r2) ==
  /\ r2 \in [Records -> AreaRecords] /\ Blank(r2)
  /\ \A x \in Used(r) : r2[x] = r[x]
  /\ \A z \in Used(r2) \ Used(r) :
       /\ r2[z].parent # Nil => r2[z].parent \in Used(r) /\ Derived(r2, z, r2[z].parent)
       /\ \A y \in Used(r2) \ {z} : /\ r2[z].holder = r2[y].holder => Apart(r2, z, y)
                                    /\ r2[z].backed /\ r2[y].backed => Apart(r2, z, y)
       /\ r2[z].holder # Nil

LEMMA GrownUsed ==
  ASSUME NEW r, NEW r2, Grows(r, r2)
  PROVE  Used(r) \subseteq Used(r2)
BY DEF Grows, Used

LEMMA ApartBothWays ==
  ASSUME NEW r \in [Records -> AreaRecords], NEW x \in Records, NEW y \in Records, Apart(r, x, y)
  PROVE  Apart(r, y, x)
BY DEF Apart, overlaps, AreaRecords

LEMMA GrowthKeepsForest ==
  ASSUME NEW r, NEW r2, Forest(r), Grows(r, r2)
  PROVE  Forest(r2)
<1> USE GrownUsed
<1>0. /\ r \in [Records -> AreaRecords] /\ r2 \in [Records -> AreaRecords]
      /\ Used(r2) \subseteq Records /\ \A x \in Used(r) : r2[x] = r[x]
  BY DEF Forest, Grows, Used
<1>1. Rooted(r2)
  <2> SUFFICES ASSUME NEW x \in Used(r2), r2[x].parent # Nil
               PROVE  Derived(r2, x, r2[x].parent)
    BY DEF Rooted
  <2>1. CASE x \in Used(r)
    BY <1>0, <2>1 DEF Forest, Rooted, Derived
  <2>2. CASE x \notin Used(r)
    BY <2>2 DEF Grows
  <2> QED
    BY <2>1, <2>2
<1>2. Acyclic(r2)
  <2> SUFFICES ASSUME NEW x \in Used(r2)
               PROVE  x \notin Ancestors(r2, x)
    BY DEF Acyclic
  <2>1. CASE x \in Used(r)
    BY <1>0, <2>1, GrowthKeepsAncestors DEF Forest, Acyclic
  <2>2. CASE x \notin Used(r)
    <3>1. r2[x].parent \in Used(r) \cup {Nil}
      BY <2>2 DEF Grows
    <3> QED
      BY <1>0, <2>2, <3>1, AncestorsOfNew DEF Forest
  <2> QED
    BY <2>1, <2>2
<1>3. ASSUME NEW x \in Used(r2), NEW y \in Used(r2), x # y,
             \/ r2[x].holder = r2[y].holder /\ r2[x].holder # Nil
             \/ r2[x].backed /\ r2[y].backed
      PROVE  Apart(r2, x, y)
  <2>1. CASE x \in Used(r) /\ y \in Used(r)
    BY <1>0, <1>3, <2>1 DEF Forest, Disjoint, OneOwner, Apart
  <2>2. CASE x \notin Used(r)
    BY <1>3, <2>2 DEF Grows
  <2>3. CASE y \notin Used(r)
    <3>1. Apart(r2, y, x)
      BY <1>3, <2>3 DEF Grows
    <3> QED
      BY <1>0, <3>1, ApartBothWays
  <2> QED
    BY <2>1, <2>2, <2>3
<1>4. Disjoint(r2) /\ OneOwner(r2)
  BY <1>3 DEF Disjoint, OneOwner
<1> QED
  BY <1>1, <1>2, <1>4 DEF Forest, Grows

LEMMA GrowthKeepsOrphans ==
  ASSUME NEW r, NEW r2, NoOrphan(r), Grows(r, r2)
  PROVE  NoOrphan(r2)
<1> SUFFICES ASSUME NEW x \in Used(r2), r2[x].holder = Nil
             PROVE  Kids(r2, x) # {}
  BY DEF NoOrphan
<1>1. x \in Used(r) /\ r2[x] = r[x]
  BY DEF Grows
<1>2. PICK y \in Kids(r, x) : TRUE
  BY <1>1 DEF NoOrphan
<1>3. y \in Used(r) /\ y \in Used(r2) /\ r2[y].parent = x
  BY <1>2, GrownUsed DEF Kids, Grows
<1> QED
  BY <1>3 DEF Kids

(* r2 is r with records blanked or without their holder, and no record left *)
(* below a blank one.                                                       *)
Sheds(r, r2) ==
  /\ r2 \in [Records -> AreaRecords]
  /\ \A x \in Records : r2[x] \in {r[x], [r[x] EXCEPT !.holder = Nil], NoArea}
  /\ \A x \in Used(r2) : r2[x].parent \in Used(r2) \cup {Nil}

LEMMA ShedRecord ==
  ASSUME NEW r \in [Records -> AreaRecords], NEW r2, Sheds(r, r2), NEW x \in Used(r2)
  PROVE  /\ x \in Used(r) /\ r2[x].parent = r[x].parent /\ r2[x].base = r[x].base
         /\ r2[x].size = r[x].size /\ r2[x].perms = r[x].perms /\ r2[x].backed = r[x].backed
         /\ r2[x].holder \in {r[x].holder, Nil} /\ r2[x].type = r[x].type
<1>1. x \in Records /\ r[x] \in AreaRecords /\ r2[x].size > 0
  BY DEF Used
<1>2. r2[x] \in {r[x], [r[x] EXCEPT !.holder = Nil]}
  BY <1>1, BlankIsBlank DEF Sheds
<1> QED
  BY <1>1, <1>2 DEF AreaRecords, Used

(* Who keeps an area keeps it as it was.                                    *)
LEMMA KeptRecord ==
  ASSUME NEW r \in [Records -> AreaRecords], NEW r2, Sheds(r, r2), NEW x \in Records,
         r2[x].holder # Nil
  PROVE  r2[x] = r[x]
BY BlankIsBlank DEF Sheds, AreaRecords

LEMMA SheddingKeepsForest ==
  ASSUME NEW r, NEW r2, Forest(r), Sheds(r, r2)
  PROVE  Forest(r2)
<1>0. r \in [Records -> AreaRecords] /\ r2 \in [Records -> AreaRecords]
  BY DEF Forest, Sheds
<1>1. Blank(r2)
  <2> SUFFICES ASSUME NEW x \in Records \ Used(r2)
               PROVE  r2[x] = NoArea
    BY DEF Blank
  <2>1. CASE x \in Used(r)
    <3>1. r[x] \in AreaRecords /\ r[x].size > 0 /\ ~(r2[x].size > 0)
      BY <1>0, <2>1 DEF Used
    <3>2. [r[x] EXCEPT !.holder = Nil].size = r[x].size
      BY <3>1 DEF AreaRecords
    <3> QED
      BY <3>1, <3>2 DEF Sheds
  <2>2. CASE x \notin Used(r)
    <3>1. r[x] = NoArea
      BY <2>2 DEF Forest, Blank
    <3>2. ASSUME NEW a \in AreaRecords, a.holder = Nil
          PROVE  [a EXCEPT !.holder = Nil] = a
      BY <3>2 DEF AreaRecords
    <3> QED
      BY <3>1, <3>2, BlankIsBlank DEF Sheds
  <2> QED
    BY <2>1, <2>2
<1>2. Rooted(r2)
  <2> SUFFICES ASSUME NEW x \in Used(r2), r2[x].parent # Nil
               PROVE  Derived(r2, x, r2[x].parent)
    BY DEF Rooted
  <2>1. r2[x].parent \in Used(r2)
    BY DEF Sheds
  <2> QED
    BY <1>0, <2>1, ShedRecord DEF Forest, Rooted, Derived
<1>3. Acyclic(r2)
  <2> SUFFICES ASSUME NEW x \in Used(r2)
               PROVE  x \notin Ancestors(r2, x)
    BY DEF Acyclic
  <2>1. Used(r2) \subseteq Used(r)
    BY <1>0, ShedRecord
  <2>2. \A y \in Used(r2) : r2[y].parent = r[y].parent /\ r[y].parent \in Used(r2) \cup {Nil}
    BY <1>0, ShedRecord DEF Sheds
  <2>3. Rooted(r) /\ x \notin Ancestors(r, x)
    BY <2>1 DEF Forest, Acyclic
  <2> QED
    BY <2>1, <2>2, <2>3, LossKeepsAncestors
<1>4. Disjoint(r2) /\ OneOwner(r2)
  BY <1>0, ShedRecord DEF Forest, Disjoint, OneOwner, Apart
<1> QED
  BY <1>0, <1>1, <1>2, <1>3, <1>4 DEF Forest

-----------------------------------------------------------------------------
(* Releasing records.                                                       *)

LEMMA ReleaseLeast ==
  ASSUME NEW r, NEW S, NEW G \in SUBSET Used(r), S \subseteq G,
         \A p \in Used(r) : Bereft(r, p, G) => p \in G
  PROVE  ReleaseSet(r, S) \subseteq G
BY DEF ReleaseSet

(* What release_up frees: S, records nobody holds, with every child, and no *)
(* orphan is left without one.                                              *)
LEMMA Released ==
  ASSUME NEW r, NEW S \in SUBSET Used(r), NEW gone, gone = ReleaseSet(r, S),
         \A x \in S : r[x].holder = Nil /\ Kids(r, x) = {}
  PROVE  /\ gone \subseteq Used(r) /\ S \subseteq gone
         /\ \A x \in gone : r[x].holder = Nil /\ Kids(r, x) \subseteq gone
         /\ \A p \in Used(r) : Bereft(r, p, gone) => p \in gone
<1>1. gone \subseteq Used(r) /\ S \subseteq gone
  BY DEF ReleaseSet
<1>2. ASSUME NEW p \in Used(r), Bereft(r, p, gone)
      PROVE  p \in gone
  <2> SUFFICES ASSUME NEW G \in SUBSET Used(r), S \subseteq G,
                      \A q \in Used(r) : Bereft(r, q, G) => q \in G
               PROVE  p \in G
    BY DEF ReleaseSet
  <2>1. gone \subseteq G
    BY ReleaseLeast
  <2> QED
    BY <1>2, <2>1 DEF Bereft
<1>3. gone \subseteq {x \in gone : r[x].holder = Nil /\ Kids(r, x) \subseteq gone}
  <2> DEFINE G == {x \in gone : r[x].holder = Nil /\ Kids(r, x) \subseteq gone}
  <2>1. G \in SUBSET Used(r) /\ S \subseteq G
    BY <1>1
  <2>2. ASSUME NEW p \in Used(r), Bereft(r, p, G)
        PROVE  p \in G
    <3>1. Bereft(r, p, gone)
      BY <2>2 DEF Bereft
    <3> QED
      BY <1>2, <3>1 DEF Bereft
  <2> HIDE DEF G
  <2>3. gone \subseteq G
    BY <2>1, <2>2, ReleaseLeast
  <2> QED
    BY <2>3 DEF G
<1> QED
  BY <1>1, <1>2, <1>3

(* Records every orphan of which has a child or is in S.                    *)
OrphansIn(r, S) == \A x \in Used(r) : r[x].holder = Nil /\ x \notin S => Kids(r, x) # {}

(* Leaving records that nobody holds and that have no child.                *)
Leaving(r, S) ==
  /\ S \subseteq Used(r) /\ r \in [Records -> AreaRecords] /\ Rooted(r) /\ OrphansIn(r, S)
  /\ \A x \in S : r[x].holder = Nil /\ Kids(r, x) = {}

LeftBy(r, S, r2) ==
  /\ r2 \in [Records -> AreaRecords]
  /\ \A x \in Records : r2[x] \in {r[x], NoArea} /\ (r[x].holder # Nil => r2[x] = r[x])
  /\ \A x \in Used(r2) : r2[x].parent \in Used(r2) \cup {Nil}
  /\ \A x \in S : r2[x] = NoArea
  /\ NoOrphan(r2)

LEMMA ReleaseUp ==
  ASSUME NEW r, NEW S, Leaving(r, S)
  PROVE  LeftBy(r, S, release_up(r, S))
<1> DEFINE r2 == release_up(r, S)
<1>0. /\ S \in SUBSET Used(r) /\ r \in [Records -> AreaRecords] /\ Rooted(r) /\ OrphansIn(r, S)
      /\ \A x \in S : r[x].holder = Nil /\ Kids(r, x) = {}
  BY DEF Leaving
<1> DEFINE gone == ReleaseSet(r, S)
<1>1. /\ gone \subseteq Used(r) /\ S \subseteq gone
      /\ \A x \in gone : r[x].holder = Nil /\ Kids(r, x) \subseteq gone
      /\ \A p \in Used(r) : Bereft(r, p, gone) => p \in gone
  BY <1>0, Released, Zenon
<1>2. r2 = [x \in Records |-> IF x \in gone THEN NoArea ELSE r[x]]
  BY DEF release_up
<1> HIDE DEF gone, r2
<1>3. r2 \in [Records -> AreaRecords]
  BY <1>0, <1>2, BlankIsBlank
<1>4. Used(r2) = Used(r) \ gone
  BY <1>2, BlankIsBlank DEF Used
<1>5. \A x \in Used(r2) : r2[x] = r[x]
  BY <1>2, <1>4 DEF Used
<1>6. ASSUME NEW x \in Used(r2)
      PROVE  r2[x].parent \in Used(r2) \cup {Nil}
  <2> SUFFICES ASSUME r[x].parent # Nil
               PROVE  r[x].parent \in Used(r2)
    BY <1>5
  <2>1. r[x].parent \in Used(r)
    BY <1>0, <1>4 DEF Rooted, Derived
  <2>2. x \in Kids(r, r[x].parent)
    BY <1>4 DEF Kids
  <2> QED
    BY <1>1, <1>4, <2>1, <2>2
<1>7. NoOrphan(r2)
  <2> SUFFICES ASSUME NEW x \in Used(r2), r2[x].holder = Nil
               PROVE  Kids(r2, x) # {}
    BY DEF NoOrphan
  <2>1. x \in Used(r) /\ x \notin gone /\ r[x].holder = Nil
    BY <1>4, <1>5
  <2>2. Kids(r, x) # {}
    BY <1>0, <1>1, <2>1 DEF OrphansIn
  <2>3. ~(Kids(r, x) \subseteq gone)
    BY <1>1, <2>1, <2>2 DEF Bereft
  <2>4. PICK y \in Kids(r, x) : y \notin gone
    BY <2>3
  <2>5. y \in Used(r2) /\ r2[y].parent = x
    BY <1>4, <1>5, <2>4 DEF Kids
  <2> QED
    BY <2>5 DEF Kids
<1>8. \A x \in Records : r2[x] \in {r[x], NoArea} /\ (r[x].holder # Nil => r2[x] = r[x])
  BY <1>1, <1>2
<1>9. \A x \in S : r2[x] = NoArea
  BY <1>0, <1>1, <1>2 DEF Used
<1>10. LeftBy(r, S, r2)
  BY <1>3, <1>6, <1>7, <1>8, <1>9 DEF LeftBy
<1> QED
  BY <1>10 DEF r2

(* Revoking a takes a and what was derived from it, and nothing of anybody  *)
(* else.                                                                    *)
LEMMA Revokes ==
  ASSUME NEW r, Forest(r), NoOrphan(r), NEW a \in Used(r), NEW r2, r2 = ulmk_area_revoke(r, a)
  PROVE  /\ Sheds(r, r2) /\ NoOrphan(r2)
         /\ \A x \in Used(r) : r[x].holder # Nil /\ r2[x].holder # r[x].holder
                                 => x = a \/ a \in Ancestors(r, x)
<1> DEFINE below == Descendants(r, a)
           cut == [x \in Records |-> IF x \in below THEN NoArea ELSE r[x]]
           out == [cut EXCEPT ![a].holder = Nil]
<1>0. r \in [Records -> AreaRecords] /\ Rooted(r) /\ a \notin Ancestors(r, a) /\ Used(r) \subseteq Records
  BY DEF Forest, Acyclic, Used
<1>1. below = {y \in Used(r) : a \in Ancestors(r, y)}
  BY DEF Descendants
<1>2. r2 = release_up(out, {a})
  BY DEF ulmk_area_revoke
<1> HIDE DEF below
<1>3. cut \in [Records -> AreaRecords]
  BY <1>0, BlankIsBlank
<1>4. /\ out \in [Records -> AreaRecords] /\ out[a] = [r[a] EXCEPT !.holder = Nil]
      /\ \A x \in Records : x # a => out[x] = cut[x]
  <2>1. a \in Records /\ a \notin below /\ cut[a] = r[a]
    BY <1>0, <1>1
  <2>2. [r[a] EXCEPT !.holder = Nil] \in AreaRecords
    BY <1>0, <2>1 DEF AreaRecords
  <2>3. out = [cut EXCEPT ![a] = [r[a] EXCEPT !.holder = Nil]]
    BY <2>1, <1>3
  <2> HIDE DEF cut, out
  <2> QED
    BY <1>3, <2>1, <2>2, <2>3
<1>5. /\ out[a].holder = Nil /\ out[a].parent = r[a].parent /\ out[a].size = r[a].size
      /\ out[a].base = r[a].base /\ out[a].perms = r[a].perms /\ out[a].backed = r[a].backed
  <2>1. r[a] \in AreaRecords
    BY <1>0
  <2> HIDE DEF out
  <2> QED
    BY <1>4, <2>1 DEF AreaRecords
<1>6. \A x \in Records : x # a => out[x] = IF x \in below THEN NoArea ELSE r[x]
  BY <1>4
<1> HIDE DEF out, cut
<1>7. Used(out) = Used(r) \ below
  <2>1. ASSUME NEW x \in Records
        PROVE  x \in Used(out) <=> x \in Used(r) \ below
    <3>1. CASE x = a
      BY <1>0, <1>1, <1>5, <3>1 DEF Used
    <3>2. CASE x # a
      BY <1>6, <3>2, BlankIsBlank DEF Used
    <3> QED
      BY <3>1, <3>2
  <2> QED
    BY <2>1 DEF Used
<1>8. \A x \in Used(out) : /\ out[x].parent = r[x].parent /\ out[x].size = r[x].size
                           /\ out[x].base = r[x].base /\ out[x].perms = r[x].perms
                           /\ out[x].backed = r[x].backed /\ out[x].holder \in {r[x].holder, Nil}
                           /\ x # a => out[x].holder = r[x].holder
  BY <1>0, <1>5, <1>6, <1>7
<1>9. ASSUME NEW x \in Used(out), r[x].parent # Nil
      PROVE  r[x].parent \in Used(out) /\ r[x].parent # a
  <2>1. x \in Used(r) /\ a \notin Ancestors(r, x)
    BY <1>1, <1>7
  <2>2. r[x].parent \in Used(r)
    BY <1>0, <1>9, <2>1 DEF Rooted, Derived
  <2>3. r[x].parent \in Ancestors(r, x)
    BY <1>9, <2>2, ParentIsAncestor
  <2>4. a \notin Ancestors(r, r[x].parent)
    BY <2>1, <2>3, AncestorsTransitive
  <2> QED
    BY <1>1, <1>7, <2>1, <2>2, <2>3, <2>4
<1>10. Rooted(out)
  <2> SUFFICES ASSUME NEW x \in Used(out), out[x].parent # Nil
               PROVE  Derived(out, x, out[x].parent)
    BY DEF Rooted
  <2>1. out[x].parent = r[x].parent /\ r[x].parent \in Used(out)
    BY <1>8, <1>9
  <2>2. x \in Used(r) /\ Derived(r, x, r[x].parent)
    BY <1>0, <1>7, <2>1 DEF Rooted
  <2> QED
    BY <1>8, <2>1, <2>2 DEF Derived
<1>11. a \in Used(out) /\ Kids(out, a) = {}
  <2>1. a \in Used(out)
    BY <1>0, <1>1, <1>7
  <2>2. ASSUME NEW y \in Kids(out, a)
        PROVE  FALSE
    BY <1>0, <1>8, <1>9, UsedRecord DEF Kids
  <2> QED
    BY <2>1, <2>2
<1>12. OrphansIn(out, {a})
  <2> SUFFICES ASSUME NEW x \in Used(out), out[x].holder = Nil, x # a
               PROVE  Kids(out, x) # {}
    BY DEF OrphansIn
  <2>1. x \in Used(r) /\ r[x].holder = Nil
    BY <1>7, <1>8
  <2>2. PICK y \in Kids(r, x) : TRUE
    BY <2>1 DEF NoOrphan
  <2>3. y \in Used(r) /\ r[y].parent = x /\ x # Nil
    BY <1>0, <2>1, <2>2, UsedRecord DEF Kids
  <2>4. Ancestors(r, y) \subseteq Ancestors(r, x) \cup {x}
    <3> DEFINE S == Ancestors(r, x) \cup {x}
    <3>1. S \in SUBSET Used(r) /\ r[y].parent \in S
      BY <2>1, <2>3 DEF Ancestors
    <3>2. ASSUME NEW z \in S
          PROVE  r[z].parent \in S \cup {Nil}
      <4> SUFFICES ASSUME r[z].parent # Nil
                   PROVE  r[z].parent \in S
        OBVIOUS
      <4>1. r[z].parent \in Used(r)
        BY <1>0, <3>1 DEF Rooted, Derived
      <4>2. r[z].parent \in Ancestors(r, z)
        BY <4>1, ParentIsAncestor
      <4> QED
        BY <4>2, AncestorsTransitive
    <3>3. ParentClosed(r, S)
      BY <3>2 DEF ParentClosed
    <3> HIDE DEF S
    <3>4. Ancestors(r, y) \subseteq S
      BY <3>1, <3>3, AncestorsLeast
    <3> QED
      BY <3>4 DEF S
  <2>5. y \in Used(out)
    BY <1>1, <1>7, <2>3, <2>4
  <2>6. out[y].parent = x
    BY <1>8, <2>3, <2>5
  <2> QED
    BY <2>5, <2>6 DEF Kids
<1>13. /\ r2 \in [Records -> AreaRecords]
       /\ \A x \in Records : r2[x] \in {out[x], NoArea} /\ (out[x].holder # Nil => r2[x] = out[x])
       /\ \A x \in Used(r2) : r2[x].parent \in Used(r2) \cup {Nil}
       /\ NoOrphan(r2)
  <2>1. Leaving(out, {a})
    BY <1>4, <1>5, <1>10, <1>11, <1>12 DEF Leaving
  <2>2. LeftBy(out, {a}, r2)
    BY <1>2, <2>1, ReleaseUp
  <2> QED
    BY <2>2 DEF LeftBy
<1>14. Sheds(r, r2)
  BY <1>4, <1>6, <1>13 DEF Sheds
<1>15. ASSUME NEW x \in Used(r), r[x].holder # Nil, r2[x].holder # r[x].holder
       PROVE  x = a \/ a \in Ancestors(r, x)
  <2> SUFFICES ASSUME x # a, x \notin below
               PROVE  FALSE
    BY <1>1
  <2>1. x \in Records /\ out[x] = r[x]
    BY <1>0, <1>6
  <2> QED
    BY <1>13, <1>15, <2>1
<1> QED
  BY <1>13, <1>14, <1>15

-----------------------------------------------------------------------------
(* The end of a holder.                                                     *)

(* The records of a thread without their holder.                            *)
Unheld(r, t) == [x \in Records |-> IF x \in Held(r, t) THEN [r[x] EXCEPT !.holder = Nil] ELSE r[x]]

LEMMA UnheldRecords ==
  ASSUME NEW r \in [Records -> AreaRecords], NEW t
  PROVE  /\ Unheld(r, t) \in [Records -> AreaRecords] /\ Used(Unheld(r, t)) = Used(r)
         /\ \A x \in Records : /\ Unheld(r, t)[x].parent = r[x].parent
                               /\ Unheld(r, t)[x].base = r[x].base
                               /\ Unheld(r, t)[x].size = r[x].size
                               /\ Unheld(r, t)[x].perms = r[x].perms
                               /\ Unheld(r, t)[x].backed = r[x].backed
         /\ \A x \in Held(r, t) : Unheld(r, t)[x].holder = Nil
         /\ \A x \in Records \ Held(r, t) : Unheld(r, t)[x] = r[x]
<1> DEFINE u == Unheld(r, t)
<1>1. u \in [Records -> AreaRecords]
  <2>1. ASSUME NEW a \in AreaRecords
        PROVE  [a EXCEPT !.holder = Nil] \in AreaRecords
    BY DEF AreaRecords
  <2> QED
    BY <2>1 DEF Unheld
<1>2. ASSUME NEW x \in Records
      PROVE  /\ u[x].parent = r[x].parent /\ u[x].base = r[x].base /\ u[x].size = r[x].size
             /\ u[x].perms = r[x].perms /\ u[x].backed = r[x].backed
             /\ x \in Held(r, t) => u[x].holder = Nil
             /\ x \notin Held(r, t) => u[x] = r[x]
  <2>1. r[x] \in AreaRecords /\ u[x] \in {r[x], [r[x] EXCEPT !.holder = Nil]}
    BY DEF Unheld
  <2>2. x \in Held(r, t) => u[x] = [r[x] EXCEPT !.holder = Nil]
    BY DEF Unheld
  <2>3. x \notin Held(r, t) => u[x] = r[x]
    BY DEF Unheld
  <2> HIDE DEF u
  <2> QED
    BY <2>1, <2>2, <2>3 DEF AreaRecords
<1>3. Used(u) = Used(r)
  BY <1>2 DEF Used
<1>4. Held(r, t) \subseteq Records
  BY DEF Held, Used
<1> HIDE DEF u
<1>5. \A x \in Held(r, t) : u[x].holder = Nil
  BY <1>2, <1>4
<1> QED
  BY <1>1, <1>2, <1>3, <1>5 DEF u

(* A thread that ends leaves its set, and nobody else loses an area by it.  *)
LEMMA SetReleases ==
  ASSUME NEW r, Forest(r), NoOrphan(r), NEW t \in Threads, NEW r2, r2 = ulmk_area_set_release(r, t)
  PROVE  /\ Sheds(r, r2) /\ NoOrphan(r2) /\ Held(r2, t) = {}
         /\ \A x \in Records : r[x].holder \notin {t, Nil} => r2[x] = r[x]
<1> DEFINE u == Unheld(r, t)
           S == {x \in Held(r, t) : Kids(r, x) = {}}
<1>0. /\ r \in [Records -> AreaRecords] /\ Rooted(r) /\ Used(r) \subseteq Records
      /\ Held(r, t) = {x \in Used(r) : r[x].holder = t} /\ t # Nil
  BY NameAssumption DEF Forest, Used, Held
<1>1. r2 = release_up(u, S)
  BY DEF ulmk_area_set_release, Unheld
<1>2. /\ u \in [Records -> AreaRecords] /\ Used(u) = Used(r)
      /\ \A x \in Records : /\ u[x].parent = r[x].parent /\ u[x].base = r[x].base
                            /\ u[x].size = r[x].size /\ u[x].perms = r[x].perms
                            /\ u[x].backed = r[x].backed
      /\ \A x \in Held(r, t) : u[x].holder = Nil
      /\ \A x \in Records \ Held(r, t) : u[x] = r[x]
  BY <1>0, UnheldRecords
<1>3. \A x \in Records : u[x] \in {r[x], [r[x] EXCEPT !.holder = Nil]}
  BY DEF Unheld
<1> HIDE DEF u
<1>4. \A x : Kids(u, x) = Kids(r, x)
  BY <1>0, <1>2 DEF Kids
<1>5. Leaving(u, S)
  <2>1. Rooted(u)
    BY <1>0, <1>2 DEF Rooted, Derived
  <2>2. \A x \in S : x \in Used(u) /\ u[x].holder = Nil /\ Kids(u, x) = {}
    BY <1>0, <1>2, <1>4
  <2>3. OrphansIn(u, S)
    <3> SUFFICES ASSUME NEW x \in Used(u), u[x].holder = Nil, x \notin S
                 PROVE  Kids(u, x) # {}
      BY DEF OrphansIn
    <3>1. CASE x \in Held(r, t)
      BY <1>4, <3>1
    <3>2. CASE x \notin Held(r, t)
      BY <1>0, <1>2, <1>4, <3>2 DEF NoOrphan
    <3> QED
      BY <3>1, <3>2
  <2> QED
    BY <1>2, <2>1, <2>2, <2>3 DEF Leaving
<1>6. LeftBy(u, S, r2)
  BY <1>1, <1>5, ReleaseUp
<1>7. Sheds(r, r2)
  BY <1>3, <1>6 DEF Sheds, LeftBy
<1>8. Held(r2, t) = {}
  <2> SUFFICES ASSUME NEW x \in Used(r2), r2[x].holder = t
               PROVE  FALSE
    BY DEF Held
  <2>1. x \in Used(r) /\ r[x].holder = t /\ x \in Records
    BY <1>0, <1>7, ShedRecord
  <2>2. u[x].holder = Nil /\ r2[x] \in {u[x], NoArea}
    BY <1>0, <1>2, <1>6, <2>1 DEF LeftBy
  <2> QED
    BY <1>0, <2>2, BlankIsBlank
<1>9. ASSUME NEW x \in Records, r[x].holder \notin {t, Nil}
      PROVE  r2[x] = r[x]
  <2>1. u[x] = r[x]
    BY <1>0, <1>2, <1>9
  <2> QED
    BY <1>6, <1>9, <2>1 DEF LeftBy
<1> QED
  BY <1>6, <1>7, <1>8, <1>9 DEF LeftBy

(* Taking down a thread right after it got its areas gives back the records *)
(* as they were.                                                            *)
LEMMA ReleaseUndoes ==
  ASSUME NEW r, Forest(r), NoOrphan(r), NEW t \in Threads, Held(r, t) = {},
         NEW r2, Grows(r, r2), \A z \in Used(r2) \ Used(r) : r2[z].holder = t
  PROVE  ulmk_area_set_release(r2, t) = r
<1> DEFINE new == Used(r2) \ Used(r)
           u == Unheld(r2, t)
<1>0. /\ r \in [Records -> AreaRecords] /\ r2 \in [Records -> AreaRecords] /\ Rooted(r)
      /\ Used(r) \subseteq Used(r2) /\ Used(r2) \subseteq Records /\ t # Nil
      /\ \A x \in Used(r) : r2[x] = r[x] /\ r[x].holder # t
  BY NameAssumption, GrownUsed DEF Forest, Grows, Used, Held
<1>1. Held(r2, t) = new
  BY <1>0 DEF Held
<1>2. \A z \in new : Kids(r2, z) = {}
  <2> SUFFICES ASSUME NEW z \in new, NEW y \in Used(r2), r2[y].parent = z
               PROVE  FALSE
    BY DEF Kids
  <2>1. z # Nil
    BY <1>0, UsedRecord
  <2>2. CASE y \in Used(r)
    BY <1>0, <2>1, <2>2 DEF Rooted, Derived
  <2>3. CASE y \notin Used(r)
    BY <2>1, <2>3 DEF Grows
  <2> QED
    BY <2>2, <2>3
<1>3. {x \in Held(r2, t) : Kids(r2, x) = {}} = new
  BY <1>1, <1>2
<1>4. ulmk_area_set_release(r2, t) = release_up(u, new)
  BY <1>3 DEF ulmk_area_set_release, Unheld
<1>5. /\ Used(u) = Used(r2) /\ \A x \in Records \ new : u[x] = r2[x]
      /\ \A x \in Records : u[x].parent = r2[x].parent
  BY <1>0, <1>1, UnheldRecords
<1>6. ReleaseSet(u, new) = new
  <2>1. new \subseteq ReleaseSet(u, new)
    BY <1>5 DEF ReleaseSet
  <2>2. ASSUME NEW p \in Used(u), Bereft(u, p, new)
        PROVE  p \in new
    <3> SUFFICES ASSUME p \notin new
                 PROVE  FALSE
      OBVIOUS
    <3>1. p \in Used(r) /\ u[p] = r[p]
      BY <1>0, <1>5
    <3>2. PICK y \in Kids(r, p) : TRUE
      BY <2>2, <3>1 DEF Bereft, NoOrphan
    <3>3. y \in Used(r) /\ y \in Used(u) /\ u[y].parent = p
      BY <1>0, <1>5, <3>2 DEF Kids
    <3>4. y \in new
      BY <2>2, <3>3 DEF Bereft, Kids
    <3> QED
      BY <3>3, <3>4
  <2>3. new \in SUBSET Used(u)
    BY <1>5
  <2> HIDE DEF new, u
  <2>4. ReleaseSet(u, new) \subseteq new
    BY <2>2, <2>3, ReleaseLeast
  <2> QED
    BY <2>1, <2>4
<1>7. release_up(u, new) = [x \in Records |-> IF x \in new THEN NoArea ELSE u[x]]
  BY <1>6 DEF release_up
<1>8. ASSUME NEW x \in Records
      PROVE  r[x] = IF x \in new THEN NoArea ELSE u[x]
  <2>1. CASE x \in Used(r)
    BY <1>0, <1>5, <2>1
  <2>2. CASE x \in new
    BY <2>2 DEF Forest, Blank
  <2>3. CASE x \notin Used(r2)
    BY <1>0, <1>5, <2>3 DEF Forest, Blank, Grows
  <2> QED
    BY <2>1, <2>2, <2>3
<1> QED
  BY <1>0, <1>4, <1>7, <1>8

-----------------------------------------------------------------------------
(* New records.                                                             *)

LEMMA LeastOf ==
  ASSUME NEW B \in SUBSET Nat, B # {}
  PROVE  \E x \in B : \A y \in B : x <= y
<1> DEFINE R == {ss \in Nat \X Nat : ss[1] < ss[2]}
<1>1. IsWellFoundedOn(R, Nat)
  BY NatLessThanWellFounded, Zenon DEF OpToRel
<1>2. PICK x \in B : \A y \in B : ~ (<<y, x>> \in R)
  <2> HIDE DEF R
  <2> QED
    BY <1>1, WFMin
<1>3. ASSUME NEW y \in B, y < x
      PROVE  FALSE
  <2>1. <<y, x>> \in Nat \X Nat /\ <<y, x>>[1] < <<y, x>>[2]
    BY <1>3
  <2> QED
    BY <1>2, <2>1
<1> QED
  BY <1>3

(* A new area of t that MayInsert allows and that its parent covers.        *)
MayAdd(r, t, base, size, perms, type, backed, parent) ==
  /\ Forest(r) /\ t \in Threads /\ base \in Int /\ size \in Nat
  /\ perms \in SUBSET Perms /\ type \in Types /\ backed \in BOOLEAN
  /\ MayInsert(r, t, base, size)
  /\ \/ parent = Nil
     \/ /\ parent \in Used(r) /\ r[parent].base = base /\ r[parent].size = size
        /\ perms \subseteq r[parent].perms /\ ~backed
  /\ backed => \A y \in Used(r) : r[y].backed => ~overlaps(r[y].base, r[y].size, base, size)

OneMore(r, r2, t, base, size, backed) ==
  \E z \in Records \ Used(r) :
    /\ Used(r2) = Used(r) \cup {z} /\ r2[z].holder = t
    /\ r2[z].base = base /\ r2[z].size = size /\ r2[z].backed = backed

LEMMA Inserts ==
  ASSUME NEW r, NEW t, NEW base, NEW size, NEW perms, NEW type, NEW backed, NEW parent,
         MayAdd(r, t, base, size, perms, type, backed, parent),
         NEW r2, r2 = ulmk_area_insert(r, t, base, size, perms, type, backed, parent)
  PROVE  Grows(r, r2) /\ OneMore(r, r2, t, base, size, backed)
<1> DEFINE a == [holder |-> t, parent |-> parent, base |-> base, size |-> size,
                 perms |-> perms, type |-> type, backed |-> backed]
           B == Records \ Used(r)
           z == CHOOSE x \in B : \A y \in B : x <= y
<1>0. /\ r \in [Records -> AreaRecords] /\ Used(r) \subseteq Records /\ t # Nil /\ Forest(r)
      /\ t \in Threads /\ base \in Int /\ size \in Nat
      /\ perms \in SUBSET Perms /\ type \in Types /\ backed \in BOOLEAN
      /\ MayInsert(r, t, base, size)
  BY NameAssumption DEF Forest, Used, MayAdd
<1>1. z \in B
  <2>1. B \in SUBSET Nat /\ B # {}
    BY <1>0, MemoryAssumption DEF MayInsert
  <2>2. \E x \in B : \A y \in B : x <= y
    <3> HIDE DEF B
    <3> QED
      BY <2>1, LeastOf
  <2> HIDE DEF B
  <2> QED
    BY <2>2
<1>2. r2 = [r EXCEPT ![z] = a]
  BY DEF ulmk_area_insert
<1>3. parent \in Records \cup {Nil}
  BY <1>0 DEF MayAdd
<1>4. /\ a \in AreaRecords /\ a.holder = t /\ a.parent = parent /\ a.base = base /\ a.size = size
      /\ a.perms = perms /\ a.backed = backed
  BY <1>0, <1>3 DEF AreaRecords
<1> HIDE DEF z, a
<1>5. /\ r2 \in [Records -> AreaRecords] /\ r2[z] = a
      /\ \A x \in Records : x # z => r2[x] = r[x]
  BY <1>0, <1>1, <1>2, <1>4
<1>6. Used(r2) = Used(r) \cup {z}
  <2>1. size > 0
    BY <1>0 DEF MayInsert
  <2> QED
    BY <1>1, <1>4, <1>5, <2>1 DEF Used
<1>7. Blank(r2)
  BY <1>0, <1>5, <1>6 DEF Blank, Forest
<1>8. parent # Nil => parent \in Used(r) /\ Derived(r2, z, parent)
  <2> SUFFICES ASSUME parent # Nil
               PROVE  parent \in Used(r) /\ Derived(r2, z, parent)
    OBVIOUS
  <2>1. /\ parent \in Used(r) /\ r[parent].base = base /\ r[parent].size = size
        /\ perms \subseteq r[parent].perms /\ ~backed
    BY DEF MayAdd
  <2>2. r2[parent] = r[parent] /\ parent \in Used(r2)
    BY <1>0, <1>1, <1>5, <1>6, <2>1
  <2>3. ~r2[z].backed
    BY <1>4, <1>5, <2>1
  <2> QED
    BY <1>4, <1>5, <2>1, <2>2, <2>3 DEF Derived
<1>9. ASSUME NEW y \in Used(r2) \ {z}, r2[y].holder = t \/ (backed /\ r2[y].backed)
      PROVE  Apart(r2, z, y)
  <2>1. y \in Used(r) /\ r2[y] = r[y] /\ r[y] \in AreaRecords
    BY <1>0, <1>5, <1>6
  <2>2. ~overlaps(r[y].base, r[y].size, base, size)
    BY <1>0, <1>9, <2>1 DEF MayInsert, Held, MayAdd
  <2> QED
    BY <1>0, <1>4, <1>5, <2>1, <2>2 DEF Apart, overlaps, AreaRecords
<1>10. Grows(r, r2)
  <2>1. \A x \in Used(r) : r2[x] = r[x]
    BY <1>0, <1>1, <1>5
  <2>2. Used(r2) \ Used(r) = {z}
    BY <1>1, <1>6
  <2> QED
    BY <1>0, <1>4, <1>5, <1>7, <1>8, <1>9, <2>1, <2>2 DEF Grows
<1> QED
  BY <1>1, <1>4, <1>5, <1>6, <1>10 DEF OneMore

(* Numbering the members of a set by a key: every number below its size is  *)
(* somebody's.                                                              *)
RankBy(T, key) == [x \in T |-> Cardinality({y \in T : key[y] < key[x]})]

LEMMA Ranks ==
  ASSUME NEW T, IsFiniteSet(T), NEW key \in [T -> Int], \A x, y \in T : key[x] = key[y] => x = y
  PROVE  /\ \A x, y \in T : RankBy(T, key)[x] = RankBy(T, key)[y] => x = y
         /\ \A k \in 0 .. Cardinality(T) - 1 : \E x \in T : RankBy(T, key)[x] = k
<1> DEFINE low(x) == {y \in T : key[y] < key[x]}
           N == Cardinality(T)
           rank == RankBy(T, key)
<1>1. N \in Nat
  BY FS_CardinalityType
<1>2. ASSUME NEW x \in T
      PROVE  IsFiniteSet(low(x)) /\ rank[x] \in 0 .. N - 1 /\ rank[x] = Cardinality(low(x))
  <2>1. low(x) \in SUBSET T
    OBVIOUS
  <2>2. /\ IsFiniteSet(low(x)) /\ Cardinality(low(x)) <= N
        /\ Cardinality(T) = Cardinality(low(x)) => T = low(x)
    <3> HIDE DEF low, N
    <3>1. /\ IsFiniteSet(low(x)) /\ Cardinality(low(x)) <= Cardinality(T)
          /\ Cardinality(T) = Cardinality(low(x)) => T = low(x)
      BY <2>1, FS_Subset
    <3> QED
      BY <3>1 DEF N
  <2>3. x \notin low(x)
    OBVIOUS
  <2>4. Cardinality(low(x)) \in Nat
    BY <2>2, FS_CardinalityType
  <2>5. rank[x] = Cardinality(low(x))
    BY DEF RankBy
  <2> HIDE DEF low, rank
  <2> QED
    BY <1>1, <2>2, <2>3, <2>4, <2>5
<1>5. rank \in [T -> 0 .. N - 1]
  BY <1>2 DEF RankBy
<1> HIDE DEF low, N, rank
<1>3. ASSUME NEW x \in T, NEW y \in T, key[x] < key[y]
      PROVE  rank[x] < rank[y]
  <2>1. low(x) \in SUBSET low(y) /\ x \in low(y) /\ x \notin low(x)
    BY <1>3 DEF low
  <2>2. IsFiniteSet(low(y)) /\ rank[x] = Cardinality(low(x)) /\ rank[y] = Cardinality(low(y))
        /\ rank[x] \in Int /\ rank[y] \in Int
    BY <1>2, <1>1
  <2>3. /\ Cardinality(low(x)) <= Cardinality(low(y))
        /\ Cardinality(low(y)) = Cardinality(low(x)) => low(x) = low(y)
    BY <2>1, <2>2, FS_Subset
  <2> QED
    BY <2>1, <2>2, <2>3
<1>4. ASSUME NEW x \in T, NEW y \in T, rank[x] = rank[y]
      PROVE  x = y
  <2>1. rank[x] \in Int /\ rank[y] \in Int
    BY <1>1, <1>2
  <2>2. ~(key[x] < key[y]) /\ ~(key[y] < key[x])
    BY <1>3, <1>4, <2>1
  <2> QED
    BY <2>2
<1>6. rank \in Injection(T, 0 .. N - 1)
  BY <1>4, <1>5 DEF Injection, IsInjective
<1>7. IsFiniteSet(0 .. N - 1) /\ Cardinality(0 .. N - 1) = N
  <2>1. 0 \in Int /\ N - 1 \in Int
    BY <1>1
  <2> QED
    BY <1>1, <2>1, FS_Interval
<1>8. rank \in Surjection(T, 0 .. N - 1)
  BY <1>6, <1>7, FS_Injection DEF N
<1>9. \A k \in 0 .. N - 1 : \E x \in T : rank[x] = k
  BY <1>8 DEF Surjection
<1> QED
  BY <1>4, <1>9 DEF N, rank

(* What a spawn gives the new thread: an alias of areas of its parent, each *)
(* at most once.                                                            *)
LEMMA Inherits ==
  ASSUME NEW r, Forest(r), NEW dst \in Threads, NEW src \in Threads, Held(r, dst) = {},
         NEW r2, r2 = ulmk_area_inherit(r, dst, src)
  PROVE  Grows(r, r2) /\ \A z \in Used(r2) \ Used(r) : r2[z].holder = dst /\ ~r2[z].backed
<1> DEFINE held == Held(r, src)
           free == Records \ Used(r)
           turn(x) == Cardinality({y \in held : r[y].base < r[x].base})
           place(z) == Cardinality({y \in free : y < z})
           from(z) == CHOOSE x \in held : turn(x) = place(z)
           taken == {z \in free : place(z) < Cardinality(held)}
           alias(z) == [r[from(z)] EXCEPT !.holder = dst, !.parent = from(z), !.backed = FALSE]
<1>0. /\ r \in [Records -> AreaRecords] /\ Used(r) \subseteq Records /\ dst # Nil /\ src # Nil
      /\ IsFiniteSet(Records) /\ Records \subseteq Nat
  BY NameAssumption, MemoryAssumption DEF Forest, Used
<1>1. r2 = [z \in Records |-> IF z \in taken THEN alias(z) ELSE r[z]]
  BY DEF ulmk_area_inherit
<1>2. /\ held \subseteq Used(r) /\ IsFiniteSet(held) /\ IsFiniteSet(free)
      /\ \A x \in held : r[x].holder = src /\ r[x].base \in Int
  <2>1. held \subseteq Used(r) /\ \A x \in held : r[x].holder = src /\ r[x].base \in Int
    BY <1>0 DEF Held, AreaRecords
  <2>2. held \in SUBSET Records /\ free \in SUBSET Records
    BY <1>0, <2>1
  <2> HIDE DEF held, free
  <2> QED
    BY <1>0, <2>1, <2>2, FS_Subset
<1>3. \A k \in 0 .. Cardinality(held) - 1 : \E x \in held : turn(x) = k
  <2> DEFINE key == [x \in held |-> r[x].base]
             rank == RankBy(held, key)
  <2>1. key \in [held -> Int]
    BY <1>2
  <2>2. ASSUME NEW x \in held, NEW y \in held, key[x] = key[y]
        PROVE  x = y
    <3> SUFFICES ASSUME x # y
                 PROVE  FALSE
      OBVIOUS
    <3>1. /\ x \in Used(r) /\ y \in Used(r) /\ r[x].holder = r[y].holder /\ r[x].holder # Nil
          /\ r[x].base = r[y].base
      BY <1>0, <1>2, <2>2
    <3>2. Apart(r, x, y)
      BY <3>1 DEF Forest, Disjoint
    <3>3. r[x].size > 0 /\ r[y].size > 0 /\ r[x].base \in Int /\ r[x].size \in Nat /\ r[y].size \in Nat
      BY <1>0, <1>2, <3>1, UsedRecord DEF AreaRecords
    <3> HIDE DEF held, key
    <3> QED
      BY <3>1, <3>2, <3>3 DEF Apart, overlaps
  <2>3. \A x \in held : rank[x] = turn(x)
    <3> SUFFICES ASSUME NEW x \in held
                 PROVE  {y \in held : key[y] < key[x]} = {y \in held : r[y].base < r[x].base}
      BY DEF RankBy
    <3> QED
      OBVIOUS
  <2>4. \A k \in 0 .. Cardinality(held) - 1 : \E x \in held : rank[x] = k
    <3> HIDE DEF held, key
    <3> QED
      BY <1>2, <2>1, <2>2, Ranks
  <2> HIDE DEF held, rank, turn
  <2> QED
    BY <2>3, <2>4
<1>4. ASSUME NEW y \in free, NEW z \in free, place(y) = place(z)
      PROVE  y = z
  <2> DEFINE key == [x \in free |-> x]
             rank == RankBy(free, key)
  <2>1. key \in [free -> Int] /\ \A v, w \in free : key[v] = key[w] => v = w
    <3>1. ASSUME NEW v \in free
          PROVE  v \in Int
      <4>1. v \in Records /\ Records \subseteq Nat
        BY <1>0
      <4>2. v \in Nat
        BY <4>1
      <4> QED
        BY <4>2
    <3> HIDE DEF free
    <3> QED
      BY <3>1
  <2>2. \A x \in free : rank[x] = place(x)
    <3> SUFFICES ASSUME NEW x \in free
                 PROVE  {w \in free : key[w] < key[x]} = {w \in free : w < x}
      BY DEF RankBy
    <3> QED
      OBVIOUS
  <2>3. \A v, w \in free : rank[v] = rank[w] => v = w
    <3> HIDE DEF free, key
    <3> QED
      BY <1>2, <2>1, Ranks
  <2> HIDE DEF free, rank, place
  <2> QED
    BY <1>4, <2>2, <2>3
<1>5. ASSUME NEW z \in taken
      PROVE  from(z) \in held /\ turn(from(z)) = place(z)
  <2>1. z \in free /\ place(z) < Cardinality(held)
    OBVIOUS
  <2>2. place(z) \in Nat
    <3>1. {y \in free : y < z} \in SUBSET free
      OBVIOUS
    <3>2. IsFiniteSet({y \in free : y < z})
      BY <1>2, <3>1, FS_Subset
    <3> QED
      BY <3>2, FS_CardinalityType
  <2>3. Cardinality(held) \in Nat
    BY <1>2, FS_CardinalityType
  <2> HIDE DEF held, free, turn, place, taken
  <2>4. \E x \in held : turn(x) = place(z)
    BY <1>3, <2>1, <2>2, <2>3
  <2> QED
    BY <2>4
<1>6. ASSUME NEW y \in taken, NEW z \in taken, from(y) = from(z)
      PROVE  y = z
  <2>1. y \in free /\ z \in free
    OBVIOUS
  <2>2. place(y) = place(z)
    <3> HIDE DEF taken, turn, place, from
    <3> QED
      BY <1>5, <1>6
  <2> HIDE DEF free, taken, place
  <2> QED
    BY <1>4, <2>1, <2>2
<1>7. taken \subseteq Records \ Used(r)
  OBVIOUS
<1> HIDE DEF held, free, turn, place, from, taken
<1>8. ASSUME NEW z \in taken
      PROVE  /\ from(z) \in Used(r) /\ r[from(z)].holder = src /\ from(z) \in Records
             /\ alias(z) \in AreaRecords /\ alias(z).holder = dst /\ alias(z).parent = from(z)
             /\ alias(z).base = r[from(z)].base /\ alias(z).size = r[from(z)].size
             /\ alias(z).perms = r[from(z)].perms /\ alias(z).backed = FALSE
  <2>1. from(z) \in Used(r) /\ r[from(z)].holder = src /\ from(z) \in Records
    BY <1>0, <1>2, <1>5
  <2>2. r[from(z)] \in AreaRecords
    BY <1>0, <2>1
  <2> QED
    BY <2>1, <2>2 DEF AreaRecords
<1> HIDE DEF alias
<1>9. /\ r2 \in [Records -> AreaRecords]
      /\ \A z \in taken : r2[z] = alias(z)
      /\ \A z \in Records \ taken : r2[z] = r[z]
  BY <1>0, <1>1, <1>7, <1>8
<1>10. Used(r2) = Used(r) \cup taken
  <2>1. \A z \in taken : alias(z).size > 0
    BY <1>0, <1>8, UsedRecord
  <2> QED
    BY <1>7, <1>9, <2>1 DEF Used
<1>11. Blank(r2)
  BY <1>9, <1>10 DEF Blank, Forest
<1>12. \A x \in Used(r) : r2[x] = r[x]
  BY <1>0, <1>7, <1>9
<1>13. ASSUME NEW z \in taken
       PROVE  /\ r2[z].parent \in Used(r) /\ Derived(r2, z, r2[z].parent)
              /\ r2[z].holder = dst /\ ~r2[z].backed
  <2>1. /\ r2[z] = alias(z) /\ r2[z].parent = from(z) /\ from(z) \in Used(r)
        /\ r2[from(z)] = r[from(z)] /\ from(z) \in Used(r2)
    BY <1>8, <1>9, <1>10, <1>12
  <2>2. ~r2[z].backed
    BY <1>8, <2>1
  <2>3. Derived(r2, z, from(z))
    BY <1>8, <2>1, <2>2 DEF Derived
  <2> QED
    BY <1>8, <2>1, <2>2, <2>3
<1>14. ASSUME NEW z \in taken, NEW y \in Used(r2) \ {z}, r2[y].holder = dst
       PROVE  Apart(r2, z, y)
  <2>1. y \in taken
    <3> SUFFICES ASSUME y \in Used(r)
                 PROVE  FALSE
      BY <1>10
    <3> QED
      BY <1>12, <1>14 DEF Held
  <2>2. from(y) # from(z)
    BY <1>6, <2>1
  <2>3. Apart(r, from(z), from(y))
    BY <1>0, <1>8, <2>1, <2>2 DEF Forest, Disjoint
  <2> QED
    BY <1>8, <1>9, <2>1, <2>3 DEF Apart
<1>15. Used(r2) \ Used(r) = taken
  BY <1>7, <1>10
<1> QED
  BY <1>0, <1>9, <1>11, <1>12, <1>13, <1>14, <1>15 DEF Grows

-----------------------------------------------------------------------------
(* Windows.                                                                 *)

LEMMA DivMod ==
  ASSUME NEW a \in Int, NEW g \in Nat \ {0}
  PROVE  \E q \in Int, m \in 0 .. g - 1 : q = a \div g /\ m = a % g /\ a = g * q + m
<1>1. PICK q \in Int : q = a \div g
  OBVIOUS
<1>2. PICK m \in 0 .. g - 1 : m = a % g
  OBVIOUS
<1>3. a = (a \div g) * g + (a % g)
  BY Z3T(30)
<1>4. a = q * g + m
  BY <1>1, <1>2, <1>3
<1>5. a = g * q + m
  BY <1>4
<1> QED
  BY <1>1, <1>2, <1>5

LEMMA Whole ==
  ASSUME NEW q \in Int, NEW g \in Nat \ {0}
  PROVE  (g * q) % g = 0
OBVIOUS

(* x is on a boundary of g granules.                                        *)
On(x, g) == \E q \in Int : x = g * q

LEMMA OnBoundary ==
  ASSUME NEW x \in Int, NEW g \in Nat \ {0}
  PROVE  On(x, g) <=> x % g = 0
<1>1. PICK q \in Int, m \in 0 .. g - 1 : q = x \div g /\ m = x % g /\ x = g * q + m
  BY DivMod
<1>2. ASSUME x % g = 0
      PROVE  On(x, g)
  <2>1. m = 0
    BY <1>1, <1>2
  <2>2. x = g * q
    BY <1>1, <2>1
  <2> QED
    BY <2>2 DEF On
<1>3. ASSUME On(x, g)
      PROVE  x % g = 0
  BY <1>3, Whole DEF On
<1> QED
  BY <1>2, <1>3

LEMMA OnDifference ==
  ASSUME NEW x \in Int, NEW y \in Int, NEW g \in Nat \ {0}, On(x, g), On(y, g)
  PROVE  On(x - y, g) /\ On(x + y, g)
<1>1. PICK p \in Int : x = g * p
  BY DEF On
<1>2. PICK q \in Int : y = g * q
  BY DEF On
<1>3. x - y = g * (p - q) /\ x + y = g * (p + q) /\ p - q \in Int /\ p + q \in Int
  BY <1>1, <1>2
<1> QED
  BY <1>3 DEF On

LEMMA OnMultiple ==
  ASSUME NEW x \in Int, NEW s \in Nat, NEW g \in Nat \ {0}, On(x, s), On(s, g)
  PROVE  On(x, g)
<1>1. PICK p \in Int : x = s * p
  BY DEF On
<1>2. PICK q \in Int : s = g * q
  BY DEF On
<1>3. x = g * (q * p) /\ q * p \in Int
  BY <1>1, <1>2
<1> QED
  BY <1>3 DEF On

LEMMA DownProps ==
  ASSUME NEW x \in Int, NEW g \in Nat \ {0}
  PROVE  Down(x, g) \in Int /\ On(Down(x, g), g) /\ Down(x, g) <= x /\ x < Down(x, g) + g
<1>1. PICK q \in Int, m \in 0 .. g - 1 : q = x \div g /\ m = x % g /\ x = g * q + m
  BY DivMod
<1>2. Down(x, g) = g * q /\ g * q \in Int
  BY <1>1 DEF Down
<1>3. g * q <= x /\ x < g * q + g
  BY <1>1, <1>2
<1>4. On(g * q, g)
  BY <1>2 DEF On
<1> QED
  BY <1>2, <1>3, <1>4

LEMMA UpProps ==
  ASSUME NEW x \in Int, NEW g \in Nat \ {0}
  PROVE  Up(x, g) \in Int /\ On(Up(x, g), g) /\ x <= Up(x, g) /\ Up(x, g) < x + g
<1>1. x + g - 1 \in Int
  OBVIOUS
<1>2. /\ Down(x + g - 1, g) \in Int /\ On(Down(x + g - 1, g), g) /\ Down(x + g - 1, g) <= x + g - 1
      /\ x + g - 1 < Down(x + g - 1, g) + g
  BY <1>1, DownProps
<1> QED
  BY <1>2 DEF Up

LEMMA GreatestOf ==
  ASSUME NEW n \in Nat, NEW B \in SUBSET (1 .. n), B # {}
  PROVE  Max(B) \in B
<1> DEFINE C == {n - b : b \in B}
<1>1. C \in SUBSET Nat /\ C # {}
  <2>1. ASSUME NEW b \in B
        PROVE  n - b \in Nat
    OBVIOUS
  <2>2. PICK b \in B : TRUE
    OBVIOUS
  <2> QED
    BY <2>1, <2>2
<1>2. PICK c \in C : \A d \in C : c <= d
  <2> HIDE DEF C
  <2> QED
    BY <1>1, LeastOf
<1>3. PICK b \in B : c = n - b
  OBVIOUS
<1>4. \A d \in B : b >= d
  BY <1>2, <1>3
<1>5. \E x \in B : \A y \in B : x >= y
  BY <1>4
<1> QED
  BY <1>5 DEF Max

(* One fault's window lies in the area and can be encoded.                  *)
Encodable(w) ==
  /\ w.base % build.min = 0 /\ w.size % build.min = 0
  /\ build.pow2 => w.base % w.size = 0

LEMMA WindowFits ==
  ASSUME build \in Builds, NEW a \in AreaRecords, NEW addr \in Int,
         NEW w, w = ulmk_area_window(a, addr), w # NoWindow
  PROVE  /\ w.base \in Int /\ w.size \in Nat /\ Encodable(w)
         /\ w.base .. w.base + w.size - 1 \subseteq Cells(a)
<1> DEFINE m == build.min
<1>0. /\ m \in Nat \ {0} /\ build.pow2 \in BOOLEAN /\ build.max \in Nat /\ build.max % m = 0
      /\ a.base \in Int /\ a.size \in Nat
  BY BuildAssumption DEF AreaRecords
<1> HIDE DEF m
<1>1. ASSUME build.pow2
      PROVE  /\ w.base \in Int /\ w.size \in Nat /\ Encodable(w)
             /\ a.base <= w.base /\ w.base + w.size <= a.base + a.size
  <2> DEFINE block(s) == Down(addr, s)
             fits(s) == s <= a.size /\ a.base <= block(s) /\ block(s) - a.base <= a.size - s
             sizes == {s \in 1 .. a.size : s % build.min = 0 /\ PowerOfTwo(s \div build.min) /\ fits(s)}
             s == Max(sizes)
  <2>1. w = (IF ~fits(build.min) THEN NoWindow ELSE [base |-> block(s), size |-> s])
    BY <1>1 DEF ulmk_area_window, WindowPow2
  <2>2. fits(m) /\ w = [base |-> block(s), size |-> s]
    BY <2>1 DEF m
  <2>3. m \in sizes
    <3>1. m \in 1 .. a.size /\ m % m = 0 /\ m \div m = 1
      BY <1>0, <2>2
    <3>2. PowerOfTwo(1)
      BY DEF PowerOfTwo
    <3> QED
      BY <2>2, <3>1, <3>2 DEF m
  <2>4. sizes \in SUBSET (1 .. a.size) /\ sizes # {}
    BY <2>3
  <2>5. s \in sizes
    <3> HIDE DEF sizes
    <3> QED
      BY <1>0, <2>4, GreatestOf
  <2>6. s \in 1 .. a.size /\ s % m = 0 /\ fits(s)
    BY <2>5 DEF m
  <2> HIDE DEF s
  <2>7. s \in Nat \ {0} /\ s \in Nat
    BY <1>0, <2>6
  <2>8. block(s) \in Int /\ On(block(s), s)
    BY <2>7, DownProps
  <2>9. On(s, m) /\ On(block(s), m)
    BY <1>0, <2>6, <2>7, <2>8, OnBoundary, OnMultiple
  <2>10. block(s) % m = 0 /\ block(s) % s = 0
    BY <1>0, <2>7, <2>8, <2>9, OnBoundary
  <2>11. w.base = block(s) /\ w.size = s
    BY <2>2
  <2>12. a.base <= block(s) /\ block(s) + s <= a.base + a.size
    BY <1>0, <2>6, <2>7, <2>8
  <2> HIDE DEF block
  <2> QED
    BY <2>6, <2>7, <2>8, <2>10, <2>11, <2>12 DEF Encodable, m
<1>2. ASSUME ~build.pow2
      PROVE  /\ w.base \in Int /\ w.size \in Nat /\ Encodable(w)
             /\ a.base <= w.base /\ w.base + w.size <= a.base + a.size
  <2> DEFINE lo == Up(a.base, m)
             hi == Down(a.base + a.size, m)
             from == Down(addr, m)
             clip == build.max > 0 /\ hi - lo > build.max
  <2>1. w = (IF addr < lo \/ addr >= hi THEN NoWindow
             ELSE IF ~clip THEN [base |-> lo, size |-> hi - lo]
             ELSE [base |-> from, size |-> IF hi - from > build.max THEN build.max ELSE hi - from])
    BY <1>2 DEF ulmk_area_window, WindowRange, m
  <2>2. /\ lo \in Int /\ On(lo, m) /\ a.base <= lo
        /\ hi \in Int /\ On(hi, m) /\ hi <= a.base + a.size
        /\ from \in Int /\ On(from, m) /\ from <= addr /\ addr < from + m
    <3>1. a.base + a.size \in Int
      BY <1>0
    <3> QED
      BY <1>0, <3>1, UpProps, DownProps
  <2> HIDE DEF lo, hi, from
  <2>3. ~(addr < lo) /\ ~(addr >= hi) /\ w # NoWindow
    BY <2>1
  <2>4. lo <= addr /\ addr < hi
    BY <2>2, <2>3
  <2>5. CASE ~clip
    <3>1. w.base = lo /\ w.size = hi - lo
      BY <2>1, <2>3, <2>5
    <3>2. On(hi - lo, m) /\ hi - lo \in Nat
      BY <1>0, <2>2, <2>4, OnDifference
    <3>3. lo % m = 0 /\ (hi - lo) % m = 0
      BY <1>0, <2>2, <3>2, OnBoundary
    <3> QED
      BY <1>0, <1>2, <2>2, <3>1, <3>2, <3>3 DEF Encodable, m
  <2>6. CASE clip
    <3>1. w.base = from /\ w.size = IF hi - from > build.max THEN build.max ELSE hi - from
      BY <2>1, <2>3, <2>6
    <3>2. On(hi - from, m) /\ hi - from \in Nat /\ hi - from \in Int
      BY <1>0, <2>2, <2>4, OnDifference
    <3>3. from % m = 0 /\ (hi - from) % m = 0
      BY <1>0, <2>2, <3>2, OnBoundary
    <3>4. a.base <= from
      <4>1. lo <= from
        <5>1. PICK p \in Int : lo = m * p
          BY <2>2 DEF On
        <5>2. PICK q \in Int : from = m * q
          BY <2>2 DEF On
        <5>3. m * p < m * q + m
          BY <1>0, <2>2, <2>4, <5>1, <5>2
        <5>4. CASE p <= q
          BY <1>0, <5>1, <5>2, <5>4
        <5>5. CASE q + 1 <= p
          <6>1. m * (q + 1) <= m * p
            BY <1>0, <5>5
          <6> QED
            BY <1>0, <5>3, <6>1
        <5> QED
          BY <5>4, <5>5
      <4> QED
        BY <1>0, <2>2, <4>1
    <3>5. w.size \in Nat /\ w.size % m = 0 /\ w.size <= hi - from
      BY <1>0, <2>2, <3>1, <3>2, <3>3
    <3> QED
      BY <1>0, <1>2, <2>2, <3>1, <3>3, <3>4, <3>5 DEF Encodable, m
  <2> QED
    BY <2>5, <2>6
<1>3. /\ w.base \in Int /\ w.size \in Nat /\ Encodable(w)
      /\ a.base <= w.base /\ w.base + w.size <= a.base + a.size
  BY <1>0, <1>1, <1>2
<1>4. ASSUME NEW c \in w.base .. w.base + w.size - 1
      PROVE  c \in a.base .. a.base + a.size - 1
  BY <1>0, <1>3
<1> QED
  BY <1>3, <1>4 DEF Cells

-----------------------------------------------------------------------------
(* The invariant.                                                           *)

BlockOf(a) == [base |-> a.base, size |-> a.size]
BlocksOf(r) == {BlockOf(r[x]) : x \in {y \in Used(r) : r[y].backed}}

HoldersExist == \A x \in Used(rec) : rec[x].holder \in alive \cup {Nil}

CpuInv ==
  /\ build \in Builds /\ alive \subseteq Threads /\ cur \in alive \cup {Idle}
  /\ owner = IF cur = Idle THEN Nil ELSE cur
  /\ IsFiniteSet(live) /\ Cardinality(live) <= MaxLive

AreaInv ==
  /\ Forest(rec) /\ NoOrphan(rec) /\ HoldersExist /\ blocks = BlocksOf(rec)
  /\ CpuInv /\ WindowsAuthorised

LEMMA Running ==
  ASSUME AreaInv, cur # Idle
  PROVE  cur \in Threads /\ cur \in alive /\ cur # Nil
BY NameAssumption DEF AreaInv, CpuInv

(* The windows of the running thread stay good while its areas stay.        *)
LEMMA WindowsKept ==
  ASSUME WindowsAuthorised, cur' = cur, build' = build, live' \subseteq live,
         cur # Idle => \A x \in Held(rec, cur) : rec'[x] = rec[x]
  PROVE  WindowsAuthorised'
<1> SUFFICES ASSUME cur # Idle, NEW w \in live'
             PROVE  /\ \E x \in Held(rec', cur) : /\ w.perms = rec'[x].perms
                                                  /\ w.base .. w.base + w.size - 1 \subseteq Cells(rec'[x])
                    /\ w.base % build.min = 0 /\ w.size % build.min = 0
                    /\ build.pow2 => w.base % w.size = 0
  BY DEF WindowsAuthorised
<1>1. PICK x \in Held(rec, cur) : /\ w.perms = rec[x].perms
                                  /\ w.base .. w.base + w.size - 1 \subseteq Cells(rec[x])
  BY DEF WindowsAuthorised
<1>2. x \in Held(rec', cur) /\ rec'[x] = rec[x]
  BY DEF Held, Used
<1>3. /\ w.base % build.min = 0 /\ w.size % build.min = 0
      /\ build.pow2 => w.base % w.size = 0
  BY DEF WindowsAuthorised
<1> QED
  BY <1>1, <1>2, <1>3

(* A mapping, a grant, a spawn.                                             *)
LEMMA GrowStep ==
  ASSUME AreaInv, Grows(rec, rec'), blocks' = BlocksOf(rec'), UNCHANGED <<build, cur, owner, live>>,
         alive \subseteq alive', alive' \subseteq Threads,
         \A z \in Used(rec') \ Used(rec) : rec'[z].holder \in alive'
  PROVE  AreaInv'
<1>1. Forest(rec') /\ NoOrphan(rec')
  BY GrowthKeepsForest, GrowthKeepsOrphans DEF AreaInv
<1>2. HoldersExist'
  BY DEF AreaInv, HoldersExist, Grows
<1>3. WindowsAuthorised'
  BY WindowsKept DEF AreaInv, Grows, Held
<1>4. CpuInv'
  BY DEF AreaInv, CpuInv
<1> QED
  BY <1>1, <1>2, <1>3, <1>4 DEF AreaInv

LEMMA BlocksGrow ==
  ASSUME NEW r, NEW r2, Grows(r, r2), \A z \in Used(r2) \ Used(r) : ~r2[z].backed
  PROVE  BlocksOf(r2) = BlocksOf(r)
<1>1. Used(r) \subseteq Used(r2) /\ \A x \in Used(r) : r2[x] = r[x]
  BY GrownUsed DEF Grows
<1>2. {y \in Used(r2) : r2[y].backed} = {y \in Used(r) : r[y].backed}
  BY <1>1
<1> QED
  BY <1>1, <1>2 DEF BlocksOf

(* The backing of records that go, and only that, goes with them.           *)
LEMMA BlocksShed ==
  ASSUME NEW r, NEW r2, Forest(r), Sheds(r, r2)
  PROVE  BlocksOf(r2) =
           BlocksOf(r) \ {BlockOf(r[x]) : x \in {y \in Used(r) \ Used(r2) : r[y].backed}}
<1>0. r \in [Records -> AreaRecords]
  BY DEF Forest
<1>1. \A x \in Used(r2) : /\ x \in Used(r) /\ r2[x].backed = r[x].backed
                          /\ BlockOf(r2[x]) = BlockOf(r[x])
  BY <1>0, ShedRecord DEF BlockOf
<1>2. ASSUME NEW x \in Used(r), NEW y \in Used(r), r[x].backed, r[y].backed, x # y
      PROVE  BlockOf(r[x]) # BlockOf(r[y])
  <2>1. Apart(r, x, y)
    BY <1>2 DEF Forest, OneOwner
  <2>2. /\ r[x].size > 0 /\ r[y].size > 0 /\ r[x].base \in Int /\ r[y].base \in Int
        /\ r[x].size \in Nat /\ r[y].size \in Nat
    BY <1>0, UsedRecord DEF AreaRecords
  <2>3. r[x].base # r[y].base
    BY <2>1, <2>2 DEF Apart, overlaps
  <2> QED
    BY <2>3 DEF BlockOf
<1>3. ASSUME NEW b \in BlocksOf(r2)
      PROVE  b \in BlocksOf(r) \ {BlockOf(r[x]) : x \in {y \in Used(r) \ Used(r2) : r[y].backed}}
  <2>1. PICK x \in Used(r2) : r2[x].backed /\ b = BlockOf(r2[x])
    BY DEF BlocksOf
  <2>2. x \in Used(r) /\ r[x].backed /\ b = BlockOf(r[x])
    BY <1>1, <2>1
  <2>3. ASSUME NEW y \in Used(r) \ Used(r2), r[y].backed, b = BlockOf(r[y])
        PROVE  FALSE
    BY <1>2, <2>1, <2>2, <2>3
  <2> QED
    BY <2>2, <2>3 DEF BlocksOf
<1>4. ASSUME NEW b \in BlocksOf(r), b \notin {BlockOf(r[x]) : x \in {y \in Used(r) \ Used(r2) : r[y].backed}}
      PROVE  b \in BlocksOf(r2)
  <2>1. PICK x \in Used(r) : r[x].backed /\ b = BlockOf(r[x])
    BY DEF BlocksOf
  <2>2. x \in Used(r2)
    BY <1>4, <2>1
  <2>3. r2[x].backed /\ b = BlockOf(r2[x])
    BY <1>1, <2>1, <2>2
  <2> QED
    BY <2>2, <2>3 DEF BlocksOf
<1> QED
  BY <1>3, <1>4

(* An unmapping, a revocation, a kill: who loses an area loses its windows. *)
LEMMA SettleStep ==
  ASSUME AreaInv, NEW r2, Sheds(rec, r2), NoOrphan(r2), Settle(r2), UNCHANGED <<build, cur, owner>>,
         alive' \subseteq alive, cur \in alive' \cup {Idle},
         \A x \in Used(r2) : r2[x].holder \in alive' \cup {Nil}
  PROVE  AreaInv'
<1> DEFINE lost == {rec[x].holder : x \in {y \in Used(rec) : rec[y].holder # r2[y].holder}}
<1>0. /\ rec \in [Records -> AreaRecords] /\ Used(rec) \subseteq Records /\ Forest(rec)
      /\ WindowsAuthorised /\ CpuInv /\ blocks = BlocksOf(rec)
  BY DEF AreaInv, Forest, Used
<1>1. /\ rec' = r2
      /\ blocks' = blocks \ {BlockOf(rec[x]) : x \in {y \in {z \in Used(rec) : z \notin Used(r2)} : rec[y].backed}}
      /\ live' = IF cur \in lost THEN {} ELSE live
  BY DEF Settle, BlockOf
<1>2. Forest(rec') /\ NoOrphan(rec')
  BY <1>0, <1>1, SheddingKeepsForest
<1>3. HoldersExist'
  BY <1>1 DEF HoldersExist
<1>4. blocks' = BlocksOf(rec')
  <2>1. {z \in Used(rec) : z \notin Used(r2)} = Used(rec) \ Used(r2)
    OBVIOUS
  <2> QED
    BY <1>0, <1>1, <2>1, BlocksShed
<1>5. live' \subseteq live
  BY <1>1
<1>6. WindowsAuthorised'
  <2>1. CASE cur \in lost
    BY <1>1, <2>1 DEF WindowsAuthorised
  <2>2. CASE cur \notin lost
    <3>1. ASSUME cur # Idle, NEW x \in Held(rec, cur)
          PROVE  rec'[x] = rec[x]
      <4>1. x \in Used(rec) /\ rec[x].holder = cur /\ cur # Nil
        BY <3>1, Running DEF Held
      <4>2. r2[x].holder = cur
        BY <2>2, <4>1
      <4> QED
        BY <1>0, <1>1, <4>1, <4>2, KeptRecord
    <3> QED
      BY <1>0, <1>5, <3>1, WindowsKept
  <2> QED
    BY <2>1, <2>2
<1>7. CpuInv'
  <2>1. IsFiniteSet(live') /\ Cardinality(live') <= MaxLive
    BY <1>0, <1>1, FS_EmptySet, MemoryAssumption DEF CpuInv
  <2> QED
    BY <1>0, <2>1 DEF CpuInv
<1> QED
  BY <1>2, <1>3, <1>4, <1>6, <1>7 DEF AreaInv

-----------------------------------------------------------------------------
(* Every handler keeps the invariant.                                       *)

LEMMA Found ==
  ASSUME NEW S, Pick(S) # Nil
  PROVE  Pick(S) \in S
BY DEF Pick

LEMMA FoundBase ==
  ASSUME NEW t, NEW addr, NEW x, x = ulmk_area_find_base(rec, t, addr), x # Nil
  PROVE  x \in Used(rec) /\ rec[x].holder = t /\ rec[x].base = addr
<1>1. x \in {y \in Held(rec, t) : rec[y].base = addr}
  BY Found DEF ulmk_area_find_base
<1> QED
  BY <1>1 DEF Held

LEMMA MapAnonInv ==
  ASSUME AreaInv, NEW len \in Lengths, NEW perms \in Rights, mem_map_anon(len, perms)
  PROVE  AreaInv'
<1> DEFINE size == Up(len, build.align)
<1>0. /\ Forest(rec) /\ cur \in Threads /\ cur \in alive /\ alive \subseteq Threads
      /\ blocks = BlocksOf(rec) /\ perms \in SUBSET Perms
  BY Running, RightsAssumption DEF mem_map_anon, AreaInv, CpuInv
<1>1. PICK base \in Arena :
        /\ \A b \in blocks : ~overlaps(b.base, b.size, base, size)
        /\ MayInsert(rec, cur, base, size)
        /\ rec' = ulmk_area_insert(rec, cur, base, size, perms, "heap", TRUE, Nil)
        /\ blocks' = blocks \cup {[base |-> base, size |-> size]}
  BY DEF mem_map_anon
<1>2. base \in Int /\ size \in Nat
  <2>1. base \in Int /\ len \in Int /\ build.align \in Nat \ {0}
    BY MemoryAssumption, BuildAssumption DEF AreaInv, CpuInv
  <2>2. size \in Int
    BY <2>1, UpProps
  <2> HIDE DEF size
  <2> QED
    BY <1>1, <2>1, <2>2 DEF MayInsert
<1> HIDE DEF size
<1>3. \A y \in Used(rec) : rec[y].backed => ~overlaps(rec[y].base, rec[y].size, base, size)
  <2> SUFFICES ASSUME NEW y \in Used(rec), rec[y].backed
               PROVE  ~overlaps(rec[y].base, rec[y].size, base, size)
    OBVIOUS
  <2>1. BlockOf(rec[y]) \in blocks
    BY <1>0 DEF BlocksOf
  <2>2. BlockOf(rec[y]).base = rec[y].base /\ BlockOf(rec[y]).size = rec[y].size
    BY DEF BlockOf
  <2> QED
    BY <1>1, <2>1, <2>2
<1>4. "heap" \in Types /\ TRUE \in BOOLEAN
  BY DEF Types
<1>5. Grows(rec, rec') /\ OneMore(rec, rec', cur, base, size, TRUE)
  <2>1. MayAdd(rec, cur, base, size, perms, "heap", TRUE, Nil)
    BY <1>0, <1>1, <1>2, <1>3, <1>4 DEF MayAdd
  <2> QED
    BY <1>1, <2>1, Inserts
<1>6. PICK z \in Records \ Used(rec) :
        Used(rec') = Used(rec) \cup {z} /\ rec'[z].base = base /\ rec'[z].size = size
          /\ rec'[z].backed = TRUE /\ rec'[z].holder = cur
  BY <1>5 DEF OneMore
<1>7. blocks' = BlocksOf(rec')
  <2>1. \A x \in Used(rec) : rec'[x] = rec[x]
    BY <1>5 DEF Grows
  <2>2. {y \in Used(rec') : rec'[y].backed} = {y \in Used(rec) : rec[y].backed} \cup {z}
    <3>1. rec'[z].backed
      BY <1>6
    <3> QED
      BY <1>6, <2>1, <3>1
  <2>3. BlockOf(rec'[z]) = [base |-> base, size |-> size]
    BY <1>6 DEF BlockOf
  <2>4. BlocksOf(rec') = BlocksOf(rec) \cup {BlockOf(rec'[z])}
    BY <2>1, <2>2 DEF BlocksOf
  <2> QED
    BY <1>0, <1>1, <2>3, <2>4
<1>8. UNCHANGED <<build, alive, cur, owner, live>>
  BY DEF mem_map_anon
<1> QED
  BY <1>0, <1>5, <1>6, <1>7, <1>8, GrowStep

LEMMA MapHintInv ==
  ASSUME AreaInv, NEW h \in Hints, NEW perms \in Rights, mem_map_hint(h, "periph", perms)
  PROVE  AreaInv'
<1>0. /\ Forest(rec) /\ cur \in Threads /\ cur \in alive /\ alive \subseteq Threads
      /\ blocks = BlocksOf(rec) /\ perms \in SUBSET Perms /\ h.base \in Int /\ h.size \in Nat
      /\ "periph" \in Types /\ FALSE \in BOOLEAN
  BY Running, RightsAssumption, MemoryAssumption DEF mem_map_hint, AreaInv, CpuInv, Types
<1>1. /\ MayInsert(rec, cur, h.base, h.size)
      /\ rec' = ulmk_area_insert(rec, cur, h.base, h.size, perms, "periph", FALSE, Nil)
      /\ UNCHANGED <<build, blocks, alive, cur, owner, live>>
  BY DEF mem_map_hint
<1>2. Grows(rec, rec') /\ OneMore(rec, rec', cur, h.base, h.size, FALSE)
  <2>1. MayAdd(rec, cur, h.base, h.size, perms, "periph", FALSE, Nil)
    BY <1>0, <1>1 DEF MayAdd
  <2> QED
    BY <1>1, <2>1, Inserts
<1>3. \A z \in Used(rec') \ Used(rec) : ~rec'[z].backed /\ rec'[z].holder = cur
  BY <1>2 DEF OneMore
<1>4. BlocksOf(rec') = BlocksOf(rec)
  BY <1>2, <1>3, BlocksGrow
<1> QED
  BY <1>0, <1>1, <1>2, <1>3, <1>4, GrowStep

LEMMA GrantInv ==
  ASSUME AreaInv, NEW addr, NEW target \in Threads, NEW perms \in Rights,
         ulmk_kern_mem_grant(addr, target, perms)
  PROVE  AreaInv'
<1> DEFINE x == ulmk_area_find_base(rec, cur, addr)
           type == GrantType(rec[x].type)
           given == perms \cap rec[x].perms
<1>0. Forest(rec) /\ rec \in [Records -> AreaRecords] /\ alive \subseteq Threads /\ blocks = BlocksOf(rec)
  BY DEF AreaInv, CpuInv, Forest
<1>1. /\ target \in alive /\ x # Nil
      /\ MayInsert(rec, target, rec[x].base, rec[x].size)
      /\ rec' = ulmk_area_insert(rec, target, rec[x].base, rec[x].size, given, type, FALSE, x)
      /\ UNCHANGED <<build, blocks, alive, cur, owner, live>>
  BY DEF ulmk_kern_mem_grant
<1>2. x \in Used(rec) /\ x \in Records
  BY <1>1, FoundBase DEF Used
<1> HIDE DEF x
<1>3. /\ rec[x].base \in Int /\ rec[x].size \in Nat /\ given \in SUBSET Perms
      /\ given \subseteq rec[x].perms /\ type \in Types /\ FALSE \in BOOLEAN
  BY <1>0, <1>2, RightsAssumption DEF AreaRecords, GrantType, Types
<1> HIDE DEF given, type
<1>4. Grows(rec, rec') /\ OneMore(rec, rec', target, rec[x].base, rec[x].size, FALSE)
  <2>1. MayAdd(rec, target, rec[x].base, rec[x].size, given, type, FALSE, x)
    BY <1>0, <1>1, <1>2, <1>3 DEF MayAdd
  <2> QED
    BY <1>1, <2>1, Inserts
<1>5. \A z \in Used(rec') \ Used(rec) : ~rec'[z].backed /\ rec'[z].holder = target
  BY <1>4 DEF OneMore
<1>6. BlocksOf(rec') = BlocksOf(rec)
  BY <1>4, <1>5, BlocksGrow
<1> QED
  BY <1>0, <1>1, <1>4, <1>5, <1>6, GrowStep

(* Revoking a record of anybody: the invariant stays, and who loses an area *)
(* had it from the revoked one.                                             *)
LEMMA RevokeInv ==
  ASSUME AreaInv, NEW a \in Used(rec), Settle(ulmk_area_revoke(rec, a)),
         UNCHANGED <<build, alive, cur, owner>>
  PROVE  /\ AreaInv'
         /\ \A x \in Used(rec) : rec[x].holder # Nil /\ rec'[x].holder # rec[x].holder
                                   => x = a \/ a \in Ancestors(rec, x)
<1> DEFINE r2 == ulmk_area_revoke(rec, a)
<1>1. /\ Sheds(rec, r2) /\ NoOrphan(r2)
      /\ \A x \in Used(rec) : rec[x].holder # Nil /\ r2[x].holder # rec[x].holder
                                => x = a \/ a \in Ancestors(rec, x)
  BY Revokes DEF AreaInv
<1>2. Settle(r2) /\ rec' = r2
  BY DEF Settle
<1> HIDE DEF r2
<1>3. \A x \in Used(r2) : r2[x].holder \in alive \cup {Nil}
  BY <1>1, ShedRecord DEF AreaInv, HoldersExist, Forest
<1>4. alive' = alive /\ cur \in alive \cup {Idle}
  BY DEF AreaInv, CpuInv
<1>5. AreaInv'
  BY <1>1, <1>2, <1>3, <1>4, SettleStep
<1> QED
  BY <1>1, <1>2, <1>5

LEMMA SpawnInv ==
  ASSUME AreaInv, NEW th \in Threads, NEW inherit \in BOOLEAN, ulmk_kern_thread_spawn(th, inherit)
  PROVE  AreaInv' /\ \A x \in Used(rec) : rec'[x] = rec[x]
<1> DEFINE got == IF inherit THEN ulmk_area_inherit(rec, th, cur) ELSE rec
           ok == inherit => Cardinality(Held(rec, cur)) <= Cardinality(Records \ Used(rec))
<1>0. /\ Forest(rec) /\ NoOrphan(rec) /\ cur \in Threads /\ th \notin alive /\ alive \subseteq Threads
      /\ blocks = BlocksOf(rec) /\ UNCHANGED <<build, blocks, cur, owner, live>>
  BY Running DEF ulmk_kern_thread_spawn, AreaInv, CpuInv
<1>1. Held(rec, th) = {}
  BY <1>0, NameAssumption DEF AreaInv, HoldersExist, Held
<1>2. Grows(rec, got) /\ \A z \in Used(got) \ Used(rec) : got[z].holder = th /\ ~got[z].backed
  <2>1. CASE inherit
    <3>1. got = ulmk_area_inherit(rec, th, cur)
      BY <2>1
    <3> HIDE DEF got
    <3> QED
      BY <1>0, <1>1, <3>1, Inherits
  <2>2. CASE ~inherit
    BY <1>0, <2>2 DEF Grows, Forest
  <2> QED
    BY <2>1, <2>2
<1>3. \/ ok /\ rec' = got /\ alive' = alive \cup {th}
      \/ ~ok /\ rec' = ulmk_area_set_release(got, th) /\ alive' = alive
  BY DEF ulmk_kern_thread_spawn
<1> HIDE DEF got, ok
<1>4. CASE rec' = got /\ alive' = alive \cup {th}
  <2>1. Grows(rec, rec') /\ \A z \in Used(rec') \ Used(rec) : rec'[z].holder = th /\ ~rec'[z].backed
    BY <1>2, <1>4
  <2>2. BlocksOf(rec') = BlocksOf(rec)
    BY <2>1, BlocksGrow
  <2>3. AreaInv'
    BY <1>0, <1>4, <2>1, <2>2, GrowStep
  <2> QED
    BY <2>1, <2>3 DEF Grows
<1>5. CASE rec' = ulmk_area_set_release(got, th) /\ alive' = alive
  <2>1. rec' = rec
    BY <1>0, <1>1, <1>2, <1>5, ReleaseUndoes
  <2>2. vars' = vars
    BY <1>0, <1>5, <2>1 DEF vars
  <2>3. AreaInv'
    BY <2>2 DEF vars, AreaInv, CpuInv, HoldersExist, WindowsAuthorised
  <2> QED
    BY <2>1, <2>3
<1> QED
  BY <1>3, <1>4, <1>5

(* Loading another thread's protection.                                     *)
LEMMA SwitchedCpu ==
  ASSUME AreaInv, NEW th, th # cur, th \in alive' \cup {Idle}, alive' \subseteq Threads,
         build' = build, mpu_switch(th)
  PROVE  CpuInv' /\ WindowsAuthorised'
<1>1. /\ cur' = th /\ owner' = (IF th = Idle THEN Nil ELSE th)
      /\ live' = IF th \in {Idle, owner} THEN live ELSE {}
  BY DEF mpu_switch
<1>2. th # Idle => live' = {}
  BY <1>1, NameAssumption DEF AreaInv, CpuInv
<1>3. IsFiniteSet(live') /\ Cardinality(live') <= MaxLive
  BY <1>1, FS_EmptySet, MemoryAssumption DEF AreaInv, CpuInv
<1>4. CpuInv'
  BY <1>1, <1>3 DEF AreaInv, CpuInv
<1>5. WindowsAuthorised'
  BY <1>1, <1>2 DEF WindowsAuthorised
<1> QED
  BY <1>4, <1>5

LEMMA DispatchInv ==
  ASSUME AreaInv, NEW th \in alive \cup {Idle}, Dispatch(th)
  PROVE  AreaInv' /\ rec' = rec
<1>1. th # cur /\ mpu_switch(th) /\ UNCHANGED <<build, rec, blocks, alive>> /\ alive \subseteq Threads
  BY DEF Dispatch, AreaInv, CpuInv
<1>2. CpuInv' /\ WindowsAuthorised'
  BY <1>1, SwitchedCpu
<1> QED
  BY <1>1, <1>2 DEF AreaInv, HoldersExist

LEMMA KillInv ==
  ASSUME AreaInv, NEW th \in alive, Kill(th)
  PROVE  AreaInv' /\ \A x \in Used(rec) : rec[x].holder \notin {th, Nil} => rec'[x] = rec[x]
<1> DEFINE r2 == ulmk_area_set_release(rec, th)
<1>0. /\ th \in Threads /\ th # cur /\ alive' = alive \ {th} /\ Settle(r2)
      /\ UNCHANGED <<build, cur, owner>> /\ Used(rec) \subseteq Records
  BY DEF Kill, AreaInv, CpuInv, Used
<1>1. /\ Sheds(rec, r2) /\ NoOrphan(r2) /\ Held(r2, th) = {}
      /\ \A x \in Records : rec[x].holder \notin {th, Nil} => r2[x] = rec[x]
  BY <1>0, SetReleases DEF AreaInv
<1> HIDE DEF r2
<1>2. \A x \in Used(r2) : r2[x].holder \in alive' \cup {Nil}
  <2>1. \A x \in Used(r2) : r2[x].holder \in alive \cup {Nil}
    BY <1>1, ShedRecord DEF AreaInv, HoldersExist, Forest
  <2> QED
    BY <1>0, <1>1, <2>1 DEF Held
<1>3. cur \in alive' \cup {Idle} /\ rec' = r2
  BY <1>0 DEF AreaInv, CpuInv, Settle
<1>4. AreaInv'
  BY <1>0, <1>1, <1>2, <1>3, SettleStep
<1> QED
  BY <1>0, <1>1, <1>3, <1>4

LEMMA ExitInv ==
  ASSUME AreaInv, NEW next, Exit(next)
  PROVE  AreaInv' /\ \A x \in Used(rec) : rec[x].holder \notin {cur, Nil} => rec'[x] = rec[x]
<1> DEFINE r2 == ulmk_area_set_release(rec, cur)
<1>0. /\ cur \in Threads /\ next \in (alive \ {cur}) \cup {Idle} /\ alive' = alive \ {cur}
      /\ rec' = r2 /\ mpu_switch(next) /\ build' = build /\ Used(rec) \subseteq Records
      /\ alive' \subseteq Threads /\ cur # Idle
      /\ blocks' = blocks \ {BlockOf(rec[x]) : x \in {y \in Used(rec) \ Used(r2) : rec[y].backed}}
  BY Running DEF Exit, AreaInv, CpuInv, Used, BlockOf
<1>1. /\ Sheds(rec, r2) /\ NoOrphan(r2) /\ Held(r2, cur) = {}
      /\ \A x \in Records : rec[x].holder \notin {cur, Nil} => r2[x] = rec[x]
  BY <1>0, SetReleases DEF AreaInv
<1> HIDE DEF r2
<1>2. Forest(rec') /\ NoOrphan(rec')
  BY <1>0, <1>1, SheddingKeepsForest DEF AreaInv
<1>3. HoldersExist'
  <2>1. \A x \in Used(r2) : r2[x].holder \in alive \cup {Nil}
    BY <1>1, ShedRecord DEF AreaInv, HoldersExist, Forest
  <2> QED
    BY <1>0, <1>1, <2>1 DEF Held, HoldersExist
<1>4. blocks' = BlocksOf(rec')
  BY <1>0, <1>1, BlocksShed DEF AreaInv
<1>5. CpuInv' /\ WindowsAuthorised'
  BY <1>0, SwitchedCpu
<1> QED
  BY <1>0, <1>1, <1>2, <1>3, <1>4, <1>5 DEF AreaInv

LEMMA FaultInv ==
  ASSUME AreaInv, NEW addr \in Int, NEW access, ulmk_kern_mem_fault(addr, access)
  PROVE  AreaInv'
<1> DEFINE x == ulmk_area_find(rec, cur, addr)
           w == ulmk_area_window(rec[x], addr)
           win == [base |-> w.base, size |-> w.size, perms |-> rec[x].perms]
<1>1. /\ cur # Idle /\ x # Nil /\ w # NoWindow
      /\ \E kept \in SUBSET live : /\ Cardinality(kept) = Min({MaxLive - 1, Cardinality(live)})
                                   /\ live' = kept \cup {win}
      /\ UNCHANGED <<build, rec, blocks, alive, cur, owner>>
  BY DEF ulmk_kern_mem_fault
<1>2. PICK kept \in SUBSET live : /\ Cardinality(kept) = Min({MaxLive - 1, Cardinality(live)})
                                  /\ live' = kept \cup {win}
  BY <1>1
<1>3. x \in Held(rec, cur) /\ rec[x] \in AreaRecords
  <2>1. x \in {y \in Held(rec, cur) : addr \in Cells(rec[y])}
    BY <1>1, Found DEF ulmk_area_find
  <2> QED
    BY <2>1 DEF Held, Used, AreaInv, Forest
<1>4. /\ w.base \in Int /\ w.size \in Nat /\ Encodable(w)
      /\ w.base .. w.base + w.size - 1 \subseteq Cells(rec[x])
  <2>1. build \in Builds
    BY DEF AreaInv, CpuInv
  <2> HIDE DEF x
  <2> QED
    BY <1>1, <1>3, <2>1, WindowFits
<1> HIDE DEF x, w
<1>5. win.base = w.base /\ win.size = w.size /\ win.perms = rec[x].perms
  OBVIOUS
<1> HIDE DEF win
<1>6. WindowsAuthorised'
  <2> SUFFICES ASSUME NEW v \in live'
               PROVE  /\ \E y \in Held(rec, cur) : /\ v.perms = rec[y].perms
                                                   /\ v.base .. v.base + v.size - 1 \subseteq Cells(rec[y])
                      /\ v.base % build.min = 0 /\ v.size % build.min = 0
                      /\ build.pow2 => v.base % v.size = 0
    BY <1>1 DEF WindowsAuthorised
  <2>1. CASE v \in live
    BY <1>1, <2>1 DEF AreaInv, WindowsAuthorised
  <2>2. CASE v = win
    BY <1>3, <1>4, <1>5, <2>2 DEF Encodable
  <2> QED
    BY <1>2, <2>1, <2>2
<1>7. IsFiniteSet(live') /\ Cardinality(live') <= MaxLive
  <2>1. IsFiniteSet(live) /\ Cardinality(live) \in Nat /\ Cardinality(live) <= MaxLive
    BY FS_CardinalityType DEF AreaInv, CpuInv
  <2>2. IsFiniteSet(kept) /\ Cardinality(kept) \in Nat
    BY <2>1, FS_Subset, FS_CardinalityType
  <2>3. MaxLive \in Nat \ {0}
    BY MemoryAssumption
  <2>4. Cardinality(kept) <= MaxLive - 1
    <3>1. ASSUME NEW a \in Int, NEW b \in Int
          PROVE  Min({a, b}) <= a
      <4>1. \E m \in {a, b} : \A n \in {a, b} : m <= n
        <5>1. CASE a <= b
          BY <5>1
        <5>2. CASE b <= a
          BY <5>2
        <5> QED
          BY <5>1, <5>2
      <4> QED
        BY <4>1 DEF Min
    <3> QED
      BY <1>2, <2>1, <2>3, <3>1
  <2>5. /\ IsFiniteSet(kept \cup {win})
        /\ Cardinality(kept \cup {win}) = IF win \in kept THEN Cardinality(kept) ELSE Cardinality(kept) + 1
    BY <2>2, FS_AddElement
  <2> QED
    BY <1>2, <2>2, <2>3, <2>4, <2>5
<1>8. CpuInv'
  BY <1>1, <1>7 DEF AreaInv, CpuInv
<1> QED
  BY <1>1, <1>6, <1>8 DEF AreaInv, HoldersExist

(* A new record takes none that is in use.                                  *)
LEMMA InsertsApart ==
  ASSUME AreaInv, NEW t, NEW base, NEW size, NEW perms, NEW type, NEW backed, NEW parent,
         MayInsert(rec, t, base, size),
         rec' = ulmk_area_insert(rec, t, base, size, perms, type, backed, parent)
  PROVE  \A x \in Used(rec) : rec'[x] = rec[x]
<1> DEFINE B == Records \ Used(rec)
           z == CHOOSE x \in B : \A y \in B : x <= y
           a == [holder |-> t, parent |-> parent, base |-> base, size |-> size,
                 perms |-> perms, type |-> type, backed |-> backed]
<1>1. B \in SUBSET Nat /\ B # {} /\ Used(rec) \subseteq Records /\ rec \in [Records -> AreaRecords]
  BY MemoryAssumption DEF MayInsert, Used, AreaInv, Forest
<1>2. rec' = [rec EXCEPT ![z] = a]
  BY DEF ulmk_area_insert
<1>3. z \in B
  <2> HIDE DEF B
  <2>1. \E x \in B : \A y \in B : x <= y
    BY <1>1, LeastOf
  <2> QED
    BY <2>1
<1> HIDE DEF z, a
<1> QED
  BY <1>1, <1>2, <1>3

-----------------------------------------------------------------------------
(* What the areas promise.                                                  *)

LEMMA InitAreas == Init => AreaInv
<1> SUFFICES ASSUME Init
             PROVE  AreaInv
  OBVIOUS
<1>1. /\ rec = [x \in Records |-> NoArea] /\ build \in Builds /\ blocks = {} /\ cur = Idle
      /\ owner = Nil /\ live = {} /\ alive \subseteq Threads
  BY DEF Init
<1>2. Used(rec) = {} /\ rec \in [Records -> AreaRecords]
  BY <1>1, BlankIsBlank DEF Used
<1>3. Forest(rec) /\ NoOrphan(rec) /\ HoldersExist
  BY <1>1, <1>2 DEF Forest, Blank, Rooted, Acyclic, Disjoint, OneOwner, NoOrphan, HoldersExist
<1>4. blocks = BlocksOf(rec)
  BY <1>1, <1>2 DEF BlocksOf
<1>5. CpuInv /\ WindowsAuthorised
  BY <1>1, FS_EmptySet, MemoryAssumption DEF CpuInv, WindowsAuthorised
<1> QED
  BY <1>3, <1>4, <1>5 DEF AreaInv

(* Whoever loses an area did it, died, or had it from one of the running    *)
(* thread's.                                                                *)
LostBelow ==
  \A x \in Used(rec) : LET h == rec[x].holder IN
    h # Nil /\ h # cur /\ rec'[x].holder # h /\ h \in alive'
      => \E a \in Ancestors(rec, x) : rec[a].holder = cur

LEMMA Unmaps ==
  ASSUME AreaInv, NEW addr, ulmk_kern_mem_unmap(addr)
  PROVE  AreaInv' /\ LostBelow
<1> DEFINE a == ulmk_area_find_base(rec, cur, addr)
<1>1. /\ cur # Idle /\ a # Nil /\ Settle(ulmk_area_revoke(rec, a))
      /\ UNCHANGED <<build, alive, cur, owner>>
  BY DEF ulmk_kern_mem_unmap
<1>2. a \in Used(rec) /\ rec[a].holder = cur
  BY <1>1, FoundBase
<1> HIDE DEF a
<1>3. /\ AreaInv'
      /\ \A x \in Used(rec) : rec[x].holder # Nil /\ rec'[x].holder # rec[x].holder
                                => x = a \/ a \in Ancestors(rec, x)
  BY <1>1, <1>2, RevokeInv
<1> QED
  BY <1>2, <1>3 DEF LostBelow

LEMMA TakesBack ==
  ASSUME AreaInv, NEW addr, NEW target, ulmk_kern_mem_revoke(addr, target)
  PROVE  AreaInv' /\ LostBelow
<1> DEFINE a == ulmk_area_find_base(rec, cur, addr)
           t == ulmk_area_find_base(rec, target, addr)
<1>1. /\ a # Nil /\ t # Nil /\ a \in Ancestors(rec, t) /\ Settle(ulmk_area_revoke(rec, t))
      /\ UNCHANGED <<build, alive, cur, owner>>
  BY DEF ulmk_kern_mem_revoke
<1>2. rec[a].holder = cur /\ t \in Used(rec)
  BY <1>1, FoundBase
<1> HIDE DEF a, t
<1>3. /\ AreaInv'
      /\ \A x \in Used(rec) : rec[x].holder # Nil /\ rec'[x].holder # rec[x].holder
                                => x = t \/ t \in Ancestors(rec, x)
  BY <1>1, <1>2, RevokeInv
<1>4. \A x : t \in Ancestors(rec, x) => a \in Ancestors(rec, x)
  BY <1>1, AncestorsTransitive
<1> QED
  BY <1>1, <1>2, <1>3, <1>4 DEF LostBelow

LEMMA AreaStep ==
  ASSUME AreaInv, [Next]_vars
  PROVE  AreaInv' /\ [LostBelow]_vars
<1>1. ASSUME NEW len \in Lengths, NEW p \in Rights, mem_map_anon(len, p)
      PROVE  AreaInv' /\ LostBelow
  <2>1. AreaInv'
    BY <1>1, MapAnonInv
  <2>2. \A x \in Used(rec) : rec'[x] = rec[x]
    <3>1. PICK base \in Arena : LET size == Up(len, build.align) IN
            /\ MayInsert(rec, cur, base, size)
            /\ rec' = ulmk_area_insert(rec, cur, base, size, p, "heap", TRUE, Nil)
      BY <1>1 DEF mem_map_anon
    <3> QED
      BY <3>1, InsertsApart
  <2> QED
    BY <2>1, <2>2 DEF LostBelow
<1>2. ASSUME NEW h \in Hints, NEW p \in Rights, mem_map_hint(h, "periph", p)
      PROVE  AreaInv' /\ LostBelow
  <2>1. AreaInv'
    BY <1>2, MapHintInv
  <2>2. \A x \in Used(rec) : rec'[x] = rec[x]
    BY <1>2, InsertsApart DEF mem_map_hint
  <2> QED
    BY <2>1, <2>2 DEF LostBelow
<1>3. ASSUME NEW x \in Used(rec), NEW th \in Threads, NEW p \in Rights,
             ulmk_kern_mem_grant(rec[x].base, th, p)
      PROVE  AreaInv' /\ LostBelow
  <2>1. AreaInv'
    BY <1>3, GrantInv
  <2>2. \A y \in Used(rec) : rec'[y] = rec[y]
    BY <1>3, InsertsApart DEF ulmk_kern_mem_grant
  <2> QED
    BY <2>1, <2>2 DEF LostBelow
<1>4. ASSUME NEW x \in Used(rec), ulmk_kern_mem_unmap(rec[x].base)
      PROVE  AreaInv' /\ LostBelow
  BY <1>4, Unmaps
<1>5. ASSUME NEW x \in Used(rec), NEW th \in Threads, ulmk_kern_mem_revoke(rec[x].base, th)
      PROVE  AreaInv' /\ LostBelow
  BY <1>5, TakesBack
<1>6. ASSUME NEW x \in Used(rec), NEW addr \in Cells(rec[x]), NEW p \in Rights,
             ulmk_kern_mem_fault(addr, p)
      PROVE  AreaInv' /\ LostBelow
  <2>1. addr \in Int
    BY DEF Cells, AreaInv, Forest, AreaRecords, Used
  <2>2. AreaInv' /\ rec' = rec
    BY <1>6, <2>1, FaultInv DEF ulmk_kern_mem_fault
  <2> QED
    BY <2>2 DEF LostBelow
<1>7. ASSUME NEW th \in Threads, NEW inherit \in BOOLEAN, ulmk_kern_thread_spawn(th, inherit)
      PROVE  AreaInv' /\ LostBelow
  BY <1>7, SpawnInv DEF LostBelow
<1>8. ASSUME NEW th \in alive \cup {Idle}, Dispatch(th)
      PROVE  AreaInv' /\ LostBelow
  BY <1>8, DispatchInv DEF LostBelow
<1>9. ASSUME NEW th \in alive, Kill(th)
      PROVE  AreaInv' /\ LostBelow
  <2>1. AreaInv' /\ \A x \in Used(rec) : rec[x].holder \notin {th, Nil} => rec'[x] = rec[x]
    BY <1>9, KillInv
  <2>2. th \notin alive'
    BY <1>9 DEF Kill
  <2> QED
    BY <2>1, <2>2 DEF LostBelow
<1>10. ASSUME NEW th \in alive \cup {Idle}, Exit(th)
       PROVE  AreaInv' /\ LostBelow
  <2>1. AreaInv' /\ \A x \in Used(rec) : rec[x].holder \notin {cur, Nil} => rec'[x] = rec[x]
    BY <1>10, ExitInv
  <2> QED
    BY <2>1 DEF LostBelow
<1>11. CASE UNCHANGED vars
  BY <1>11 DEF vars, AreaInv, CpuInv, HoldersExist, WindowsAuthorised
<1>12. CASE Next
  BY <1>12, <1>1, <1>2, <1>3, <1>4, <1>5, <1>6, <1>7, <1>8, <1>9, <1>10 DEF Next
<1> QED
  BY <1>11, <1>12

(* Through every sequence of mappings, grants, revocations, spawns, deaths, *)
(* switches and faults the records are a forest, its blocks are taken from  *)
(* the heap once, and the live windows are the running thread's.            *)
THEOREM AreaInvariant == Spec => []AreaInv
<1>1. AreaInv /\ [Next]_vars => AreaInv'
  BY AreaStep
<1> QED
  BY <1>1, InitAreas, PTL DEF Spec

(* Areas of a thread never overlap, only threads that exist hold any, and a *)
(* derived area lies in a chain of existing records with its range and at   *)
(* least its rights (ulmk_area_insert, ulmk_area_revoke, release_up and     *)
(* ulmk_area_inherit).                                                      *)
THEOREM AreasStaySound == Spec => []AreasSound
<1>1. AreaInv => AreasSound
  <2> SUFFICES ASSUME AreaInv
               PROVE  AreasSound
    OBVIOUS
  <2>1. rec \in [Records -> AreaRecords]
    BY DEF AreaInv, Forest
  <2>2. TypeOK
    <3>1. \A x \in Used(rec) : /\ rec[x].holder \in Threads \cup {Nil}
                               /\ rec[x].parent \in Records \cup {Nil}
                               /\ rec[x].perms \subseteq Perms /\ rec[x].backed \in BOOLEAN
      BY <2>1, UsedRecord DEF AreaRecords
    <3> QED
      BY <3>1 DEF AreaInv, CpuInv, TypeOK
  <2>3. SetsDisjoint
    BY DEF AreaInv, Forest, Disjoint, Apart, HoldersExist, SetsDisjoint
  <2>4. DerivationSound
    BY DEF AreaInv, Forest, Rooted, Acyclic, Derived, DerivationSound
  <2> QED
    BY <2>2, <2>3, <2>4 DEF AreasSound
<1> QED
  BY <1>1, AreaInvariant, PTL

(* A block of the heap is taken exactly while one origin record stands for  *)
(* it: none is leaked, freed twice or freed under an alias (mem_map,        *)
(* release_up and mem_settle).                                              *)
THEOREM BackingsExact == Spec => []BackingExact
<1>1. AreaInv => BackingExact
  <2> SUFFICES ASSUME AreaInv
               PROVE  BackingExact
    OBVIOUS
  <2> DEFINE own == {y \in Used(rec) : rec[y].backed}
             f == [x \in own |-> BlockOf(rec[x])]
  <2>0. rec \in [Records -> AreaRecords] /\ Forest(rec)
    BY DEF AreaInv, Forest
  <2>1. blocks = {BlockOf(rec[x]) : x \in own}
    BY DEF AreaInv, BlocksOf
  <2>2. IsFiniteSet(own)
    <3>1. own \in SUBSET Records
      BY DEF Used
    <3> HIDE DEF own
    <3> QED
      BY <3>1, FS_Subset, MemoryAssumption
  <2>3. f \in Surjection(own, blocks)
    BY <2>1 DEF Surjection
  <2>4. ASSUME NEW x \in own, NEW y \in own, f[x] = f[y]
        PROVE  x = y
    <3> SUFFICES ASSUME x # y
                 PROVE  FALSE
      OBVIOUS
    <3>1. Apart(rec, x, y)
      BY DEF AreaInv, Forest, OneOwner
    <3>2. rec[x].base = rec[y].base
      BY <2>4 DEF BlockOf
    <3>3. /\ rec[x].size > 0 /\ rec[y].size > 0 /\ rec[x].base \in Int
          /\ rec[x].size \in Nat /\ rec[y].size \in Nat
      BY <2>0, UsedRecord DEF AreaRecords
    <3> HIDE DEF f, own
    <3> QED
      BY <3>1, <3>2, <3>3 DEF Apart, overlaps
  <2>5. f \in Injection(own, blocks)
    BY <2>3, <2>4 DEF Injection, IsInjective, Surjection
  <2> HIDE DEF own, f
  <2>6. Cardinality(blocks) = Cardinality(own)
    BY <2>2, <2>3, <2>5, FS_Surjection
  <2>7. \A x \in Used(rec) : rec[x].holder = Nil => Kids(rec, x) # {}
    BY DEF AreaInv, NoOrphan
  <2> QED
    BY <2>1, <2>6, <2>7 DEF BackingExact, BlockOf, own
<1> QED
  BY <1>1, AreaInvariant, PTL

(* What the protection unit lets the running thread use beyond its static   *)
(* map lies inside areas it holds now, with their rights: a revocation, an  *)
(* unmapping, a death or a switch leaves no stale window                    *)
(* (ulmk_area_window, ulmk_kern_area_dropped, ulmk_sched_mpu_switch).       *)
THEOREM WindowsStayAuthorised == Spec => []WindowsAuthorised
<1>1. AreaInv => WindowsAuthorised
  BY DEF AreaInv
<1> QED
  BY <1>1, AreaInvariant, PTL

(* No thread that goes on living loses an area but by its own act or that   *)
(* of a thread holding an area it was derived from (ulmk_kern_mem_revoke,   *)
(* ulmk_area_revoke, ulmk_area_set_release).                                *)
THEOREM OnlyAncestorsTakeBack == Spec => OnlyAncestorsRevoke
<1>1. AreaInv /\ [Next]_vars => [LostBelow]_vars
  BY AreaStep
<1>2. [LostBelow]_vars =>
        [\A x \in Used(rec) : LET h == rec[x].holder IN
           h # Nil /\ h # cur /\ rec'[x].holder # h /\ h \in alive'
             => \E a \in Ancestors(rec, x) : rec[a].holder = cur]_vars
  BY DEF LostBelow
<1> QED
  BY <1>1, <1>2, AreaInvariant, PTL DEF Spec, OnlyAncestorsRevoke
=============================================================================
