---------------------------- MODULE CJsonHeapProofs ----------------------------
(* The heap of cJSON.c, for any number of items and names: what it is for a heap  *)
(* to be sound, and that the assignments of the library keep it so; what they do  *)
(* to its lists; and that Compare and Value, both recursive, are what they say.   *)
EXTENDS CJson, FiniteSetTheorems, SequenceTheorems, WellFoundedInduction, TLAPS

Live(h, gone) == {c \in Cells : h[c].type # "free"} \ gone

\* p owns x through its child pointer.
Kid(h, p, x) == ~h[p].ref /\ h[p].child = x

\* What R leads to without references is in R.
Closed(h, R) ==
    \A x \in R : h[x].next \in R \cup {NULL} /\ (h[x].ref \/ h[x].child \in R \cup {NULL})

-----------------------------------------------------------------------------
(* A heap h is sound for the lost items gone, when home tells the parent in whose  *)
(* list an item is, fresh are the items of the call at work, tops have no owner    *)
(* but the caller or that call, and the lists of the items in open are not yet     *)
(* closed: their first item does not know the last one.                            *)

Shape(h, gone, home, fresh, tops, open) ==
    /\ h \in [Cells -> Items]
    /\ home \in [Cells -> Pointers]
    /\ gone \subseteq Cells /\ fresh \subseteq Live(h, gone) /\ tops \subseteq Live(h, gone)

CellsInv(h, gone) ==
    /\ \A c \in Cells : h[c].type = "free" => h[c] = Unused
    /\ \A c \in gone : h[c].type # "free" /\ h[c].ref /\ h[c].next = NULL
    /\ \A c \in Live(h, gone) :
           {h[c].next, h[c].prev, h[c].child} \subseteq Live(h, gone) \cup {NULL}

HomeInv(h, gone, home) ==
    /\ \A c \in Cells : home[c] # NULL => c \in Live(h, gone) /\ home[c] \in Live(h, gone)
    /\ \A p, c \in Cells : Kid(h, p, c) => home[c] = p /\ \A y \in Cells : h[y].next # c
    /\ \A y, z \in Cells : h[y].next = z => home[z] = home[y] /\ h[z].prev = y

TopsInv(h, home, tops, open) ==
    \A t \in tops :
        /\ \A y \in Cells : h[y].next # t /\ ~Kid(h, y, t)
        /\ h[t].prev = NULL
        /\ home[t] # NULL => home[t] \in open

\* The first item of a list knows the last one.
LastInv(h, home, open) ==
    \A p, c \in Cells :
        Kid(h, p, c) /\ p \notin open =>
            h[c].prev # NULL /\ home[h[c].prev] = p /\ h[h[c].prev].next = NULL

\* The live items are what the tops lead to.
Founded(h, gone, tops) ==
    \A R \in SUBSET Cells : Closed(h, R) /\ tops \subseteq R => Live(h, gone) \subseteq R

NamesInv(h, home) ==
    /\ \A x \in Cells : home[x] # NULL =>
           (h[home[x]].type = "object" => h[x].key # NULL)
    /\ \A p \in Cells : h[p].type \in Scalars => h[p].child = NULL

\* A reference points to the children of an item of its type, never to unfinished work.
RefsInv(h, gone, fresh) ==
    \A r \in Live(h, gone) : h[r].ref /\ h[r].child # NULL =>
        /\ r \notin fresh /\ h[r].child \notin fresh
        /\ \E q \in Cells : Kid(h, q, h[r].child) /\ h[q].type = h[r].type

FreshInv(h, fresh) ==
    \A x, y \in Cells : h[x].next = y \/ Kid(h, x, y) => (x \in fresh <=> y \in fresh)

Sound(h, gone, home, fresh, tops, open) ==
    /\ Shape(h, gone, home, fresh, tops, open)
    /\ CellsInv(h, gone)
    /\ HomeInv(h, gone, home)
    /\ TopsInv(h, home, tops, open)
    /\ LastInv(h, home, open)
    /\ Founded(h, gone, tops)
    /\ NamesInv(h, home)
    /\ RefsInv(h, gone, fresh)
    /\ FreshInv(h, fresh)

-----------------------------------------------------------------------------
(* Among subsets of a finite set there are maximal ones.                     *)

\* A set of subsets of a finite set has one that no other is larger than.
LEMMA Largest ==
    ASSUME NEW S, IsFiniteSet(S), NEW D, D \subseteq SUBSET S, D # {}
    PROVE  \E M \in D : \A N \in D : M \subseteq N => N = M
<1> DEFINE Rest == {S \ N : N \in D}
<1>1. IsWellFoundedOn(StrictSubsetOrdering(S), SUBSET S)
  BY FS_StrictSubsetOrderingWellFounded, FS_FiniteSubsetsOfFinite
<1>2. Rest \subseteq SUBSET S
  OBVIOUS
<1>3. Rest # {}
  <2>1. PICK N \in D : TRUE
    OBVIOUS
  <2>2. S \ N \in Rest
    OBVIOUS
  <2> QED  BY <2>2
<1> HIDE DEF Rest
<1>4. PICK R \in Rest : \A Q \in Rest : ~ (<<Q, R>> \in StrictSubsetOrdering(S))
  BY <1>1, <1>2, <1>3, WFMin
<1>5. PICK M \in D : R = S \ M
  BY DEF Rest
<1>6. ASSUME NEW N \in D, M \subseteq N PROVE N = M
  <2>1. S \ N \in Rest
    BY DEF Rest
  <2> QED  BY <1>4, <1>5, <1>6, <2>1 DEF StrictSubsetOrdering
<1> QED  BY <1>6

-----------------------------------------------------------------------------
(* What the pointers of a set lead to.                                       *)

\* R has all its members lead to.
ClosedAs(h, R, throughRefs) ==
    \A x \in R : /\ h[x].next \in R \cup {NULL}
                 /\ (h[x].ref /\ ~throughRefs) \/ h[x].child \in R \cup {NULL}

\* The least closed set with the members of R.
Least(h, R, throughRefs) ==
    {c \in Cells : \A Q \in SUBSET Cells : R \subseteq Q /\ ClosedAs(h, Q, throughRefs) => c \in Q}

Further(h, R, throughRefs) ==
    (R \cup UNION {{h[x].next} \cup (IF h[x].ref /\ ~throughRefs THEN {} ELSE {h[x].child})
                   : x \in R}) \ {NULL}

\* A set is closed when there is nothing further.
LEMMA FurtherIsOneStep ==
    ASSUME CellsAssumption, NEW h \in [Cells -> Items], NEW b \in BOOLEAN,
           NEW R \in SUBSET Cells
    PROVE  /\ Further(h, R, b) \in SUBSET Cells /\ R \subseteq Further(h, R, b)
           /\ Further(h, R, b) = R <=> ClosedAs(h, R, b)
           /\ \A Q \in SUBSET Cells :
                  R \subseteq Q /\ ClosedAs(h, Q, b) => Further(h, R, b) \subseteq Q
<1> USE DEF Further, CellsAssumption, Items, Pointers, ClosedAs
<1>1. Further(h, R, b) \in SUBSET Cells /\ R \subseteq Further(h, R, b)
  OBVIOUS
<1>2. ASSUME Further(h, R, b) = R PROVE ClosedAs(h, R, b)
  BY <1>2
<1>3. ASSUME ClosedAs(h, R, b) PROVE Further(h, R, b) = R
  BY <1>3
<1>4. ASSUME NEW Q \in SUBSET Cells, R \subseteq Q, ClosedAs(h, Q, b)
      PROVE  Further(h, R, b) \subseteq Q
  BY <1>4
<1> QED  BY <1>1, <1>2, <1>3, <1>4

\* The recursion of Reach computes the least closed set.
LEMMA LeastIsFound ==
    ASSUME CellsAssumption, NEW h \in [Cells -> Items], NEW b \in BOOLEAN,
           NEW R \in SUBSET Cells
    PROVE  Least(h, R, b) =
               IF Further(h, R, b) = R THEN R ELSE Least(h, Further(h, R, b), b)
<1>1. CASE Further(h, R, b) = R
  BY <1>1, FurtherIsOneStep DEF Least
<1>2. CASE Further(h, R, b) # R
  <2> DEFINE F == Further(h, R, b)
  <2>1. \A Q \in SUBSET Cells : ClosedAs(h, Q, b) => (R \subseteq Q <=> F \subseteq Q)
    BY FurtherIsOneStep
  <2> HIDE DEF F
  <2>2. Least(h, R, b) = Least(h, F, b)
    BY <2>1 DEF Least
  <2> QED  BY <1>2, <2>2 DEF F
<1> QED  BY <1>1, <1>2

\* Reach, which follows next and child as cJSON_Delete does, computes the least closed set.
LEMMA ReachIsLeast ==
    ASSUME CellsAssumption, NEW h \in [Cells -> Items], NEW b \in BOOLEAN,
           NEW S \in SUBSET Pointers
    PROVE  Reach(h, S, b) = Least(h, S \ {NULL}, b)
<1> DEFINE step(f) == [R \in SUBSET Cells |->
                          IF Further(h, R, b) = R THEN R ELSE f[Further(h, R, b)]]
           from == CHOOSE f : f = step(f)
           least == [R \in SUBSET Cells |-> Least(h, R, b)]
<1>1. least = step(least)
  <2>1. ASSUME NEW R \in SUBSET Cells
        PROVE  least[R] = IF Further(h, R, b) = R THEN R ELSE least[Further(h, R, b)]
    BY LeastIsFound, FurtherIsOneStep
  <2> QED  BY <2>1
<1>2. from = step(from)
  BY <1>1
<1>3. Reach(h, S, b) = from[S \ {NULL}]
  BY DEF Reach, Further
<1> DEFINE Wrong == {R \in SUBSET Cells : from[R] # Least(h, R, b)}
<1> HIDE DEF from
<1>4. ASSUME Wrong # {} PROVE FALSE
  <2>1. PICK R \in Wrong : \A Q \in Wrong : R \subseteq Q => Q = R
    <3>1. Wrong \subseteq SUBSET Cells
      OBVIOUS
    <3> HIDE DEF Wrong
    <3> QED  BY <1>4, <3>1, Largest DEF CellsAssumption
  <2> DEFINE F == Further(h, R, b)
  <2>2. F \in SUBSET Cells /\ R \subseteq F /\ from[R] = IF F = R THEN R ELSE from[F]
    BY <1>2, FurtherIsOneStep
  <2>3. Least(h, R, b) = IF F = R THEN R ELSE Least(h, F, b)
    BY LeastIsFound
  <2> HIDE DEF F
  <2>4. F # R /\ F \in Wrong
    BY <2>2, <2>3
  <2> QED  BY <2>1, <2>2, <2>4
<1>5. S \ {NULL} \in SUBSET Cells
  BY DEF Pointers
<1> QED  BY <1>3, <1>4, <1>5

\* What is reached is closed, and in every closed set with the roots.
LEMMA ReachFacts ==
    ASSUME CellsAssumption, NEW h \in [Cells -> Items], NEW b \in BOOLEAN,
           NEW S \in SUBSET Pointers
    PROVE  /\ Reach(h, S, b) \in SUBSET Cells /\ S \ {NULL} \subseteq Reach(h, S, b)
           /\ ClosedAs(h, Reach(h, S, b), b)
           /\ \A Q \in SUBSET Cells : S \ {NULL} \subseteq Q /\ ClosedAs(h, Q, b) =>
                  Reach(h, S, b) \subseteq Q
<1> DEFINE R == S \ {NULL}
           L == Least(h, R, b)
<1>1. R \in SUBSET Cells
  BY DEF Pointers
<1> HIDE DEF R
<1>2. L \in SUBSET Cells /\ R \subseteq L /\ \A Q \in SUBSET Cells : R \subseteq Q /\ ClosedAs(h, Q, b) => L \subseteq Q
  BY <1>1 DEF Least
<1>3. ASSUME NEW x \in L PROVE h[x].next \in L \cup {NULL} /\ ((h[x].ref /\ ~b) \/ h[x].child \in L \cup {NULL})
  <2>1. h[x].next \in Pointers /\ h[x].child \in Pointers
    BY <1>2 DEF Items
  <2>2. ASSUME NEW Q \in SUBSET Cells, R \subseteq Q, ClosedAs(h, Q, b)
        PROVE  /\ h[x].next # NULL => h[x].next \in Q
               /\ ~(h[x].ref /\ ~b) /\ h[x].child # NULL => h[x].child \in Q
    BY <1>2, <2>2 DEF ClosedAs
  <2>3. h[x].next # NULL => h[x].next \in L
    BY <2>1, <2>2 DEF Least, Pointers
  <2>4. ~(h[x].ref /\ ~b) /\ h[x].child # NULL => h[x].child \in L
    BY <2>1, <2>2 DEF Least, Pointers
  <2> QED  BY <2>3, <2>4
<1> HIDE DEF L
<1>4. ClosedAs(h, L, b)
  BY <1>3 DEF ClosedAs
<1> QED  BY <1>2, <1>4, ReachIsLeast DEF L, R

\* What is closed through references is closed without them.
LEMMA ClosedEitherWay ==
    ASSUME NEW h, NEW R
    PROVE  /\ ClosedAs(h, R, FALSE) <=> Closed(h, R)
           /\ ClosedAs(h, R, TRUE) => Closed(h, R)
  BY DEF ClosedAs, Closed

\* What a set owns.
LEMMA OwnedFacts ==
    ASSUME CellsAssumption, NEW h \in [Cells -> Items], NEW S \in SUBSET Pointers
    PROVE  /\ Reach(h, S, FALSE) \in SUBSET Cells /\ S \ {NULL} \subseteq Reach(h, S, FALSE)
           /\ Closed(h, Reach(h, S, FALSE))
           /\ \A Q \in SUBSET Cells : S \ {NULL} \subseteq Q /\ Closed(h, Q) =>
                  Reach(h, S, FALSE) \subseteq Q
<1>1. FALSE \in BOOLEAN
  OBVIOUS
<1> DEFINE R == Reach(h, S, FALSE)
<1>2. R \in SUBSET Cells /\ S \ {NULL} \subseteq R /\ ClosedAs(h, R, FALSE)
      /\ \A Q \in SUBSET Cells : S \ {NULL} \subseteq Q /\ ClosedAs(h, Q, FALSE) => R \subseteq Q
  BY <1>1, ReachFacts
<1> HIDE DEF R
<1>3. \A Q : ClosedAs(h, Q, FALSE) <=> Closed(h, Q)
  BY ClosedEitherWay
<1>4. Closed(h, R) /\ \A Q \in SUBSET Cells : S \ {NULL} \subseteq Q /\ Closed(h, Q) => R \subseteq Q
  BY <1>2, <1>3
<1> QED  BY <1>2, <1>4 DEF R

-----------------------------------------------------------------------------
(* The owners of an item.                                                    *)

Owns(h, x, y) == h[x].next = y \/ Kid(h, x, y)

\* The fields of an item.
LEMMA FieldTypes ==
    ASSUME NEW h \in [Cells -> Items], NEW c \in Cells
    PROVE  /\ h[c].next \in Pointers /\ h[c].prev \in Pointers /\ h[c].child \in Pointers
           /\ h[c].ref \in BOOLEAN /\ h[c].type \in Types /\ h[c].key \in Keys \cup {NULL}
  BY DEF Items

\* An item has one owner.
LEMMA OneOwner ==
    ASSUME NEW h, NEW gone, NEW home, HomeInv(h, gone, home),
           NEW x \in Cells, NEW y \in Cells, NEW z \in Cells, Owns(h, x, z), Owns(h, y, z)
    PROVE  x = y
  BY DEF HomeInv, Owns

\* What is live and no top is not without owners that lead back to a top.
LEMMA Backward ==
    ASSUME CellsAssumption, NEW h \in [Cells -> Items], NEW gone, NEW tops, Founded(h, gone, tops),
           tops \subseteq Cells, NEW N \in SUBSET Cells,
           \A y \in N : y \notin tops,
           \A y \in N, z \in Cells : Owns(h, z, y) => z \in N
    PROVE  \A y \in N : y \notin Live(h, gone)
<1>1. Cells \ N \in SUBSET Cells /\ tops \subseteq Cells \ N
  OBVIOUS
<1>2. ASSUME NEW x \in Cells \ N
      PROVE  h[x].next \in (Cells \ N) \cup {NULL} /\ (h[x].ref \/ h[x].child \in (Cells \ N) \cup {NULL})
  BY FieldTypes DEF Owns, Kid, Pointers
<1>3. Closed(h, Cells \ N)
  BY <1>2 DEF Closed
<1> QED  BY <1>1, <1>3 DEF Founded

\* A live item is in somebody's hands, or the child or the next item of a live one.
LEMMA HasOwner ==
    ASSUME CellsAssumption, NEW h, NEW gone, NEW home, NEW fresh, NEW tops, NEW open,
           Sound(h, gone, home, fresh, tops, open), NEW x \in Live(h, gone) \ tops
    PROVE  \E y \in Cells : Owns(h, y, x) /\ y \in Live(h, gone)
<1> USE DEF Sound
<1>1. x \in Cells /\ tops \subseteq Cells /\ h \in [Cells -> Items]
  BY DEF Live, Shape
<1>2. PICK y \in Cells : Owns(h, y, x)
  <2> SUFFICES ASSUME \A y \in Cells : ~Owns(h, y, x) PROVE FALSE
    OBVIOUS
  <2> DEFINE N == {x}
  <2>1. N \in SUBSET Cells /\ (\A y \in N : y \notin tops) /\ \A y \in N, z \in Cells : Owns(h, z, y) => z \in N
    BY <1>1
  <2> HIDE DEF N
  <2>2. \A y \in N : y \notin Live(h, gone)
    BY <1>1, <2>1, Backward
  <2> QED  BY <2>2 DEF N
<1>3. y \in Live(h, gone)
  BY <1>1, <1>2 DEF CellsInv, Live, Owns, Kid, Unused, Blank, CellsAssumption
<1> QED  BY <1>2, <1>3

\* A closed set that has an item has its list.
LEMMA ListIsReached ==
    ASSUME CellsAssumption, NEW h, NEW gone, NEW home, NEW fresh, NEW tops, NEW open,
           Sound(h, gone, home, fresh, tops, open),
           NEW R \in SUBSET Cells, Closed(h, R), NEW p \in R, p \notin open,
           NEW x \in Cells, home[x] = p
    PROVE  x \in R
<1> USE DEF Sound
<1> DEFINE N == {y \in Cells : home[y] = p /\ y \notin R}
<1>1. p # NULL /\ p \in Cells /\ h \in [Cells -> Items] /\ tops \subseteq Cells
  BY DEF CellsAssumption, Shape, Live
<1>2. \A y \in N : y \notin tops
  BY <1>1 DEF TopsInv
<1>3. \A y \in N, z \in Cells : Owns(h, z, y) => z \in N
  BY <1>1 DEF Owns, HomeInv, Closed, Kid, CellsAssumption
<1>4. \A y \in N : y \notin Live(h, gone)
  BY <1>1, <1>2, <1>3, Backward
<1> QED  BY <1>1, <1>4 DEF HomeInv

\* What a set leads to beyond itself has its owner there.
LEMMA ReachedFromOwner ==
    ASSUME CellsAssumption, NEW h \in [Cells -> Items], NEW S \in SUBSET Pointers,
           NEW y \in Reach(h, S, FALSE), y \notin S
    PROVE  \E z \in Reach(h, S, FALSE) : Owns(h, z, y)
<1> DEFINE R == Reach(h, S, FALSE)
<1>1. R \in SUBSET Cells /\ S \ {NULL} \subseteq R /\ Closed(h, R)
  BY OwnedFacts
<1>2. SUFFICES ASSUME \A z \in R : ~Owns(h, z, y) PROVE FALSE
  OBVIOUS
<1>3. Closed(h, R \ {y})
  BY <1>1, <1>2 DEF Closed, Owns, Kid
<1>4. R \ {y} \in SUBSET Cells /\ S \ {NULL} \subseteq R \ {y}
  BY <1>1
<1> QED  BY <1>3, <1>4, OwnedFacts, ZenonT(60)

\* The items under x.
Under(h, x) == IF h[x].ref THEN {} ELSE Reach(h, {h[x].child}, FALSE)

\* The tree of an item is the item and what its child pointer owns.
LEMMA UnderFacts ==
    ASSUME CellsAssumption, NEW h \in [Cells -> Items], NEW x \in Cells
    PROVE  /\ Under(h, x) \in SUBSET Cells /\ Closed(h, Under(h, x))
           /\ Tree(h, x, FALSE) = {x} \cup Under(h, x)
           /\ ~h[x].ref /\ h[x].child # NULL => h[x].child \in Under(h, x)
           /\ \A y \in Under(h, x) : Kid(h, x, y) \/ \E z \in Under(h, x) : Owns(h, z, y)
<1>1. CASE h[x].ref
  <2>1. Under(h, x) = {}
    BY <1>1 DEF Under
  <2> QED  BY <1>1, <2>1 DEF Tree, Closed
<1>2. CASE ~h[x].ref
  <2> DEFINE S == {h[x].child}
  <2>1. S \in SUBSET Pointers
    BY FieldTypes
  <2>2. Under(h, x) = Reach(h, S, FALSE) /\ Tree(h, x, FALSE) = {x} \cup Reach(h, S, FALSE)
    BY <1>2 DEF Under, Tree
  <2> HIDE DEF S
  <2>3. Under(h, x) \in SUBSET Cells /\ Closed(h, Under(h, x)) /\ S \ {NULL} \subseteq Under(h, x)
    <3>1. /\ Reach(h, S, FALSE) \in SUBSET Cells /\ Closed(h, Reach(h, S, FALSE))
          /\ S \ {NULL} \subseteq Reach(h, S, FALSE)
      BY <2>1, OwnedFacts
    <3> QED  BY <2>2, <3>1
  <2>4. \A y \in Under(h, x) : y \notin S => \E z \in Under(h, x) : Owns(h, z, y)
    BY <2>1, <2>2, ReachedFromOwner
  <2> QED  BY <1>2, <2>2, <2>3, <2>4 DEF Kid, S
<1> QED  BY <1>1, <1>2

\* A child is not above its parent, and has no sibling below it.
LEMMA NotUnderItself ==
    ASSUME CellsAssumption, NEW h, NEW gone, NEW home, NEW fresh, NEW tops, NEW open,
           Sound(h, gone, home, fresh, tops, open),
           NEW x \in Cells, home[x] # NULL, home[x] \notin open
    PROVE  /\ x \notin Under(h, x) /\ home[x] # x /\ home[x] \notin Under(h, x)
           /\ \A y \in Under(h, x) : home[y] # home[x]
           /\ \A y \in Under(h, x) : y \notin tops
<1> USE DEF Sound
<1> DEFINE U == Under(h, x)
           p == home[x]
<1>1. h \in [Cells -> Items] /\ tops \subseteq Cells /\ x \in Live(h, gone) /\ p \in Cells
  BY DEF Shape, Live, HomeInv
<1>2. /\ U \in SUBSET Cells /\ Closed(h, U)
      /\ \A y \in U : Kid(h, x, y) \/ \E z \in U : Owns(h, z, y)
  BY <1>1, UnderFacts
<1> HIDE DEF U
<1>3. \A y \in U : y \notin tops
  BY <1>1, <1>2 DEF TopsInv, Owns
<1>4. x \notin U
  <2> SUFFICES ASSUME x \in U PROVE FALSE
    OBVIOUS
  <2>1. \A y \in U, z \in Cells : Owns(h, z, y) => z \in U
    BY <1>1, <1>2, OneOwner DEF Owns
  <2> QED  BY <1>1, <1>2, <1>3, <2>1, Backward
<1>5. p \notin U
  BY <1>1, <1>2, <1>4, ListIsReached
<1>6. p # x
  <2> SUFFICES ASSUME p = x PROVE FALSE
    OBVIOUS
  <2> DEFINE N == {y \in Cells : home[y] = x}
  <2>1. \A y \in N : y \notin tops
    BY <1>1 DEF TopsInv, CellsAssumption
  <2>2. \A y \in N, z \in Cells : Owns(h, z, y) => z \in N
    BY <1>1 DEF Owns, HomeInv
  <2>3. \A y \in N : y \notin Live(h, gone)
    BY <1>1, <2>1, <2>2, Backward
  <2> QED  BY <1>1, <2>3
<1>7. ASSUME NEW y \in U, home[y] = p PROVE FALSE
  <2> DEFINE N == {c \in U : home[c] = p}
  <2>1. \A c \in N : c \notin tops
    BY <1>3
  <2>2. ASSUME NEW c \in N, NEW z \in Cells, Owns(h, z, c) PROVE z \in N
    <3>1. z \in U \/ Kid(h, x, c)
      BY <1>1, <1>2, <2>2, OneOwner
    <3>2. ~Kid(h, x, c)
      BY <1>2, <1>1, <1>6 DEF HomeInv
    <3>3. home[z] = p
      BY <1>1, <1>2, <1>5, <2>2, <3>1, <3>2 DEF HomeInv, Owns
    <3> QED  BY <3>1, <3>2, <3>3
  <2>3. \A c \in N : c \notin Live(h, gone)
    BY <1>1, <1>2, <2>1, <2>2, Backward
  <2>4. y \in N /\ y \in Live(h, gone)
    BY <1>1, <1>2, <1>7 DEF HomeInv, CellsAssumption, Live
  <2> QED  BY <2>3, <2>4
<1> QED  BY <1>3, <1>4, <1>5, <1>6, <1>7 DEF U

\* When x is taken out of its list the items under it stay.
LEMMA SubtreeStays ==
    ASSUME CellsAssumption, NEW h \in [Cells -> Items], NEW g \in [Cells -> Items], NEW x \in Cells,
           x \notin Under(h, x), g[x].next = NULL, g[x].child = h[x].child, g[x].ref = h[x].ref,
           \A y \in Under(h, x) : /\ g[y].next = h[y].next /\ g[y].child = h[y].child
                                  /\ g[y].ref = h[y].ref
    PROVE  Reach(g, {x}, FALSE) = Tree(h, x, FALSE)
<1> DEFINE U == Under(h, x)
           X == {x}
           G == Reach(g, X, FALSE)
           S == {h[x].child}
<1>1. U \in SUBSET Cells /\ Closed(h, U) /\ Tree(h, x, FALSE) = {x} \cup U
      /\ (~h[x].ref /\ h[x].child # NULL => h[x].child \in U)
  BY UnderFacts
<1>2. X \in SUBSET Pointers /\ X \ {NULL} = X /\ S \in SUBSET Pointers
  BY FieldTypes DEF Pointers, CellsAssumption
<1> HIDE DEF X
<1>3. G \in SUBSET Cells /\ x \in G /\ Closed(g, G)
      /\ \A Q \in SUBSET Cells : x \in Q /\ Closed(g, Q) => G \subseteq Q
  <2>1. G \in SUBSET Cells /\ X \subseteq G /\ Closed(g, G)
        /\ \A Q \in SUBSET Cells : X \subseteq Q /\ Closed(g, Q) => G \subseteq Q
    BY <1>2, OwnedFacts
  <2> QED  BY <2>1 DEF X
<1>4. ~h[x].ref => \A Q \in SUBSET Cells : S \ {NULL} \subseteq Q /\ Closed(h, Q) => U \subseteq Q
  BY <1>2, OwnedFacts DEF Under
<1>5. h[x].ref => U = {}
  BY DEF Under
<1>6. x \notin U /\ \A y \in U : /\ g[y].next = h[y].next /\ g[y].child = h[y].child
                                   /\ g[y].ref = h[y].ref
  OBVIOUS
<1> HIDE DEF U, G
<1>7. Closed(g, {x} \cup U)
  BY <1>1, <1>6, FieldTypes DEF Closed, Pointers
<1>8. G \subseteq {x} \cup U
  BY <1>1, <1>3, <1>7
<1>9. Closed(h, G \cap U)
  BY <1>1, <1>3, <1>6 DEF Closed
<1>10. ~h[x].ref => S \ {NULL} \subseteq G \cap U
  BY <1>1, <1>3 DEF Closed
<1>11. U \subseteq G
  BY <1>1, <1>4, <1>5, <1>9, <1>10
<1> QED  BY <1>1, <1>3, <1>8, <1>11 DEF G, X

-----------------------------------------------------------------------------
(* Lists as sequences.                                                       *)

\* No list goes in a circle.
LEMMA ListsEnd ==
    ASSUME CellsAssumption, NEW h, NEW gone, NEW home, NEW fresh, NEW tops, NEW open,
           Sound(h, gone, home, fresh, tops, open), NEW N \in SUBSET Cells, N # {}
    PROVE  \E c \in N : h[c].next \notin N
<1> USE DEF Sound
<1>1. SUFFICES ASSUME \A c \in N : h[c].next \in N PROVE FALSE
  OBVIOUS
<1>2. h \in [Cells -> Items] /\ tops \subseteq Cells /\ IsFiniteSet(N) /\ NULL \notin Cells
  BY FS_Subset DEF Shape, Live, CellsAssumption
<1>3. \A x, y \in N : h[x].next = h[y].next => x = y
  BY <1>1 DEF HomeInv
<1>4. ASSUME NEW z \in N PROVE \E c \in N : h[c].next = z
  <2> SUFFICES ASSUME \A c \in N : h[c].next # z PROVE FALSE
    OBVIOUS
  <2> DEFINE M == N \ {z}
             f == [c \in N |-> h[c].next]
  <2>1. IsFiniteSet(M) /\ Cardinality(M) = Cardinality(N) - 1 /\ Cardinality(N) \in Nat
    BY <1>2, FS_RemoveElement, FS_CardinalityType
  <2>2. f \in [N -> M]
    BY <1>1
  <2>3. \A x, y \in N : f[x] = f[y] => x = y
    BY <1>3
  <2> HIDE DEF f, M
  <2>4. Cardinality(M) < Cardinality(N)
    BY <2>1
  <2> QED  BY <1>2, <2>1, <2>2, <2>3, <2>4, FS_PigeonHole
<1>5. \A y \in N : y \notin tops
  BY <1>4 DEF TopsInv
<1>6. \A y \in N, z \in Cells : Owns(h, z, y) => z \in N
  BY <1>4, OneOwner DEF Owns, HomeInv
<1>7. \A y \in N : y \notin Live(h, gone)
  BY <1>2, <1>5, <1>6, Backward
<1> QED  BY <1>1, <1>2, <1>7 DEF CellsInv, HomeInv, Live, Unused, Blank

\* The recursion of Chain has a solution.
Follows(h, f, D) ==
    /\ f \in [D \cup {NULL} -> Seq(Cells)]
    /\ f[NULL] = <<>>
    /\ \A c \in D : h[c].next \in D \cup {NULL} /\ f[c] = <<c>> \o f[h[c].next]

\* Since lists end, there is a function that follows next from every item.
LEMMA ChainExists ==
    ASSUME CellsAssumption, NEW h, NEW gone, NEW home, NEW fresh, NEW tops, NEW open,
           Sound(h, gone, home, fresh, tops, open)
    PROVE  \E f : Follows(h, f, Cells)
<1>1. h \in [Cells -> Items] /\ NULL \notin Cells /\ IsFiniteSet(Cells)
  BY DEF Sound, Shape, CellsAssumption
<1> DEFINE Ok == {D \in SUBSET Cells : \E f : Follows(h, f, D)}
<1>2. {} \in Ok
  <2> DEFINE f == [c \in {NULL} |-> <<>>]
  <2>1. Follows(h, f, {})
    BY DEF Follows
  <2> QED  BY <2>1
<1>3. PICK D \in Ok : \A E \in Ok : D \subseteq E => E = D
  <2>1. Ok \subseteq SUBSET Cells
    OBVIOUS
  <2> HIDE DEF Ok
  <2> QED  BY <1>1, <1>2, <2>1, Largest
<1>4. PICK f : Follows(h, f, D)
  OBVIOUS
<1>5. ASSUME D # Cells PROVE FALSE
  <2> DEFINE N == Cells \ D
  <2>1. N \in SUBSET Cells /\ N # {}
    BY <1>5
  <2> HIDE DEF N
  <2>2. PICK c \in N : h[c].next \notin N
    BY <2>1, ListsEnd
  <2>3. c \in Cells /\ c \notin D /\ h[c].next \in D \cup {NULL} /\ D \in SUBSET Cells
    BY <1>1, <2>1, <2>2, FieldTypes DEF N, Pointers
  <2> DEFINE g == [x \in (D \cup {c}) \cup {NULL} |-> IF x = c THEN <<c>> \o f[h[c].next] ELSE f[x]]
  <2>4. f[h[c].next] \in Seq(Cells) /\ <<c>> \o f[h[c].next] \in Seq(Cells)
    BY <1>4, <2>3, ConcatProperties DEF Follows
  <2>5. Follows(h, g, D \cup {c})
    <3>1. g \in [(D \cup {c}) \cup {NULL} -> Seq(Cells)] /\ g[NULL] = <<>>
      BY <1>1, <1>4, <2>3, <2>4 DEF Follows
    <3>2. ASSUME NEW x \in D \cup {c}
          PROVE  h[x].next \in (D \cup {c}) \cup {NULL} /\ g[x] = <<x>> \o g[h[x].next]
      <4>1. h[x].next \in D \cup {NULL}
        BY <1>4, <2>3 DEF Follows
      <4>2. h[x].next # c /\ g[h[x].next] = f[h[x].next]
        BY <1>1, <2>3, <4>1
      <4> QED  BY <1>4, <2>3, <4>1, <4>2 DEF Follows
    <3> QED  BY <3>1, <3>2 DEF Follows
  <2>6. D \cup {c} \in Ok
    BY <2>3, <2>5
  <2> QED  BY <1>3, <2>3, <2>6
<1> QED  BY <1>4, <1>5

\* The list from x follows the next pointers to the end, in the list of one parent.
IsList(h, home, x, s) ==
    /\ s \in Seq(Cells) /\ Len(s) > 0 /\ s[1] = x
    /\ \A j \in 1 .. Len(s) - 1 : h[s[j]].next = s[j + 1]
    /\ h[s[Len(s)]].next = NULL
    /\ \A j \in 1 .. Len(s) : home[s[j]] = home[x]

\* What Chain returns is the list of the item, to its end, under one parent.
LEMMA ChainIsList ==
    ASSUME CellsAssumption, NEW h, NEW gone, NEW home, NEW fresh, NEW tops, NEW open,
           Sound(h, gone, home, fresh, tops, open)
    PROVE  Chain(h, NULL) = <<>> /\ \A x \in Cells : IsList(h, home, x, Chain(h, x))
<1>1. h \in [Cells -> Items] /\ NULL \notin Cells /\ HomeInv(h, gone, home)
  BY DEF Sound, Shape, CellsAssumption
<1> DEFINE step(f) == [c \in Cells \cup {NULL} |-> IF c = NULL THEN <<>> ELSE <<c>> \o f[h[c].next]]
           from == CHOOSE f : f = step(f)
<1>2. PICK f : Follows(h, f, Cells)
  BY ChainExists
<1>3. f = step(f)
  <2>1. /\ f = [c \in Cells \cup {NULL} |-> f[c]] /\ f[NULL] = <<>>
        /\ \A c \in Cells : f[c] = <<c>> \o f[h[c].next]
    BY <1>2 DEF Follows
  <2>2. \A c \in Cells \cup {NULL} : f[c] = IF c = NULL THEN <<>> ELSE <<c>> \o f[h[c].next]
    BY <1>1, <2>1
  <2> QED  BY <2>1, <2>2
<1>4. from = step(from)
  BY <1>3, ZenonT(60)
<1>5. \A x \in Cells \cup {NULL} : Chain(h, x) = from[x]
  BY DEF Chain
<1> HIDE DEF from
<1>6. from[NULL] = <<>> /\ \A x \in Cells : from[x] = <<x>> \o from[h[x].next]
  BY <1>1, <1>4, FieldTypes DEF Pointers
<1> DEFINE Wrong == {x \in Cells : ~IsList(h, home, x, from[x])}
<1>7. ASSUME Wrong # {} PROVE FALSE
  <2>1. PICK x \in Wrong : h[x].next \notin Wrong
    <3>1. Wrong \in SUBSET Cells
      OBVIOUS
    <3> HIDE DEF Wrong
    <3> QED  BY <1>7, <3>1, ListsEnd
  <2> DEFINE t == from[h[x].next]
  <2>2. from[x] = <<x>> \o t /\ x \in Cells
    BY <1>6
  <2>3. CASE h[x].next = NULL
    <3>1. from[x] = <<x>>
      <4>1. t = <<>> /\ <<x>> \in Seq(Cells)
        BY <1>6, <2>2, <2>3
      <4> QED  BY <2>2, <4>1, ConcatEmptySeq
    <3>2. IsList(h, home, x, <<x>>)
      BY <2>2, <2>3 DEF IsList
    <3> QED  BY <3>1, <3>2
  <2>4. CASE h[x].next # NULL
    <3> DEFINE y == h[x].next
    <3>1. y \in Cells /\ home[y] = home[x] /\ IsList(h, home, y, t)
      <4>1. y \in Cells
        BY <1>1, <2>2, <2>4, FieldTypes DEF Pointers
      <4>2. home[y] = home[x]
        BY <1>1, <2>2, <4>1 DEF HomeInv
      <4> QED  BY <2>1, <4>1, <4>2
    <3> HIDE DEF t
    <3>2. t \in Seq(Cells) /\ Len(t) \in Nat /\ Len(t) > 0
      BY <3>1 DEF IsList
    <3>3. /\ from[x] \in Seq(Cells) /\ Len(from[x]) = Len(t) + 1 /\ from[x][1] = x
          /\ \A j \in 2 .. Len(t) + 1 : from[x][j] = t[j - 1]
      BY <2>2, <3>2
    <3>4. \A j \in 1 .. Len(from[x]) - 1 : h[from[x][j]].next = from[x][j + 1]
      <4> TAKE j \in 1 .. Len(from[x]) - 1
      <4>1. CASE j = 1
        BY <3>1, <3>2, <3>3, <4>1 DEF IsList
      <4>2. CASE j # 1
        <5>1. j \in 2 .. Len(t) + 1 /\ j + 1 \in 2 .. Len(t) + 1 /\ j - 1 \in 1 .. Len(t) - 1
          BY <3>2, <3>3, <4>2
        <5>2. from[x][j] = t[j - 1] /\ from[x][j + 1] = t[j] /\ (j - 1) + 1 = j /\ (j + 1) - 1 = j
          BY <3>3, <5>1
        <5>3. h[t[j - 1]].next = t[(j - 1) + 1]
          BY <3>1, <5>1 DEF IsList
        <5> QED  BY <5>2, <5>3
      <4> QED  BY <4>1, <4>2
    <3>5. h[from[x][Len(from[x])]].next = NULL
      <4>1. from[x][Len(t) + 1] = t[Len(t)]
        BY <3>2, <3>3
      <4> QED  BY <3>1, <3>3, <4>1 DEF IsList
    <3>6. \A j \in 1 .. Len(from[x]) : home[from[x][j]] = home[x]
      <4> TAKE j \in 1 .. Len(from[x])
      <4>1. CASE j = 1
        BY <3>3, <4>1
      <4>2. CASE j # 1
        <5>1. j \in 2 .. Len(t) + 1 /\ j - 1 \in 1 .. Len(t)
          BY <3>2, <3>3, <4>2
        <5>2. home[t[j - 1]] = home[y]
          BY <3>1, <5>1 DEF IsList
        <5> QED  BY <3>1, <3>3, <5>1, <5>2
      <4> QED  BY <4>1, <4>2
    <3>7. Len(from[x]) > 0
      BY <3>2, <3>3
    <3>8. IsList(h, home, x, from[x])
      BY <3>3, <3>4, <3>5, <3>6, <3>7 DEF IsList
    <3> QED  BY <3>8
  <2> QED  BY <2>3, <2>4
<1> QED  BY <1>5, <1>6, <1>7

-----------------------------------------------------------------------------
(* The operations on a sound heap.                                           *)

\* Only names and types change.
LEMMA SoundWhenLinksStay ==
    ASSUME NEW h, NEW gone, NEW home, NEW fresh, NEW tops, NEW open,
           Sound(h, gone, home, fresh, tops, open),
           NEW g \in [Cells -> Items],
           \A c \in Cells : /\ g[c].ref = h[c].ref /\ g[c].next = h[c].next
                            /\ g[c].prev = h[c].prev /\ g[c].child = h[c].child
                            /\ g[c].type = "free" <=> h[c].type = "free"
                            /\ g[c].type = "free" => g[c] = h[c]
                            /\ g[c].type # h[c].type => h[c].child = NULL,
           NamesInv(g, home)
    PROVE  Sound(g, gone, home, fresh, tops, open)
<1> USE DEF Sound
<1>1. h \in [Cells -> Items] /\ Live(g, gone) = Live(h, gone)
  BY DEF Live, Shape
<1>2. \A p, c \in Cells : Kid(g, p, c) <=> Kid(h, p, c)
  BY DEF Kid
<1>3. Shape(g, gone, home, fresh, tops, open)
  BY <1>1 DEF Shape
<1>4. CellsInv(g, gone)
  <2>1. \A c \in Cells : g[c].type = "free" => g[c] = Unused
    BY DEF CellsInv
  <2>2. \A c \in gone : g[c].type # "free" /\ g[c].ref /\ g[c].next = NULL
    BY DEF CellsInv, Shape
  <2>3. \A c \in Live(h, gone) :
            {g[c].next, g[c].prev, g[c].child} \subseteq Live(h, gone) \cup {NULL}
    BY DEF CellsInv, Live
  <2> QED  BY <1>1, <2>1, <2>2, <2>3 DEF CellsInv
<1>5. HomeInv(g, gone, home)
  BY <1>1, <1>2 DEF HomeInv
<1>6. TopsInv(g, home, tops, open)
  BY <1>2, <1>3 DEF TopsInv, Shape, Live
<1>7. LastInv(g, home, open)
  <2>1. \A c \in Cells : h[c].prev \in Pointers
    BY <1>1, FieldTypes
  <2> QED  BY <1>2, <2>1 DEF LastInv, Pointers
<1>8. Founded(g, gone, tops)
  <2>1. \A R \in SUBSET Cells : Closed(g, R) <=> Closed(h, R)
    BY DEF Closed
  <2> QED  BY <1>1, <2>1 DEF Founded
<1>9. RefsInv(g, gone, fresh)
  <2> SUFFICES ASSUME NEW r \in Live(h, gone), h[r].ref, h[r].child # NULL
               PROVE  /\ r \notin fresh /\ h[r].child \notin fresh
                      /\ \E q \in Cells : Kid(h, q, h[r].child) /\ g[q].type = g[r].type
    BY <1>1, <1>2 DEF RefsInv, Live, Kid
  <2>1. r \in Cells /\ h[r].child \in Cells
    BY <1>1, FieldTypes DEF Live, Pointers
  <2>2. PICK q \in Cells : Kid(h, q, h[r].child) /\ h[q].type = h[r].type
    BY DEF RefsInv
  <2>3. g[q].type = h[q].type /\ g[r].type = h[r].type
    BY <2>1, <2>2 DEF Kid
  <2> QED  BY <2>1, <2>2, <2>3 DEF RefsInv
<1>10. FreshInv(g, fresh)
  BY <1>2 DEF FreshInv
<1> QED  BY <1>3, <1>4, <1>5, <1>6, <1>7, <1>8, <1>9, <1>10

\* A list may be left open.
LEMMA SoundWhenOpened ==
    ASSUME NEW h, NEW gone, NEW home, NEW fresh, NEW tops, NEW open, NEW more,
           Sound(h, gone, home, fresh, tops, open), open \subseteq more
    PROVE  Sound(h, gone, home, fresh, tops, more)
<1>1. TopsInv(h, home, tops, more) /\ LastInv(h, home, more) /\ Shape(h, gone, home, fresh, tops, more)
  BY DEF Sound, TopsInv, LastInv, Shape
<1> QED  BY <1>1 DEF Sound

\* Nothing leads to n.
Unknown(h, gone, home, n) ==
    /\ n \notin Live(h, gone) /\ n \notin gone
    /\ home[n] = NULL /\ \A c \in Cells : home[c] # n
    /\ \A c \in Cells : h[c].next # n /\ ~Kid(h, c, n)
    /\ \A c \in Live(h, gone) : h[c].next # n /\ h[c].prev # n /\ h[c].child # n

\* An item is allocated, without children or as a reference.
LEMMA SoundWithNew ==
    ASSUME CellsAssumption, NEW h, NEW gone, NEW home, NEW fresh, NEW tops, NEW open,
           Sound(h, gone, home, fresh, tops, open),
           NEW n \in Cells, h[n].type = "free", NEW r \in Items,
           r.type # "free", r.next = NULL, r.prev = NULL,
           r.type \in Scalars => r.child = NULL,
           r.child # NULL => /\ r.ref /\ r.child \notin fresh
                             /\ \E q \in Cells : Kid(h, q, r.child) /\ h[q].type = r.type,
           NEW mine \in {fresh, fresh \cup {n}}, r.child # NULL => mine = fresh
    PROVE  /\ Sound([h EXCEPT ![n] = r], gone, home, mine, tops \cup {n}, open)
           /\ Unknown(h, gone, home, n) /\ n \notin fresh /\ n \notin tops
<1> USE DEF Sound
<1> DEFINE g == [h EXCEPT ![n] = r]
           T == tops \cup {n}
<1>1. /\ h \in [Cells -> Items] /\ g \in [Cells -> Items] /\ NULL \notin Cells
      /\ g[n] = r /\ \A c \in Cells : c # n => g[c] = h[c]
  BY DEF Shape, CellsAssumption
<1> HIDE DEF g
<1>2. h[n] = Unused /\ h[n].next = NULL /\ h[n].child = NULL /\ n # NULL
  BY <1>1 DEF CellsInv, Unused, Blank
<1>3. n \notin Live(h, gone) /\ n \notin gone /\ gone \subseteq Cells
  BY DEF Live, CellsInv, Shape
<1>4. Live(g, gone) = Live(h, gone) \cup {n}
  BY <1>1, <1>3 DEF Live
<1>5. /\ home[n] = NULL /\ n \notin fresh /\ n \notin tops
      /\ \A c \in Cells : home[c] # n
  BY <1>2, <1>3 DEF HomeInv, Shape
<1>6. \A c \in Live(h, gone) : h[c].next # n /\ h[c].prev # n /\ h[c].child # n
  BY <1>2, <1>3 DEF CellsInv
<1>7. \A c \in Cells : h[c].next # n /\ ~Kid(h, c, n)
  <2> TAKE c \in Cells
  <2>1. CASE c \in Live(h, gone)
    BY <2>1, <1>6 DEF Kid
  <2>2. CASE c \in gone
    BY <2>2, <1>2 DEF CellsInv, Kid
  <2>3. CASE h[c].type = "free"
    BY <2>3, <1>2 DEF CellsInv, Kid, Unused, Blank
  <2> QED  BY <2>1, <2>2, <2>3 DEF Live
<1>8. r.child \in Live(h, gone) \cup {NULL}
  BY <1>1, <1>3 DEF CellsInv, Kid, Live, Unused, Blank
<1>9. \A p, c \in Cells : Kid(g, p, c) => p # n /\ c # n /\ Kid(h, p, c)
  BY <1>1, <1>7 DEF Kid
<1>10. Shape(g, gone, home, mine, T, open)
  BY <1>1, <1>4 DEF Shape
<1>11. CellsInv(g, gone)
  <2>1. \A c \in gone : c # n
    BY <1>3
  <2>2. \A c \in Live(h, gone) : c # n /\ c \in Cells
    BY <1>3 DEF Live
  <2>3. r.ref \/ n \notin gone
    BY <1>3
  <2> QED  BY <1>1, <1>3, <1>4, <1>8, <2>1, <2>2 DEF CellsInv
<1>12. HomeInv(g, gone, home)
  <2>1. \A c \in Cells : home[c] # NULL => c \in Live(g, gone) /\ home[c] \in Live(g, gone)
    BY <1>4 DEF HomeInv
  <2>2. \A p, c \in Cells : Kid(g, p, c) => home[c] = p /\ \A y \in Cells : g[y].next # c
    BY <1>1, <1>9 DEF HomeInv
  <2>3. \A y, z \in Cells : g[y].next = z => home[z] = home[y] /\ g[z].prev = y
    BY <1>1, <1>7 DEF HomeInv
  <2> QED  BY <2>1, <2>2, <2>3 DEF HomeInv
<1>13. TopsInv(g, home, T, open)
  BY <1>1, <1>5, <1>7, <1>9, <1>10 DEF TopsInv, Shape, Live
<1>14. LastInv(g, home, open)
  <2> SUFFICES ASSUME NEW p \in Cells, NEW c \in Cells, Kid(g, p, c), p \notin open
               PROVE  g[c].prev # NULL /\ home[g[c].prev] = p /\ g[g[c].prev].next = NULL
    BY DEF LastInv
  <2>1. Kid(h, p, c) /\ c # n /\ p # n
    BY <1>9
  <2>2. h[c].prev # NULL /\ home[h[c].prev] = p /\ h[h[c].prev].next = NULL /\ h[c].prev \in Cells
    BY <1>1, <2>1, FieldTypes DEF LastInv, Pointers
  <2> QED  BY <1>1, <1>5, <2>1, <2>2
<1>15. Founded(g, gone, T)
  <2> SUFFICES ASSUME NEW R \in SUBSET Cells, Closed(g, R), T \subseteq R PROVE Live(g, gone) \subseteq R
    BY DEF Founded
  <2>1. Closed(h, R)
    BY <1>1, <1>2 DEF Closed
  <2> QED  BY <1>4, <2>1 DEF Founded
<1>16. NamesInv(g, home)
  <2>1. \A c \in Cells : home[c] # NULL => c # n /\ home[c] \in Cells /\ home[c] # n
    BY <1>1, <1>5 DEF HomeInv, Live
  <2> QED  BY <1>1, <2>1 DEF NamesInv
<1>17. RefsInv(g, gone, mine)
  <2> SUFFICES ASSUME NEW x \in Live(g, gone), g[x].ref, g[x].child # NULL
               PROVE  /\ x \notin mine /\ g[x].child \notin mine
                      /\ \E q \in Cells : Kid(g, q, g[x].child) /\ g[q].type = g[x].type
    BY DEF RefsInv
  <2>1. x \in Cells
    BY DEF Live
  <2>2. CASE x = n
    <3>1. PICK q \in Cells : Kid(h, q, r.child) /\ h[q].type = r.type
      BY <1>1, <2>2
    <3>2. q # n
      BY <1>1, <1>2, <2>2, <3>1 DEF Kid
    <3> QED  BY <1>1, <1>5, <2>2, <3>1, <3>2 DEF Kid
  <2>3. CASE x # n
    <3>1. x \in Live(h, gone) /\ g[x] = h[x] /\ h[x].child # n
      BY <1>1, <1>4, <1>6, <2>1, <2>3
    <3>2. PICK q \in Cells : Kid(h, q, h[x].child) /\ h[q].type = h[x].type
      BY <3>1 DEF RefsInv
    <3>3. q # n
      BY <1>1, <1>2, <3>1, <3>2 DEF Kid
    <3> QED  BY <1>1, <2>3, <3>1, <3>2, <3>3 DEF Kid, RefsInv
  <2> QED  BY <2>2, <2>3
<1>18. FreshInv(g, mine)
  <2>1. \A x, y \in Cells : g[x].next = y \/ Kid(g, x, y) =>
            x # n /\ y # n /\ (h[x].next = y \/ Kid(h, x, y))
    BY <1>1, <1>7, <1>9
  <2> QED  BY <2>1 DEF FreshInv
<1>19. Unknown(h, gone, home, n)
  BY <1>3, <1>5, <1>6, <1>7 DEF Unknown
<1> QED  BY <1>5, <1>10, <1>11, <1>12, <1>13, <1>14, <1>15, <1>16, <1>17, <1>18, <1>19 DEF g

\* A reference is allocated and forgotten.
LEMMA SoundWithLost ==
    ASSUME CellsAssumption, NEW h, NEW gone, NEW home, NEW fresh, NEW tops, NEW open,
           Sound(h, gone, home, fresh, tops, open),
           NEW n \in Cells, h[n].type = "free", NEW r \in Items,
           r.type # "free", r.next = NULL, r.ref, r.type \in Scalars => r.child = NULL
    PROVE  Sound([h EXCEPT ![n] = r], gone \cup {n}, home, fresh, tops, open)
<1> USE DEF Sound
<1> DEFINE g == [h EXCEPT ![n] = r]
           G == gone \cup {n}
<1>1. /\ h \in [Cells -> Items] /\ g \in [Cells -> Items] /\ NULL \notin Cells
      /\ g[n] = r /\ \A c \in Cells : c # n => g[c] = h[c]
  BY DEF Shape, CellsAssumption
<1> HIDE DEF g
<1>2. h[n].next = NULL /\ h[n].child = NULL /\ h[n].prev = NULL
  <2>1. h[n] = Unused
    BY DEF CellsInv
  <2> QED  BY <2>1 DEF Unused, Blank
<1>3. n \notin Live(h, gone) /\ n \notin gone /\ gone \subseteq Cells
  BY DEF Live, CellsInv, Shape
<1>4. Live(g, G) = Live(h, gone) /\ \A c \in Live(h, gone) : c \in Cells /\ c # n
  BY <1>1, <1>3 DEF Live
<1>5. \A c \in Cells : home[c] # NULL => c # n /\ home[c] # n
  BY <1>3 DEF HomeInv
<1>6. \A p, c \in Cells : Kid(g, p, c) => p # n /\ Kid(h, p, c)
  BY <1>1 DEF Kid
<1>7. \A p, c \in Cells : Kid(h, p, c) => p # n
  BY <1>1, <1>2 DEF Kid
<1>8. \A c \in Cells : g[c].next = h[c].next
  BY <1>1, <1>2
<1>9. \A c \in Cells : home[c] # NULL \/ (\E y \in Cells : h[y].next = c) => g[c] = h[c]
  <2>1. \A y \in Cells : h[y].next # n
    BY <1>1, <1>2 DEF HomeInv, CellsInv, Live
  <2> QED  BY <1>1, <1>5, <2>1
<1>10. Shape(g, G, home, fresh, tops, open)
  BY <1>1, <1>4 DEF Shape
<1>11. CellsInv(g, G)
  <2>1. \A c \in Cells : g[c].type = "free" => g[c] = Unused
    BY <1>1 DEF CellsInv
  <2>2. \A c \in G : g[c].type # "free" /\ g[c].ref /\ g[c].next = NULL
    BY <1>1, <1>3 DEF CellsInv
  <2>3. \A c \in Live(h, gone) :
            {g[c].next, g[c].prev, g[c].child} \subseteq Live(h, gone) \cup {NULL}
    BY <1>1, <1>4 DEF CellsInv
  <2> QED  BY <1>4, <2>1, <2>2, <2>3 DEF CellsInv
<1>12. HomeInv(g, G, home)
  BY <1>4, <1>6, <1>8, <1>9 DEF HomeInv
<1>13. TopsInv(g, home, tops, open)
  BY <1>1, <1>4, <1>6, <1>8 DEF TopsInv, Shape
<1>14. LastInv(g, home, open)
  <2> SUFFICES ASSUME NEW p \in Cells, NEW c \in Cells, Kid(g, p, c), p \notin open
               PROVE  g[c].prev # NULL /\ home[g[c].prev] = p /\ g[g[c].prev].next = NULL
    BY DEF LastInv
  <2>1. Kid(h, p, c) /\ home[c] = p /\ g[c] = h[c]
    BY <1>1, <1>6, <1>9 DEF HomeInv
  <2>2. h[c].prev # NULL /\ home[h[c].prev] = p /\ h[h[c].prev].next = NULL /\ h[c].prev \in Cells
    BY <1>1, <2>1, FieldTypes DEF LastInv, Pointers
  <2> QED  BY <1>8, <2>1, <2>2
<1>15. Founded(g, G, tops)
  <2> SUFFICES ASSUME NEW R \in SUBSET Cells, Closed(g, R), tops \subseteq R PROVE Live(h, gone) \subseteq R
    BY <1>4 DEF Founded
  <2>1. Closed(h, R)
    BY <1>1, <1>2 DEF Closed
  <2> QED  BY <2>1 DEF Founded
<1>16. NamesInv(g, home)
  BY <1>1, <1>5 DEF NamesInv, HomeInv, Live
<1>17. RefsInv(g, G, fresh)
  <2> SUFFICES ASSUME NEW x \in Live(h, gone), h[x].ref, h[x].child # NULL
               PROVE  /\ x \notin fresh /\ h[x].child \notin fresh
                      /\ \E q \in Cells : Kid(g, q, h[x].child) /\ g[q].type = h[x].type
    BY <1>1, <1>4 DEF RefsInv
  <2>1. PICK q \in Cells : Kid(h, q, h[x].child) /\ h[q].type = h[x].type
    BY DEF RefsInv
  <2>2. q # n
    BY <1>1, <1>2, <2>1 DEF Kid
  <2> QED  BY <1>1, <2>1, <2>2 DEF Kid, RefsInv
<1>18. FreshInv(g, fresh)
  BY <1>6, <1>8 DEF FreshInv
<1> QED  BY <1>10, <1>11, <1>12, <1>13, <1>14, <1>15, <1>16, <1>17, <1>18 DEF g

\* A top becomes the first child of an item without children.
LEMMA SoundWithFirst ==
    ASSUME CellsAssumption, NEW h, NEW gone, NEW home, NEW fresh, NEW tops, NEW open,
           Sound(h, gone, home, fresh, tops, open),
           NEW p \in Live(h, gone), ~h[p].ref, h[p].child = NULL, h[p].type \notin Scalars, p \in open,
           NEW x \in tops, (home[x] = NULL /\ h[x].next = NULL) \/ home[x] = p,
           NEW C \in SUBSET Cells, Closed(h, C), x \in C, p \notin C,
           h[p].type = "object" => h[x].key # NULL, x \in fresh <=> p \in fresh
    PROVE  Sound([h EXCEPT ![p].child = x], gone, [home EXCEPT ![x] = p], fresh, tops \ {x}, open)
<1> USE DEF Sound
<1> DEFINE g == [h EXCEPT ![p].child = x]
           house == [home EXCEPT ![x] = p]
           T == tops \ {x}
<1>1. /\ h \in [Cells -> Items] /\ NULL \notin Cells /\ p \in Cells /\ x \in Cells /\ p # x
      /\ x \in Live(h, gone) /\ home \in [Cells -> Pointers]
  BY DEF Shape, CellsAssumption, Live
<1>2. /\ g \in [Cells -> Items] /\ g[p] = [h[p] EXCEPT !.child = x]
      /\ \A c \in Cells : c # p => g[c] = h[c]
  BY <1>1 DEF Items, Pointers
<1>3. /\ \A c \in Cells : /\ g[c].type = h[c].type /\ g[c].ref = h[c].ref /\ g[c].next = h[c].next
                          /\ g[c].prev = h[c].prev /\ g[c].key = h[c].key
                          /\ g[c].child = IF c = p THEN x ELSE h[c].child
  BY <1>1, <1>2 DEF Items
<1>4. /\ house \in [Cells -> Pointers] /\ house[x] = p
      /\ \A c \in Cells : c # x => house[c] = home[c]
  BY <1>1 DEF Pointers
<1> HIDE DEF g, house
<1>5. Live(g, gone) = Live(h, gone)
  BY <1>3 DEF Live
<1>6. /\ \A q, c \in Cells : Kid(g, q, c) <=> (q = p /\ c = x) \/ Kid(h, q, c)
      /\ \A y \in Cells : h[y].next # x /\ ~Kid(h, y, x)
      /\ \A c \in Cells : ~Kid(h, p, c)
  BY <1>1, <1>3 DEF Kid, TopsInv
<1>7. Shape(g, gone, house, fresh, T, open)
  BY <1>2, <1>4, <1>5 DEF Shape
<1>8. CellsInv(g, gone)
  <2>1. \A c \in Cells : g[c].type = "free" => g[c] = Unused
    BY <1>2, <1>3 DEF CellsInv, Live
  <2>2. \A c \in gone : g[c].type # "free" /\ g[c].ref /\ g[c].next = NULL
    BY <1>3 DEF CellsInv, Shape
  <2>3. \A c \in Live(h, gone) :
            {g[c].next, g[c].prev, g[c].child} \subseteq Live(h, gone) \cup {NULL}
    BY <1>1, <1>3 DEF CellsInv, Live
  <2> QED  BY <1>5, <2>1, <2>2, <2>3 DEF CellsInv
<1>9. HomeInv(g, gone, house)
  <2>1. \A c \in Cells : house[c] # NULL => c \in Live(g, gone) /\ house[c] \in Live(g, gone)
    BY <1>1, <1>4, <1>5 DEF HomeInv
  <2>2. \A q, c \in Cells : Kid(g, q, c) => house[c] = q /\ \A y \in Cells : g[y].next # c
    BY <1>3, <1>4, <1>6 DEF HomeInv
  <2>3. \A y, z \in Cells : g[y].next = z => house[z] = house[y] /\ g[z].prev = y
    BY <1>1, <1>3, <1>4, <1>6 DEF HomeInv
  <2> QED  BY <2>1, <2>2, <2>3 DEF HomeInv
<1>10. TopsInv(g, house, T, open)
  BY <1>1, <1>3, <1>4, <1>6, <1>7 DEF TopsInv, Shape, Live
<1>11. LastInv(g, house, open)
  <2> SUFFICES ASSUME NEW q \in Cells, NEW c \in Cells, Kid(g, q, c), q \notin open
               PROVE  g[c].prev # NULL /\ house[g[c].prev] = q /\ g[g[c].prev].next = NULL
    BY DEF LastInv
  <2>1. Kid(h, q, c) /\ q # p
    BY <1>6
  <2>2. h[c].prev # NULL /\ home[h[c].prev] = q /\ h[h[c].prev].next = NULL /\ h[c].prev \in Cells
    BY <1>1, <2>1, FieldTypes DEF LastInv, Pointers
  <2> QED  BY <1>1, <1>3, <1>4, <2>1, <2>2
<1>12. Founded(g, gone, T)
  <2> SUFFICES ASSUME NEW R \in SUBSET Cells, Closed(g, R), T \subseteq R PROVE Live(h, gone) \subseteq R
    BY <1>5 DEF Founded
  <2>1. Closed(h, R)
    BY <1>1, <1>3 DEF Closed
  <2>2. Closed(h, R \cup C) /\ R \cup C \in SUBSET Cells
    BY <2>1 DEF Closed
  <2>3. p \in R
    BY <2>2 DEF Founded
  <2>4. x \in R
    BY <1>1, <1>3, <2>3 DEF Closed
  <2> QED  BY <2>1, <2>4 DEF Founded
<1>13. NamesInv(g, house)
  BY <1>1, <1>3, <1>4 DEF NamesInv, HomeInv, Live
<1>14. RefsInv(g, gone, fresh)
  <2> SUFFICES ASSUME NEW r \in Live(h, gone), h[r].ref, h[r].child # NULL
               PROVE  /\ r \notin fresh /\ h[r].child \notin fresh
                      /\ \E q \in Cells : Kid(g, q, h[r].child) /\ h[q].type = h[r].type
    BY <1>3, <1>5 DEF RefsInv, Live, Kid
  <2>1. h[r].child \in Cells
    BY <1>1, FieldTypes DEF Live, Pointers
  <2> QED  BY <1>6, <2>1 DEF RefsInv
<1>15. FreshInv(g, fresh)
  BY <1>3, <1>6 DEF FreshInv
<1> QED  BY <1>7, <1>8, <1>9, <1>10, <1>11, <1>12, <1>13, <1>14, <1>15 DEF g, house

\* A top becomes the last item of a list that is open.
LEMMA SoundWithLast ==
    ASSUME CellsAssumption, NEW h, NEW gone, NEW home, NEW fresh, NEW tops, NEW open,
           Sound(h, gone, home, fresh, tops, open),
           NEW l \in Cells, home[l] # NULL, home[l] \in open, h[l].next = NULL,
           NEW x \in tops, home[x] = NULL, h[x].next = NULL,
           NEW C \in SUBSET Cells, Closed(h, C), x \in C, l \notin C,
           h[home[l]].type = "object" => h[x].key # NULL, x \in fresh <=> l \in fresh
    PROVE  Sound(Suffix(h, l, x), gone, [home EXCEPT ![x] = home[l]], fresh, tops \ {x}, open)
<1> USE DEF Sound
<1> DEFINE g == Suffix(h, l, x)
           house == [home EXCEPT ![x] = home[l]]
           T == tops \ {x}
<1>1. /\ h \in [Cells -> Items] /\ NULL \notin Cells /\ x \in Cells /\ l # x
      /\ x \in Live(h, gone) /\ home \in [Cells -> Pointers] /\ l \in Live(h, gone)
      /\ home[l] \in Live(h, gone) /\ home[l] \in Cells
  BY DEF Shape, CellsAssumption, Live, HomeInv
<1>2. g \in [Cells -> Items]
  BY <1>1 DEF Items, Pointers, Suffix
<1>3. /\ \A c \in Cells : /\ g[c].type = h[c].type /\ g[c].ref = h[c].ref /\ g[c].child = h[c].child
                          /\ g[c].key = h[c].key
                          /\ g[c].next = IF c = l THEN x ELSE h[c].next
                          /\ g[c].prev = IF c = x THEN l ELSE h[c].prev
      /\ \A c \in Cells : c # l /\ c # x => g[c] = h[c]
  BY <1>1 DEF Items, Suffix
<1>4. /\ house \in [Cells -> Pointers] /\ house[x] = home[l] /\ house[l] = home[l]
      /\ \A c \in Cells : c # x => house[c] = home[c]
  BY <1>1
<1> HIDE DEF g, house
<1>5. Live(g, gone) = Live(h, gone)
  BY <1>3 DEF Live
<1>6. /\ \A q, c \in Cells : Kid(g, q, c) <=> Kid(h, q, c)
      /\ \A y \in Cells : h[y].next # x /\ ~Kid(h, y, x)
  BY <1>1, <1>3 DEF Kid, TopsInv
<1>7. Shape(g, gone, house, fresh, T, open)
  BY <1>2, <1>4, <1>5 DEF Shape
<1>8. CellsInv(g, gone)
  <2>1. \A c \in Cells : g[c].type = "free" => g[c] = Unused
    BY <1>1, <1>3 DEF CellsInv, Live
  <2>2. \A c \in gone : g[c].type # "free" /\ g[c].ref /\ g[c].next = NULL
    BY <1>1, <1>3 DEF CellsInv, Shape, Live
  <2>3. \A c \in Live(h, gone) :
            {g[c].next, g[c].prev, g[c].child} \subseteq Live(h, gone) \cup {NULL}
    BY <1>1, <1>3 DEF CellsInv, Live
  <2> QED  BY <1>5, <2>1, <2>2, <2>3 DEF CellsInv
<1>9. HomeInv(g, gone, house)
  <2>1. \A c \in Cells : house[c] # NULL => c \in Live(g, gone) /\ house[c] \in Live(g, gone)
    BY <1>1, <1>4, <1>5 DEF HomeInv
  <2>2. \A q, c \in Cells : Kid(g, q, c) => house[c] = q /\ \A y \in Cells : g[y].next # c
    BY <1>3, <1>4, <1>6 DEF HomeInv
  <2>3. \A y, z \in Cells : g[y].next = z => house[z] = house[y] /\ g[z].prev = y
    BY <1>1, <1>3, <1>4, <1>6 DEF HomeInv
  <2> QED  BY <2>1, <2>2, <2>3 DEF HomeInv
<1>10. TopsInv(g, house, T, open)
  BY <1>1, <1>3, <1>4, <1>6, <1>7 DEF TopsInv, Shape, Live
<1>11. LastInv(g, house, open)
  <2> SUFFICES ASSUME NEW q \in Cells, NEW c \in Cells, Kid(g, q, c), q \notin open
               PROVE  g[c].prev # NULL /\ house[g[c].prev] = q /\ g[g[c].prev].next = NULL
    BY DEF LastInv
  <2>1. Kid(h, q, c) /\ c # x
    BY <1>6
  <2>2. h[c].prev # NULL /\ home[h[c].prev] = q /\ h[h[c].prev].next = NULL /\ h[c].prev \in Cells
    BY <1>1, <2>1, FieldTypes DEF LastInv, Pointers
  <2> QED  BY <1>1, <1>3, <1>4, <2>1, <2>2
<1>12. Founded(g, gone, T)
  <2> SUFFICES ASSUME NEW R \in SUBSET Cells, Closed(g, R), T \subseteq R PROVE Live(h, gone) \subseteq R
    BY <1>5 DEF Founded
  <2>1. Closed(h, R)
    BY <1>1, <1>3 DEF Closed
  <2>2. Closed(h, R \cup C) /\ R \cup C \in SUBSET Cells
    BY <2>1 DEF Closed
  <2>3. l \in R
    BY <1>1, <2>2 DEF Founded
  <2>4. x \in R
    BY <1>1, <1>3, <2>3 DEF Closed
  <2> QED  BY <2>1, <2>4 DEF Founded
<1>13. NamesInv(g, house)
  BY <1>1, <1>3, <1>4 DEF NamesInv, HomeInv, Live
<1>14. RefsInv(g, gone, fresh)
  <2> SUFFICES ASSUME NEW r \in Live(h, gone), h[r].ref, h[r].child # NULL
               PROVE  /\ r \notin fresh /\ h[r].child \notin fresh
                      /\ \E q \in Cells : Kid(g, q, h[r].child) /\ h[q].type = h[r].type
    BY <1>3, <1>5 DEF RefsInv, Live, Kid
  <2>1. h[r].child \in Cells
    BY <1>1, FieldTypes DEF Live, Pointers
  <2> QED  BY <1>6, <2>1 DEF RefsInv
<1>15. FreshInv(g, fresh)
  BY <1>3, <1>6 DEF FreshInv
<1> QED  BY <1>7, <1>8, <1>9, <1>10, <1>11, <1>12, <1>13, <1>14, <1>15 DEF g, house

\* A list is closed: its first item is told of the last one.
LEMMA SoundWhenClosed ==
    ASSUME CellsAssumption, NEW h, NEW gone, NEW home, NEW fresh, NEW tops, NEW open, NEW less,
           Sound(h, gone, home, fresh, tops, open),
           NEW p \in Cells, NEW x \in Cells, Kid(h, p, x), \A t \in tops : home[t] # p,
           NEW l \in Cells, home[l] = p, h[l].next = NULL, open \ {p} \subseteq less
    PROVE  Sound([h EXCEPT ![x].prev = l], gone, home, fresh, tops, less)
<1> USE DEF Sound
<1> DEFINE g == [h EXCEPT ![x].prev = l]
<1>1. /\ h \in [Cells -> Items] /\ NULL \notin Cells /\ x \in Live(h, gone) /\ x \notin tops
      /\ home \in [Cells -> Pointers] /\ l \in Live(h, gone) /\ l # NULL /\ p # NULL
      /\ tops \subseteq Cells
  BY DEF Shape, CellsAssumption, Live, HomeInv, TopsInv
<1>2. g \in [Cells -> Items]
  BY <1>1 DEF Items, Pointers
<1>3. /\ \A c \in Cells : /\ g[c].type = h[c].type /\ g[c].ref = h[c].ref /\ g[c].child = h[c].child
                          /\ g[c].key = h[c].key /\ g[c].next = h[c].next
                          /\ g[c].prev = IF c = x THEN l ELSE h[c].prev
      /\ \A c \in Cells : c # x => g[c] = h[c]
  BY <1>1 DEF Items
<1> HIDE DEF g
<1>4. Live(g, gone) = Live(h, gone)
  BY <1>3 DEF Live
<1>5. /\ \A q, c \in Cells : Kid(g, q, c) <=> Kid(h, q, c)
      /\ \A y \in Cells : h[y].next # x
  BY <1>1, <1>3 DEF Kid, HomeInv
<1>6. Shape(g, gone, home, fresh, tops, less)
  BY <1>2, <1>4 DEF Shape
<1>7. CellsInv(g, gone)
  <2>1. \A c \in Cells : g[c].type = "free" => g[c] = Unused
    BY <1>1, <1>3 DEF CellsInv, Live
  <2>2. \A c \in gone : g[c].type # "free" /\ g[c].ref /\ g[c].next = NULL
    BY <1>1, <1>3 DEF CellsInv, Shape, Live
  <2>3. \A c \in Live(h, gone) :
            {g[c].next, g[c].prev, g[c].child} \subseteq Live(h, gone) \cup {NULL}
    BY <1>1, <1>3 DEF CellsInv, Live
  <2> QED  BY <1>4, <2>1, <2>2, <2>3 DEF CellsInv
<1>8. HomeInv(g, gone, home)
  BY <1>3, <1>4, <1>5 DEF HomeInv
<1>9. TopsInv(g, home, tops, less)
  BY <1>1, <1>3, <1>5 DEF TopsInv
<1>10. LastInv(g, home, less)
  <2> SUFFICES ASSUME NEW q \in Cells, NEW c \in Cells, Kid(g, q, c), q \notin less
               PROVE  g[c].prev # NULL /\ home[g[c].prev] = q /\ g[g[c].prev].next = NULL
    BY DEF LastInv
  <2>1. CASE c = x
    BY <1>1, <1>3, <1>5, <2>1 DEF HomeInv
  <2>2. CASE c # x
    <3>1. Kid(h, q, c) /\ q # p
      BY <1>5, <2>2 DEF Kid
    <3>2. h[c].prev # NULL /\ home[h[c].prev] = q /\ h[h[c].prev].next = NULL /\ h[c].prev \in Cells
      BY <1>1, <3>1, FieldTypes DEF LastInv, Pointers
    <3> QED  BY <1>3, <2>2, <3>2
  <2> QED  BY <2>1, <2>2
<1>11. Founded(g, gone, tops)
  <2>1. \A R \in SUBSET Cells : Closed(g, R) <=> Closed(h, R)
    BY <1>3 DEF Closed
  <2> QED  BY <1>4, <2>1 DEF Founded
<1>12. NamesInv(g, home)
  BY <1>1, <1>3 DEF NamesInv, HomeInv, Live
<1>13. RefsInv(g, gone, fresh)
  <2> SUFFICES ASSUME NEW r \in Live(h, gone), h[r].ref, h[r].child # NULL
               PROVE  /\ r \notin fresh /\ h[r].child \notin fresh
                      /\ \E q \in Cells : Kid(g, q, h[r].child) /\ h[q].type = h[r].type
    BY <1>3, <1>4 DEF RefsInv, Live, Kid
  <2>1. h[r].child \in Cells
    BY <1>1, FieldTypes DEF Live, Pointers
  <2> QED  BY <1>5, <2>1 DEF RefsInv
<1>14. FreshInv(g, fresh)
  BY <1>3, <1>5 DEF FreshInv
<1> QED  BY <1>6, <1>7, <1>8, <1>9, <1>10, <1>11, <1>12, <1>13, <1>14 DEF g

\* What is closed is closed without the list of an item that is not in it.
LEMMA ClosedWithoutList ==
    ASSUME CellsAssumption, NEW h, NEW gone, NEW home, NEW fresh, NEW tops, NEW open,
           Sound(h, gone, home, fresh, tops, open),
           NEW C \in SUBSET Cells, Closed(h, C), NEW p \in Cells, p \notin C
    PROVE  Closed(h, {c \in C : home[c] # p})
<1>1. HomeInv(h, gone, home) /\ \A c \in C : h[c].ref \in BOOLEAN
  BY FieldTypes DEF Sound, Shape
<1> QED  BY <1>1 DEF Closed, HomeInv, Kid

\* x comes before the first child a of p.
PutFirst(h, g, p, x, a) ==
    /\ g \in [Cells -> Items]
    /\ \A c \in Cells : /\ g[c].type = h[c].type /\ g[c].ref = h[c].ref /\ g[c].key = h[c].key
                        /\ g[c].next = IF c = x THEN a ELSE h[c].next
                        /\ g[c].prev = IF c = x THEN h[a].prev
                                       ELSE IF c = a THEN x ELSE h[c].prev
                        /\ g[c].child = IF c = p THEN x ELSE h[c].child
    /\ \A c \in Cells \ {x, a, p} : g[c] = h[c]

\* A top is put before the first item of a list.
LEMMA SoundWithNewFirst ==
    ASSUME CellsAssumption, NEW h, NEW gone, NEW home, NEW fresh, NEW tops, NEW open,
           Sound(h, gone, home, fresh, tops, open),
           NEW p \in Cells, NEW a \in Cells, Kid(h, p, a), p \notin open,
           \A r \in Live(h, gone) : h[r].ref => h[r].child # a,
           NEW x \in tops, home[x] = NULL, h[x].next = NULL,
           NEW C \in SUBSET Cells, Closed(h, C), x \in C, p \notin C,
           h[p].type = "object" => h[x].key # NULL, x \in fresh <=> p \in fresh,
           NEW g, PutFirst(h, g, p, x, a)
    PROVE  Sound(g, gone, [home EXCEPT ![x] = p], fresh, tops \ {x}, open)
<1> USE DEF Sound, PutFirst
<1> DEFINE house == [home EXCEPT ![x] = p]
           T == tops \ {x}
<1>1. /\ h \in [Cells -> Items] /\ NULL \notin Cells /\ x \in Cells /\ p # x
      /\ x \in Live(h, gone) /\ home \in [Cells -> Pointers] /\ a \in Live(h, gone) /\ home[a] = p
      /\ p \in Live(h, gone) /\ a # x /\ a \notin tops /\ h[a].prev \in Cells
      /\ home[h[a].prev] = p /\ h[h[a].prev].next = NULL /\ h[p].child = a /\ ~h[p].ref
  BY FieldTypes DEF Shape, CellsAssumption, Live, HomeInv, TopsInv, LastInv, Kid, Pointers
<1>2. /\ house \in [Cells -> Pointers] /\ house[x] = p
      /\ \A c \in Cells : c # x => house[c] = home[c]
  BY <1>1 DEF Pointers
<1> HIDE DEF house
<1>3. Live(g, gone) = Live(h, gone)
  BY DEF Live
<1>4. /\ \A q, c \in Cells : Kid(g, q, c) <=> IF q = p THEN c = x ELSE Kid(h, q, c)
      /\ \A y \in Cells : h[y].next # x /\ h[y].next # a /\ ~Kid(h, y, x)
  BY <1>1 DEF Kid, TopsInv, HomeInv
<1>5. \A y \in Cells : Kid(h, y, a) => y = p
  BY <1>1 DEF HomeInv
<1>6. Shape(g, gone, house, fresh, T, open)
  BY <1>2, <1>3 DEF Shape
<1>7. CellsInv(g, gone)
  <2>1. \A c \in Cells : g[c].type = "free" => g[c] = Unused
    BY <1>1 DEF CellsInv, Live
  <2>2. \A c \in gone : g[c].type # "free" /\ g[c].ref /\ g[c].next = NULL
    BY <1>1 DEF CellsInv, Shape, Live
  <2>3. \A c \in Live(h, gone) :
            {g[c].next, g[c].prev, g[c].child} \subseteq Live(h, gone) \cup {NULL}
    BY <1>1 DEF CellsInv, Live
  <2> QED  BY <1>3, <2>1, <2>2, <2>3 DEF CellsInv
<1>8. HomeInv(g, gone, house)
  <2>1. \A c \in Cells : house[c] # NULL => c \in Live(g, gone) /\ house[c] \in Live(g, gone)
    BY <1>1, <1>2, <1>3 DEF HomeInv
  <2>2. \A q, c \in Cells : Kid(g, q, c) => house[c] = q /\ \A y \in Cells : g[y].next # c
    BY <1>1, <1>2, <1>4, <1>5 DEF HomeInv
  <2>3. \A y, z \in Cells : g[y].next = z => house[z] = house[y] /\ g[z].prev = y
    BY <1>1, <1>2, <1>4 DEF HomeInv
  <2> QED  BY <2>1, <2>2, <2>3 DEF HomeInv
<1>9. TopsInv(g, house, T, open)
  BY <1>1, <1>2, <1>4, <1>6 DEF TopsInv, Shape, Live
<1>10. LastInv(g, house, open)
  <2> SUFFICES ASSUME NEW q \in Cells, NEW c \in Cells, Kid(g, q, c), q \notin open
               PROVE  g[c].prev # NULL /\ house[g[c].prev] = q /\ g[g[c].prev].next = NULL
    BY DEF LastInv
  <2>1. CASE q = p
    BY <1>1, <1>2, <1>4, <2>1
  <2>2. CASE q # p
    <3>1. Kid(h, q, c) /\ c # x /\ c # a
      BY <1>4, <1>5, <2>2
    <3>2. h[c].prev # NULL /\ home[h[c].prev] = q /\ h[h[c].prev].next = NULL /\ h[c].prev \in Cells
      BY <1>1, <3>1, FieldTypes DEF LastInv, Pointers
    <3> QED  BY <1>1, <1>2, <3>1, <3>2
  <2> QED  BY <2>1, <2>2
<1>11. Founded(g, gone, T)
  <2> SUFFICES ASSUME NEW R \in SUBSET Cells, Closed(g, R), T \subseteq R PROVE Live(h, gone) \subseteq R
    BY <1>3 DEF Founded
  <2>1. Closed(h, R)
    BY <1>1 DEF Closed
  <2>2. Closed(h, R \cup C) /\ R \cup C \in SUBSET Cells
    BY <2>1 DEF Closed
  <2>3. p \in R
    BY <1>1, <2>2 DEF Founded
  <2>4. x \in R
    BY <1>1, <2>3 DEF Closed
  <2> QED  BY <2>1, <2>4 DEF Founded
<1>12. NamesInv(g, house)
  BY <1>1, <1>2 DEF NamesInv, HomeInv, Live
<1>13. RefsInv(g, gone, fresh)
  <2> SUFFICES ASSUME NEW r \in Live(h, gone), h[r].ref, h[r].child # NULL
               PROVE  /\ r \notin fresh /\ h[r].child \notin fresh
                      /\ \E q \in Cells : Kid(g, q, h[r].child) /\ h[q].type = h[r].type
    BY <1>1, <1>3 DEF RefsInv, Live, Kid
  <2>1. h[r].child \in Cells /\ h[r].child # a
    BY <1>1, FieldTypes DEF Live, Pointers
  <2>2. PICK q \in Cells : Kid(h, q, h[r].child) /\ h[q].type = h[r].type
    BY DEF RefsInv
  <2> QED  BY <1>1, <1>4, <2>1, <2>2 DEF RefsInv, Kid
<1>14. FreshInv(g, fresh)
  BY <1>1, <1>4 DEF FreshInv
<1> QED  BY <1>6, <1>7, <1>8, <1>9, <1>10, <1>11, <1>12, <1>13, <1>14 DEF house

\* x comes between y and its successor a.
PutBetween(h, g, y, x, a) ==
    /\ g \in [Cells -> Items]
    /\ \A c \in Cells : /\ g[c].type = h[c].type /\ g[c].ref = h[c].ref /\ g[c].key = h[c].key
                        /\ g[c].next = IF c = x THEN a ELSE IF c = y THEN x ELSE h[c].next
                        /\ g[c].prev = IF c = x THEN y ELSE IF c = a THEN x ELSE h[c].prev
                        /\ g[c].child = h[c].child
    /\ \A c \in Cells \ {x, a, y} : g[c] = h[c]

\* A top is put before another item of a list.
LEMMA SoundWithInserted ==
    ASSUME CellsAssumption, NEW h, NEW gone, NEW home, NEW fresh, NEW tops, NEW open,
           Sound(h, gone, home, fresh, tops, open),
           NEW y \in Cells, NEW a \in Cells, h[y].next = a, home[a] # NULL, home[a] \notin open,
           NEW x \in tops, home[x] = NULL, h[x].next = NULL,
           NEW C \in SUBSET Cells, Closed(h, C), x \in C, y \notin C,
           h[home[a]].type = "object" => h[x].key # NULL, x \in fresh <=> y \in fresh,
           NEW g, PutBetween(h, g, y, x, a)
    PROVE  Sound(g, gone, [home EXCEPT ![x] = home[a]], fresh, tops \ {x}, open)
<1> USE DEF Sound, PutBetween
<1> DEFINE house == [home EXCEPT ![x] = home[a]]
           T == tops \ {x}
<1>1. /\ h \in [Cells -> Items] /\ NULL \notin Cells /\ x \in Cells /\ y # x
      /\ x \in Live(h, gone) /\ home \in [Cells -> Pointers] /\ a \in Live(h, gone)
      /\ home[a] \in Live(h, gone) /\ home[a] \in Cells /\ a # x /\ a \notin tops
      /\ home[y] = home[a] /\ y \in Live(h, gone) /\ h[a].prev = y
  BY DEF Shape, CellsAssumption, Live, HomeInv, TopsInv
<1>2. /\ house \in [Cells -> Pointers] /\ house[x] = home[a]
      /\ \A c \in Cells : c # x => house[c] = home[c]
  BY <1>1 DEF Pointers
<1> HIDE DEF house
<1>3. Live(g, gone) = Live(h, gone)
  BY DEF Live
<1>4. /\ \A q, c \in Cells : Kid(g, q, c) <=> Kid(h, q, c)
      /\ \A c \in Cells : h[c].next # x /\ (h[c].next = a => c = y) /\ ~Kid(h, c, x) /\ ~Kid(h, c, a)
  BY <1>1 DEF Kid, TopsInv, HomeInv
<1>5. Shape(g, gone, house, fresh, T, open)
  BY <1>2, <1>3 DEF Shape
<1>6. CellsInv(g, gone)
  <2>1. \A c \in Cells : g[c].type = "free" => g[c] = Unused
    BY <1>1 DEF CellsInv, Live
  <2>2. \A c \in gone : g[c].type # "free" /\ g[c].ref /\ g[c].next = NULL
    BY <1>1 DEF CellsInv, Shape, Live
  <2>3. \A c \in Live(h, gone) :
            {g[c].next, g[c].prev, g[c].child} \subseteq Live(h, gone) \cup {NULL}
    BY <1>1 DEF CellsInv, Live
  <2> QED  BY <1>3, <2>1, <2>2, <2>3 DEF CellsInv
<1>7. HomeInv(g, gone, house)
  <2>1. \A c \in Cells : house[c] # NULL => c \in Live(g, gone) /\ house[c] \in Live(g, gone)
    BY <1>1, <1>2, <1>3 DEF HomeInv
  <2>2. \A q, c \in Cells : Kid(g, q, c) => house[c] = q /\ \A z \in Cells : g[z].next # c
    BY <1>1, <1>2, <1>4 DEF HomeInv
  <2>3. \A c, z \in Cells : g[c].next = z => house[z] = house[c] /\ g[z].prev = c
    BY <1>1, <1>2, <1>4 DEF HomeInv
  <2> QED  BY <2>1, <2>2, <2>3 DEF HomeInv
<1>8. TopsInv(g, house, T, open)
  BY <1>1, <1>2, <1>4, <1>5 DEF TopsInv, Shape, Live
<1>9. LastInv(g, house, open)
  <2> SUFFICES ASSUME NEW q \in Cells, NEW c \in Cells, Kid(g, q, c), q \notin open
               PROVE  g[c].prev # NULL /\ house[g[c].prev] = q /\ g[g[c].prev].next = NULL
    BY DEF LastInv
  <2>1. Kid(h, q, c) /\ c # x /\ c # a
    BY <1>4
  <2>2. h[c].prev # NULL /\ home[h[c].prev] = q /\ h[h[c].prev].next = NULL /\ h[c].prev \in Cells
    BY <1>1, <2>1, FieldTypes DEF LastInv, Pointers
  <2> QED  BY <1>1, <1>2, <2>1, <2>2
<1>10. Founded(g, gone, T)
  <2> SUFFICES ASSUME NEW R \in SUBSET Cells, Closed(g, R), T \subseteq R PROVE Live(h, gone) \subseteq R
    BY <1>3 DEF Founded
  <2>1. Closed(h, R)
    BY <1>1 DEF Closed
  <2>2. Closed(h, R \cup C) /\ R \cup C \in SUBSET Cells
    BY <2>1 DEF Closed
  <2>3. y \in R
    BY <1>1, <2>2 DEF Founded
  <2>4. x \in R
    BY <1>1, <2>3 DEF Closed
  <2> QED  BY <2>1, <2>4 DEF Founded
<1>11. NamesInv(g, house)
  BY <1>1, <1>2, SMTT(30) DEF NamesInv, HomeInv, Live
<1>12. RefsInv(g, gone, fresh)
  <2> SUFFICES ASSUME NEW r \in Live(h, gone), h[r].ref, h[r].child # NULL
               PROVE  /\ r \notin fresh /\ h[r].child \notin fresh
                      /\ \E q \in Cells : Kid(g, q, h[r].child) /\ h[q].type = h[r].type
    BY <1>1, <1>3 DEF RefsInv, Live, Kid
  <2>1. h[r].child \in Cells
    BY <1>1, FieldTypes DEF Live, Pointers
  <2> QED  BY <1>4, <2>1 DEF RefsInv
<1>13. FreshInv(g, fresh)
  BY <1>1, <1>4 DEF FreshInv
<1> QED  BY <1>5, <1>6, <1>7, <1>8, <1>9, <1>10, <1>11, <1>12, <1>13 DEF house

\* The first child x of p goes.
TakeFirst(h, g, p, x) ==
    /\ g \in [Cells -> Items]
    /\ \A c \in Cells : /\ g[c].type = h[c].type /\ g[c].ref = h[c].ref /\ g[c].key = h[c].key
                        /\ g[c].next = IF c = x THEN NULL ELSE h[c].next
                        /\ g[c].prev = IF c = x THEN NULL
                                       ELSE IF c = h[x].next THEN h[x].prev ELSE h[c].prev
                        /\ g[c].child = IF c = p THEN h[x].next ELSE h[c].child
    /\ \A c \in Cells \ {x, h[x].next, p} : g[c] = h[c]

\* The first item of a list becomes a top.
LEMMA SoundWithoutFirst ==
    ASSUME CellsAssumption, NEW h, NEW gone, NEW home, NEW fresh, NEW tops, NEW open,
           Sound(h, gone, home, fresh, tops, open),
           NEW p \in Cells, NEW x \in Cells, Kid(h, p, x), p \notin open,
           \A r \in Live(h, gone) : h[r].ref => h[r].child # x,
           NEW g, TakeFirst(h, g, p, x)
    PROVE  Sound(g, gone, [home EXCEPT ![x] = NULL], fresh, tops \cup {x}, open)
<1> USE DEF Sound, TakeFirst
<1> DEFINE house == [home EXCEPT ![x] = NULL]
           T == tops \cup {x}
           z == h[x].next
<1>1. /\ h \in [Cells -> Items] /\ NULL \notin Cells
      /\ x \in Live(h, gone) /\ home \in [Cells -> Pointers] /\ home[x] = p
      /\ p \in Live(h, gone) /\ x \notin tops /\ h[x].prev \in Cells
      /\ home[h[x].prev] = p /\ h[h[x].prev].next = NULL /\ h[p].child = x /\ ~h[p].ref
      /\ z \in Live(h, gone) \cup {NULL}
  BY FieldTypes DEF Shape, CellsAssumption, Live, HomeInv, TopsInv, LastInv, Kid, Pointers, CellsInv
<1>2. p # x
  BY <1>1, NotUnderItself
<1>3. /\ house \in [Cells -> Pointers] /\ house[x] = NULL
      /\ \A c \in Cells : c # x => house[c] = home[c]
  BY <1>1 DEF Pointers
<1>4. z # NULL => z \in Cells /\ home[z] = p /\ h[z].prev = x /\ z # x /\ z \notin tops
  BY <1>1 DEF HomeInv, Live, TopsInv
<1> HIDE DEF house, z
<1>5. Live(g, gone) = Live(h, gone)
  BY DEF Live
<1>6. /\ \A q, c \in Cells : Kid(g, q, c) <=> IF q = p THEN c = z ELSE Kid(h, q, c)
      /\ \A y \in Cells : h[y].next # x /\ (Kid(h, y, x) => y = p)
      /\ z # NULL => \A y \in Cells : (h[y].next = z => y = x) /\ ~Kid(h, y, z)
  BY <1>1, <1>4 DEF Kid, HomeInv, z
<1>7. Shape(g, gone, house, fresh, T, open)
  BY <1>1, <1>3, <1>5 DEF Shape
<1>8. CellsInv(g, gone)
  <2>1. \A c \in Cells : g[c].type = "free" => g[c] = Unused
    BY <1>1 DEF CellsInv, Live, z
  <2>2. \A c \in gone : g[c].type # "free" /\ g[c].ref /\ g[c].next = NULL
    BY <1>1 DEF CellsInv, Shape, Live
  <2>3. \A c \in Live(h, gone) :
            {g[c].next, g[c].prev, g[c].child} \subseteq Live(h, gone) \cup {NULL}
    BY <1>1 DEF CellsInv, Live, z
  <2> QED  BY <1>5, <2>1, <2>2, <2>3 DEF CellsInv
<1>9. HomeInv(g, gone, house)
  <2>1. \A c \in Cells : house[c] # NULL => c \in Live(g, gone) /\ house[c] \in Live(g, gone)
    BY <1>1, <1>3, <1>5 DEF HomeInv
  <2>2. \A q, c \in Cells : Kid(g, q, c) => house[c] = q /\ \A y \in Cells : g[y].next # c
    BY <1>1, <1>3, <1>4, <1>6 DEF HomeInv
  <2>3. \A y, c \in Cells : g[y].next = c => house[c] = house[y] /\ g[c].prev = y
    BY <1>1, <1>3, <1>4, <1>6 DEF HomeInv, z
  <2> QED  BY <2>1, <2>2, <2>3 DEF HomeInv
<1>10. TopsInv(g, house, T, open)
  BY <1>1, <1>2, <1>3, <1>4, <1>6, <1>7 DEF TopsInv, Shape, Live, z
<1>11. LastInv(g, house, open)
  <2> SUFFICES ASSUME NEW q \in Cells, NEW c \in Cells, Kid(g, q, c), q \notin open
               PROVE  g[c].prev # NULL /\ house[g[c].prev] = q /\ g[g[c].prev].next = NULL
    BY DEF LastInv
  <2>1. CASE q = p
    <3>1. c = z /\ h[x].prev # x
      BY <1>1, <1>4, <1>6, <2>1 DEF z
    <3> QED  BY <1>1, <1>3, <1>4, <2>1, <3>1 DEF z
  <2>2. CASE q # p
    <3>1. Kid(h, q, c) /\ c # x /\ c # z
      BY <1>1, <1>6, <2>2
    <3>2. h[c].prev # NULL /\ home[h[c].prev] = q /\ h[h[c].prev].next = NULL /\ h[c].prev \in Cells
      BY <1>1, <3>1, FieldTypes DEF LastInv, Pointers
    <3> QED  BY <1>1, <1>3, <2>2, <3>1, <3>2 DEF z
  <2> QED  BY <2>1, <2>2
<1>12. Founded(g, gone, T)
  <2> SUFFICES ASSUME NEW R \in SUBSET Cells, Closed(g, R), T \subseteq R PROVE Live(h, gone) \subseteq R
    BY <1>5 DEF Founded
  <2>1. CASE z \in R \cup {NULL}
    <3>1. Closed(h, R)
      BY <1>1, <2>1 DEF Closed, z
    <3> QED  BY <3>1 DEF Founded
  <2>2. CASE z \notin R \cup {NULL}
    <3>1. p \notin R
      BY <1>1, <2>2 DEF Closed, z
    <3>2. Closed(h, R \ {x})
      BY <1>1, <1>6, <3>1 DEF Closed, Kid
    <3> QED  BY <1>1, <3>2 DEF Founded
  <2> QED  BY <2>1, <2>2
<1>13. NamesInv(g, house)
  <2>1. h[p].type \notin Scalars
    BY <1>1 DEF NamesInv
  <2> QED  BY <1>1, <1>3, <2>1 DEF NamesInv, HomeInv, Live
<1>14. RefsInv(g, gone, fresh)
  <2> SUFFICES ASSUME NEW r \in Live(h, gone), h[r].ref, h[r].child # NULL
               PROVE  /\ r \notin fresh /\ h[r].child \notin fresh
                      /\ \E q \in Cells : Kid(g, q, h[r].child) /\ h[q].type = h[r].type
    BY <1>1, <1>5 DEF RefsInv, Live, Kid
  <2>1. h[r].child \in Cells /\ h[r].child # x
    BY <1>1, FieldTypes DEF Live, Pointers
  <2>2. PICK q \in Cells : Kid(h, q, h[r].child) /\ h[q].type = h[r].type
    BY DEF RefsInv
  <2> QED  BY <1>1, <1>6, <2>1, <2>2 DEF RefsInv, Kid
<1>15. FreshInv(g, fresh)
  <2>1. z # NULL => (x \in fresh <=> z \in fresh)
    BY <1>4 DEF FreshInv, z
  <2> QED  BY <1>1, <1>4, <1>6, <2>1 DEF FreshInv
<1> QED  BY <1>7, <1>8, <1>9, <1>10, <1>11, <1>12, <1>13, <1>14, <1>15 DEF house

\* x, which follows y in the list that starts with f, goes.
TakeAfter(h, g, f, y, x) ==
    /\ g \in [Cells -> Items]
    /\ \A c \in Cells : /\ g[c].type = h[c].type /\ g[c].ref = h[c].ref /\ g[c].key = h[c].key
                        /\ g[c].next = IF c = x THEN NULL
                                       ELSE IF c = y THEN h[x].next ELSE h[c].next
                        /\ g[c].prev = IF c = x THEN NULL
                                       ELSE IF c = h[x].next THEN y
                                       ELSE IF c = f /\ h[x].next = NULL THEN y ELSE h[c].prev
                        /\ g[c].child = h[c].child
    /\ \A c \in Cells \ {x, h[x].next, y, f} : g[c] = h[c]

\* Another item of a list, whose first item is f, becomes a top.
LEMMA SoundWithoutItem ==
    ASSUME CellsAssumption, NEW h, NEW gone, NEW home, NEW fresh, NEW tops, NEW open,
           Sound(h, gone, home, fresh, tops, open),
           NEW p \in Cells, NEW f \in Cells, Kid(h, p, f), p \notin open,
           NEW x \in Cells, home[x] = p, NEW y \in Cells, h[y].next = x,
           NEW g, TakeAfter(h, g, f, y, x)
    PROVE  Sound(g, gone, [home EXCEPT ![x] = NULL], fresh, tops \cup {x}, open)
<1> USE DEF Sound, TakeAfter
<1> DEFINE house == [home EXCEPT ![x] = NULL]
           T == tops \cup {x}
           z == h[x].next
<1>1. /\ h \in [Cells -> Items] /\ NULL \notin Cells
      /\ x \in Live(h, gone) /\ home \in [Cells -> Pointers]
      /\ p \in Live(h, gone) /\ x \notin tops /\ h[f].prev \in Cells
      /\ home[h[f].prev] = p /\ h[h[f].prev].next = NULL
      /\ z \in Live(h, gone) \cup {NULL} /\ home[y] = p /\ home[f] = p /\ f # x
      /\ y \in Live(h, gone) /\ h[x].prev = y /\ f \in Live(h, gone) /\ f \notin tops
  BY FieldTypes DEF Shape, CellsAssumption, Live, HomeInv, TopsInv, LastInv, Kid, Pointers, CellsInv
<1>2. y # x
  <2> SUFFICES ASSUME y = x PROVE FALSE
    OBVIOUS
  <2> DEFINE N == {x}
  <2>1. N \in SUBSET Cells /\ tops \subseteq Cells /\ (\A c \in N : c \notin tops) /\ \A c \in N, d \in Cells : Owns(h, d, c) => d \in N
    BY <1>1 DEF HomeInv, Owns, Shape, Live
  <2> HIDE DEF N
  <2>2. \A c \in N : c \notin Live(h, gone)
    BY <1>1, <2>1, Backward
  <2> QED  BY <1>1, <2>2 DEF N
<1>3. /\ house \in [Cells -> Pointers] /\ house[x] = NULL
      /\ \A c \in Cells : c # x => house[c] = home[c]
  BY <1>1 DEF Pointers
<1>4. z # NULL => z \in Cells /\ home[z] = p /\ h[z].prev = x /\ z # x /\ z \notin tops /\ z # f
  BY <1>1, <1>2 DEF HomeInv, Live, TopsInv
<1> HIDE DEF house, z
<1>5. Live(g, gone) = Live(h, gone)
  BY DEF Live
<1>6. /\ \A q, c \in Cells : Kid(g, q, c) <=> Kid(h, q, c)
      /\ \A c \in Cells : (h[c].next = x => c = y) /\ ~Kid(h, c, x)
      /\ z # NULL => \A c \in Cells : (h[c].next = z => c = x) /\ ~Kid(h, c, z)
      /\ \A c \in Cells : h[c].next # f /\ (Kid(h, c, f) => c = p)
  BY <1>1, <1>4 DEF Kid, HomeInv, z
<1>7. Shape(g, gone, house, fresh, T, open)
  BY <1>1, <1>3, <1>5 DEF Shape
<1>8. CellsInv(g, gone)
  <2>1. \A c \in Cells : g[c].type = "free" => g[c] = Unused
    BY <1>1 DEF CellsInv, Live, z
  <2>2. \A c \in gone : g[c].type # "free" /\ g[c].ref /\ g[c].next = NULL
    BY <1>1 DEF CellsInv, Shape, Live
  <2>3. \A c \in Live(h, gone) :
            {g[c].next, g[c].prev, g[c].child} \subseteq Live(h, gone) \cup {NULL}
    BY <1>1 DEF CellsInv, Live, z
  <2> QED  BY <1>5, <2>1, <2>2, <2>3 DEF CellsInv
<1>9. HomeInv(g, gone, house)
  <2>1. \A c \in Cells : house[c] # NULL => c \in Live(g, gone) /\ house[c] \in Live(g, gone)
    BY <1>1, <1>3, <1>5 DEF HomeInv
  <2>2. \A q, c \in Cells : Kid(g, q, c) => house[c] = q /\ \A d \in Cells : g[d].next # c
    BY <1>1, <1>3, <1>4, <1>6 DEF HomeInv, z
  <2>3. \A d, c \in Cells : g[d].next = c => house[c] = house[d] /\ g[c].prev = d
    BY <1>1, <1>2, <1>3, <1>4, <1>6 DEF HomeInv, z
  <2> QED  BY <2>1, <2>2, <2>3 DEF HomeInv
<1>10. TopsInv(g, house, T, open)
  BY <1>1, <1>2, <1>3, <1>4, <1>6, <1>7 DEF TopsInv, Shape, Live, z
<1>11. LastInv(g, house, open)
  <2> SUFFICES ASSUME NEW q \in Cells, NEW c \in Cells, Kid(g, q, c), q \notin open
               PROVE  g[c].prev # NULL /\ house[g[c].prev] = q /\ g[g[c].prev].next = NULL
    BY DEF LastInv
  <2>1. Kid(h, q, c) /\ c # x /\ c # z
    BY <1>6
  <2>2. h[c].prev # NULL /\ home[h[c].prev] = q /\ h[h[c].prev].next = NULL /\ h[c].prev \in Cells
    BY <1>1, <2>1, FieldTypes DEF LastInv, Pointers
  <2>3. h[c].prev # y
    BY <1>1, <2>2
  <2>4. CASE z = NULL /\ c = f
    <3>1. g[c].prev = y /\ g[y].next = NULL /\ q = p
      BY <1>2, <1>6, <2>1, <2>4 DEF z
    <3> QED  BY <1>1, <1>2, <1>3, <3>1
  <2>5. CASE z # NULL
    <3>1. g[c].prev = h[c].prev /\ h[c].prev # x
      BY <2>1, <2>2, <2>5 DEF z
    <3> QED  BY <1>3, <2>2, <2>3, <3>1
  <2>6. CASE c # f
    <3>1. q # p
      BY <2>1, <2>6 DEF Kid
    <3>2. g[c].prev = h[c].prev /\ h[c].prev # x
      BY <2>1, <2>2, <2>6, <3>1 DEF z
    <3> QED  BY <1>3, <2>2, <2>3, <3>2
  <2> QED  BY <2>4, <2>5, <2>6
<1>12. Founded(g, gone, T)
  <2> SUFFICES ASSUME NEW R \in SUBSET Cells, Closed(g, R), T \subseteq R PROVE Live(h, gone) \subseteq R
    BY <1>5 DEF Founded
  <2>1. CASE z \in R \cup {NULL}
    <3>1. Closed(h, R)
      BY <1>1, <2>1 DEF Closed, z
    <3> QED  BY <3>1 DEF Founded
  <2>2. CASE z \notin R \cup {NULL}
    <3>1. y \notin R
      BY <1>1, <1>2, <2>2 DEF Closed, z
    <3>2. Closed(h, R \ {x})
      BY <1>1, <1>6, <3>1 DEF Closed, Kid
    <3> QED  BY <1>1, <3>2 DEF Founded
  <2> QED  BY <2>1, <2>2
<1>13. NamesInv(g, house)
  BY <1>1, <1>3, SMTT(30) DEF NamesInv, HomeInv, Live
<1>14. RefsInv(g, gone, fresh)
  <2> SUFFICES ASSUME NEW r \in Live(h, gone), h[r].ref, h[r].child # NULL
               PROVE  /\ r \notin fresh /\ h[r].child \notin fresh
                      /\ \E q \in Cells : Kid(g, q, h[r].child) /\ h[q].type = h[r].type
    BY <1>1, <1>5 DEF RefsInv, Live, Kid
  <2>1. h[r].child \in Cells
    BY <1>1, FieldTypes DEF Live, Pointers
  <2> QED  BY <1>6, <2>1 DEF RefsInv
<1>15. FreshInv(g, fresh)
  <2>1. (z # NULL => (x \in fresh <=> z \in fresh)) /\ (y \in fresh <=> x \in fresh)
    BY <1>4 DEF FreshInv, z
  <2> QED  BY <1>1, <1>2, <1>4, <1>6, <2>1 DEF FreshInv, z
<1> QED  BY <1>7, <1>8, <1>9, <1>10, <1>11, <1>12, <1>13, <1>14, <1>15 DEF house

\* F is the tree of x and no part of another.
Whole(h, gone, home, tops, x, F) ==
    /\ F \subseteq Live(h, gone) /\ x \in F /\ \A t \in tops : t # x => t \notin F
    /\ \A c \in Cells : home[c] # NULL /\ home[c] \in F => c \in F
    /\ \A y, z \in Cells : Owns(h, y, z) => (y \in F => z \in F) /\ (z \in F => y \in F \/ z = x)

\* A top is deleted, with what it owns.
LEMMA SoundWithoutTree ==
    ASSUME CellsAssumption, NEW h, NEW gone, NEW home, NEW fresh, NEW tops, NEW open,
           Sound(h, gone, home, fresh, tops, open),
           NEW x \in tops, NEW F, F = Reach(h, {x}, FALSE),
           \A r \in Live(h, gone) : h[r].ref /\ r \notin F => h[r].child \notin F,
           \A t \in tops : t # x => home[t] \notin F,
           \A p \in open, c \in Cells : Kid(h, p, c) => h[c].prev = NULL
    PROVE  /\ Sound(Delete(h, x), gone, [c \in Cells |-> IF c \in F THEN NULL ELSE home[c]],
                    fresh \ F, tops \ {x}, open)
           /\ Whole(h, gone, home, tops, x, F)
<1> USE DEF Sound
<1> DEFINE g == Delete(h, x)
           house == [c \in Cells |-> IF c \in F THEN NULL ELSE home[c]]
           T == tops \ {x}
           X == {x}
<1>1. /\ h \in [Cells -> Items] /\ NULL \notin Cells /\ x \in Live(h, gone) /\ x \in Cells
      /\ home \in [Cells -> Pointers] /\ tops \subseteq Live(h, gone) /\ tops \subseteq Cells
      /\ gone \subseteq Cells
  BY DEF Shape, CellsAssumption, Live
<1>2. F \in SUBSET Cells /\ x \in F /\ Closed(h, F)
       /\ \A Q \in SUBSET Cells : x \in Q /\ Closed(h, Q) => F \subseteq Q
  <2>1. F = Reach(h, X, FALSE) /\ X \in SUBSET Pointers /\ X \ {NULL} = X
    BY <1>1 DEF Pointers
  <2> HIDE DEF X
  <2>2. /\ Reach(h, X, FALSE) \in SUBSET Cells /\ X \ {NULL} \subseteq Reach(h, X, FALSE)
        /\ Closed(h, Reach(h, X, FALSE))
        /\ \A Q \in SUBSET Cells : X \ {NULL} \subseteq Q /\ Closed(h, Q) => Reach(h, X, FALSE) \subseteq Q
    BY <1>1, <2>1, OwnedFacts
  <2> QED  BY <2>1, <2>2 DEF X
<1>3. F \in SUBSET Cells /\ x \in F /\ Closed(h, F)
  BY <1>2
<1>4. \A y \in F : y # x => \E z \in F : Owns(h, z, y)
  <2>1. F = Reach(h, X, FALSE) /\ X \in SUBSET Pointers
    BY <1>1 DEF Pointers
  <2>2. \A y : y # x => y \notin X
    OBVIOUS
  <2> HIDE DEF X
  <2>3. \A y \in Reach(h, X, FALSE) : y \notin X => \E z \in Reach(h, X, FALSE) : Owns(h, z, y)
    BY <1>1, <2>1, ReachedFromOwner
  <2> QED  BY <2>1, <2>2, <2>3
<1>5. /\ g = [c \in Cells |-> IF c \in F THEN Unused ELSE h[c]]
      /\ Unused.type = "free" /\ Unused.next = NULL /\ Unused.prev = NULL /\ Unused.child = NULL
      /\ Unused \in Items /\ ~Unused.ref
  BY DEF Delete, Unused, Blank, Items, Pointers, Types
<1> HIDE DEF g
<1>6. F \subseteq Live(h, gone)
  <2>1. Closed(h, Live(h, gone)) /\ Live(h, gone) \in SUBSET Cells
    BY DEF CellsInv, Closed, Live
  <2> QED  BY <1>1, <1>2, <2>1
<1>7. \A t \in tops : t # x => t \notin F
  BY <1>1, <1>3, <1>4 DEF TopsInv, Owns
<1>8. \A y, z \in Cells : Owns(h, y, z) => (y \in F => z \in F) /\ (z \in F => y \in F \/ z = x)
  <2> SUFFICES ASSUME NEW y \in Cells, NEW z \in Cells, Owns(h, y, z)
               PROVE  (y \in F => z \in F) /\ (z \in F => y \in F \/ z = x)
    OBVIOUS
  <2>1. y \in F => z \in F
    BY <1>1, <1>3, ZenonT(60) DEF Closed, Owns, Kid
  <2>2. z \in F /\ z # x => y \in F
    BY <1>3, <1>4, OneOwner, ZenonT(60)
  <2> QED  BY <2>1, <2>2
<1>9. \A y \in Cells : ~Owns(h, y, x)
  BY DEF TopsInv, Owns
<1>10. ASSUME NEW c \in Cells, home[c] # NULL, home[c] \in F PROVE c \in F
  <2> SUFFICES ASSUME c \notin F PROVE FALSE
    OBVIOUS
  <2> DEFINE N == {y \in Cells : home[y] = home[c] /\ y \notin F}
  <2>1. \A y \in N : y \notin tops
    BY <1>3, <1>10
  <2>2. ASSUME NEW y \in N, NEW z \in Cells, Owns(h, z, y) PROVE z \in N
    <3>1. z \notin F
      BY <1>8, <2>2
    <3>2. y \in Cells /\ home[y] = home[c]
      OBVIOUS
    <3>3. ~Kid(h, z, y)
      <4>1. Kid(h, z, y) => home[y] = z
        BY <3>2 DEF HomeInv
      <4> QED  BY <1>10, <3>1, <3>2, <4>1
    <3> QED  BY <2>2, <3>1, <3>3 DEF Owns, HomeInv
  <2>3. \A y \in N : y \notin Live(h, gone)
    BY <1>1, <2>1, <2>2, Backward
  <2> QED  BY <1>10, <2>3 DEF HomeInv
<1>11. ASSUME NEW p \in Cells, p \notin F, p \notin open, NEW l \in Cells, home[l] = p PROVE l \notin F
  <2> SUFFICES ASSUME l \in F PROVE FALSE
    OBVIOUS
  <2> DEFINE N == {y \in F : home[y] = p}
  <2>1. \A y \in N : y \notin tops
    BY <1>1, <1>11 DEF TopsInv
  <2>2. ASSUME NEW y \in N, NEW z \in Cells, Owns(h, z, y) PROVE z \in N
    <3>1. z \in F /\ y \in Cells
      BY <1>3, <1>8, <1>9, <2>2
    <3>2. home[y] = p
      OBVIOUS
    <3>3. ~Kid(h, z, y)
      <4>1. Kid(h, z, y) => home[y] = z
        BY <3>1 DEF HomeInv
      <4> QED  BY <1>11, <3>1, <3>2, <4>1
    <3> QED  BY <2>2, <3>1, <3>3 DEF Owns, HomeInv
  <2>3. N \in SUBSET Cells
    BY <1>3
  <2>4. \A y \in N : y \notin Live(h, gone)
    BY <1>1, <2>1, <2>2, <2>3, Backward
  <2> QED  BY <1>6, <1>11, <2>4
<1>12. ASSUME NEW y \in Live(h, gone), y \notin F PROVE h[y].prev \notin F
  <2>1. y \in Cells
    BY DEF Live
  <2>2. CASE y \in tops
    BY <1>1, <1>3, <2>2 DEF TopsInv
  <2>3. CASE y \notin tops
    <3>1. PICK z \in Cells : Owns(h, z, y)
      BY <2>3, HasOwner
    <3>2. z \notin F
      BY <1>8, <1>12, <2>1, <3>1
    <3>3. CASE h[z].next = y
      <4>1. h[y].prev = z
        BY <2>1, <3>3 DEF HomeInv
      <4> QED  BY <3>2, <4>1
    <3>4. CASE Kid(h, z, y) /\ z \in open
      <4>1. h[y].prev = NULL
        BY <2>1, <3>4
      <4> QED  BY <1>1, <1>3, <4>1
    <3>5. CASE Kid(h, z, y) /\ z \notin open
      <4>1. h[y].prev # NULL /\ home[h[y].prev] = z
        BY <2>1, <3>5 DEF LastInv
      <4> QED  BY <1>1, <1>11, <2>1, <3>2, <3>5, <4>1, FieldTypes DEF Pointers
    <3> QED  BY <3>1, <3>3, <3>4, <3>5 DEF Owns
  <2> QED  BY <2>2, <2>3
<1>13. /\ house \in [Cells -> Pointers]
       /\ \A c \in Cells : house[c] = IF c \in F THEN NULL ELSE home[c]
       /\ \A c \in Cells : house[c] # NULL => c \notin F /\ house[c] = home[c] /\ home[c] \notin F
  BY <1>1, <1>10 DEF Pointers
<1> HIDE DEF house
<1>14. Live(g, gone) = Live(h, gone) \ F
  BY <1>5 DEF Live
<1>15. /\ \A q, c \in Cells : Kid(g, q, c) <=> Kid(h, q, c) /\ q \notin F
       /\ \A q, c \in Cells : g[q].next = c <=> h[q].next = c /\ q \notin F
       /\ \A c \in Cells : c \in gone => c \notin F
  BY <1>1, <1>5, <1>6 DEF Kid, Live
<1>16. \A q, c \in Cells : Owns(h, q, c) /\ q \notin F => c \notin F
  BY <1>8, <1>9
<1>17. Shape(g, gone, house, fresh \ F, T, open)
  <2>1. g \in [Cells -> Items]
    BY <1>1, <1>5
  <2> QED  BY <1>1, <1>7, <1>13, <1>14, <2>1 DEF Shape
<1>18. CellsInv(g, gone)
  <2>1. \A c \in Cells : g[c].type = "free" => g[c] = Unused
    BY <1>5 DEF CellsInv
  <2>2. \A c \in gone : g[c].type # "free" /\ g[c].ref /\ g[c].next = NULL
    BY <1>1, <1>5, <1>15 DEF CellsInv
  <2>3. ASSUME NEW c \in Live(h, gone) \ F
        PROVE  {g[c].next, g[c].prev, g[c].child} \subseteq (Live(h, gone) \ F) \cup {NULL}
    <3>1. c \in Cells /\ g[c] = h[c]
      BY <1>5, <2>3 DEF Live
    <3>2. h[c].next \notin F
      BY <1>3, <1>16, <2>3, <3>1 DEF Owns
    <3>3. h[c].child \notin F
      <4>1. CASE h[c].ref
        BY <2>3, <4>1
      <4>2. CASE ~h[c].ref
        BY <1>3, <1>16, <2>3, <3>1, <4>2 DEF Owns, Kid
      <4> QED  BY <4>1, <4>2
    <3>4. {h[c].next, h[c].prev, h[c].child} \subseteq Live(h, gone) \cup {NULL}
      BY <2>3 DEF CellsInv
    <3> QED  BY <1>12, <2>3, <3>1, <3>2, <3>3, <3>4
  <2> QED  BY <1>14, <2>1, <2>2, <2>3 DEF CellsInv
<1>19. HomeInv(g, gone, house)
  <2>1. \A c \in Cells : house[c] # NULL => c \in Live(g, gone) /\ house[c] \in Live(g, gone)
    BY <1>13, <1>14 DEF HomeInv
  <2>2. ASSUME NEW q \in Cells, NEW c \in Cells, Kid(g, q, c)
        PROVE  house[c] = q /\ \A y \in Cells : g[y].next # c
    <3>1. Kid(h, q, c) /\ c \notin F
      BY <1>15, <1>16, <2>2 DEF Owns
    <3>2. home[c] = q /\ \A y \in Cells : h[y].next # c
      BY <3>1 DEF HomeInv
    <3> QED  BY <1>13, <1>15, <3>1, <3>2
  <2>3. ASSUME NEW y \in Cells, NEW z \in Cells, g[y].next = z
        PROVE  house[z] = house[y] /\ g[z].prev = y
    <3>1. h[y].next = z /\ y \notin F /\ z \notin F
      BY <1>15, <1>16, <2>3 DEF Owns
    <3>2. home[z] = home[y] /\ h[z].prev = y
      BY <3>1 DEF HomeInv
    <3> QED  BY <1>5, <1>13, <3>1, <3>2
  <2> QED  BY <2>1, <2>2, <2>3 DEF HomeInv
<1>20. TopsInv(g, house, T, open)
  BY <1>1, <1>5, <1>7, <1>13, <1>15 DEF TopsInv
<1>21. LastInv(g, house, open)
  <2> SUFFICES ASSUME NEW q \in Cells, NEW c \in Cells, Kid(g, q, c), q \notin open
               PROVE  g[c].prev # NULL /\ house[g[c].prev] = q /\ g[g[c].prev].next = NULL
    BY DEF LastInv
  <2>1. Kid(h, q, c) /\ q \notin F /\ c \notin F
    BY <1>15, <1>16 DEF Owns
  <2>2. h[c].prev # NULL /\ home[h[c].prev] = q /\ h[h[c].prev].next = NULL /\ h[c].prev \in Cells
    BY <1>1, <2>1, FieldTypes DEF LastInv, Pointers
  <2>3. h[c].prev \notin F
    BY <1>11, <2>1, <2>2
  <2> QED  BY <1>5, <1>13, <2>1, <2>2, <2>3
<1>22. Founded(g, gone, T)
  <2> SUFFICES ASSUME NEW R \in SUBSET Cells, Closed(g, R), T \subseteq R PROVE Live(h, gone) \ F \subseteq R
    BY <1>14 DEF Founded
  <2>1. Closed(h, R \cup F) /\ R \cup F \in SUBSET Cells
    BY <1>3, <1>5 DEF Closed
  <2>2. tops \subseteq R \cup F
    BY <1>3
  <2>3. Live(h, gone) \subseteq R \cup F
    BY <2>1, <2>2 DEF Founded
  <2> QED  BY <2>3
<1>23. NamesInv(g, house)
  <2>1. \A c \in Cells : house[c] # NULL => home[c] \in Cells
    BY <1>1, <1>13 DEF Pointers
  <2> QED  BY <1>5, <1>13, <2>1 DEF NamesInv
<1>24. RefsInv(g, gone, fresh \ F)
  <2> SUFFICES ASSUME NEW r \in Live(h, gone), r \notin F, h[r].ref, h[r].child # NULL
               PROVE  /\ r \notin fresh /\ h[r].child \notin fresh
                      /\ \E q \in Cells : Kid(g, q, h[r].child) /\ g[q].type = h[r].type
    BY <1>5, <1>14 DEF RefsInv, Live
  <2>1. h[r].child \in Cells /\ h[r].child \notin F
    BY <1>1, FieldTypes DEF Live, Pointers
  <2>2. PICK q \in Cells : Kid(h, q, h[r].child) /\ h[q].type = h[r].type
    BY DEF RefsInv
  <2>3. q \notin F
    BY <1>8, <2>1, <2>2 DEF Owns
  <2> QED  BY <1>5, <1>15, <2>1, <2>2, <2>3 DEF RefsInv
<1>25. FreshInv(g, fresh \ F)
  BY <1>15, <1>16 DEF FreshInv, Owns
<1>26. Whole(h, gone, home, tops, x, F)
  BY <1>3, <1>6, <1>7, <1>8, <1>10 DEF Whole
<1> QED  BY <1>17, <1>18, <1>19, <1>20, <1>21, <1>22, <1>23, <1>24, <1>25, <1>26 DEF g, house

-----------------------------------------------------------------------------
(* The calls on lists.                                                       *)

\* What get_array_item and get_object_item find is a child.
LEMMA ChildrenAreList ==
    ASSUME CellsAssumption, NEW h, NEW gone, NEW home, NEW fresh, NEW tops, NEW open,
           Sound(h, gone, home, fresh, tops, open), NEW p \in Cells, ~h[p].ref
    PROVE  /\ h[p].child = NULL => Children(h, p) = <<>>
           /\ h[p].child # NULL => /\ h[p].child \in Cells /\ Kid(h, p, h[p].child)
                                   /\ home[h[p].child] = p
                                   /\ IsList(h, home, h[p].child, Children(h, p))
           /\ Children(h, p) \in Seq(Cells)
           /\ \A j \in 1 .. Len(Children(h, p)) : home[Children(h, p)[j]] = p
<1>1. h \in [Cells -> Items] /\ NULL \notin Cells /\ HomeInv(h, gone, home)
  BY DEF Sound, Shape, CellsAssumption
<1>2. CASE h[p].child = NULL
  <2>1. Children(h, p) = <<>>
    BY <1>2, ChainIsList DEF Children
  <2>2. <<>> \in Seq(Cells) /\ 1 .. Len(<<>>) = {}
    OBVIOUS
  <2> QED  BY <1>2, <2>1, <2>2
<1>3. CASE h[p].child # NULL
  <2>1. h[p].child \in Cells /\ Kid(h, p, h[p].child)
    BY <1>1, <1>3, FieldTypes DEF Pointers, Kid
  <2>2. home[h[p].child] = p
    BY <1>1, <2>1 DEF HomeInv
  <2>3. IsList(h, home, h[p].child, Children(h, p))
    BY <2>1, ChainIsList DEF Children
  <2> QED  BY <1>3, <2>1, <2>2, <2>3 DEF IsList
<1> QED  BY <1>2, <1>3

\* get_array_item and get_object_item return children of the item they are given.
LEMMA ItemsAreFound ==
    ASSUME CellsAssumption, NEW h, NEW gone, NEW home, NEW fresh, NEW tops, NEW open,
           Sound(h, gone, home, fresh, tops, open), NEW p \in Cells, ~h[p].ref
    PROVE  /\ \A index \in Nat : LET x == ArrayItem(h, p, index) IN
                  x # NULL => x \in Cells /\ home[x] = p /\ h[p].child # NULL
           /\ \A key, sensitive : LET x == ObjectItem(h, p, key, sensitive) IN
                  x # NULL => x \in Cells /\ home[x] = p /\ h[p].child # NULL
<1> DEFINE s == Children(h, p)
<1>1. s \in Seq(Cells) /\ \A j \in 1 .. Len(s) : s[j] \in Cells /\ home[s[j]] = p /\ h[p].child # NULL
  BY ChildrenAreList
<1>2. \A index \in Nat : LET x == ArrayItem(h, p, index) IN
          x # NULL => x \in Cells /\ home[x] = p /\ h[p].child # NULL
  <2> TAKE index \in Nat
  <2> HIDE DEF s
  <2>1. CASE index < Len(s)
    <3>1. index + 1 \in 1 .. Len(s)
      BY <1>1, <2>1
    <3> QED  BY <1>1, <2>1, <3>1 DEF ArrayItem, s
  <2>2. CASE ~(index < Len(s))
    BY <2>2 DEF ArrayItem, s
  <2> QED  BY <2>1, <2>2
<1>3. ASSUME NEW key, NEW sensitive
      PROVE  LET x == ObjectItem(h, p, key, sensitive) IN
                 x # NULL => x \in Cells /\ home[x] = p /\ h[p].child # NULL
  <2> DEFINE Stops(i) == \/ SameName(key, h[s[i]].key, sensitive)
                         \/ sensitive /\ h[s[i]].key = NULL
             First == {i \in 1 .. Len(s) : Stops(i) /\ \A j \in 1 .. i - 1 : ~Stops(j)}
             k == CHOOSE i \in First : TRUE
  <2>1. ObjectItem(h, p, key, sensitive) =
            IF key = NULL \/ First = {} THEN NULL
            ELSE IF h[s[k]].key = NULL THEN NULL ELSE s[k]
    BY DEF ObjectItem
  <2>2. First # {} => k \in First
    OBVIOUS
  <2>3. First \subseteq 1 .. Len(s)
    OBVIOUS
  <2> HIDE DEF First, k, s
  <2> QED  BY <1>1, <2>1, <2>2, <2>3
<1> QED  BY <1>2, <1>3

\* The work of a call is whole lists.
LEMMA FreshIsWhole ==
    ASSUME CellsAssumption, NEW h, NEW gone, NEW home, NEW fresh, NEW tops, NEW open,
           Sound(h, gone, home, fresh, tops, open),
           NEW p \in Cells, p \notin open, NEW x \in Cells, home[x] = p
    PROVE  x \in fresh <=> p \in fresh
<1> USE DEF Sound
<1> DEFINE N == {y \in Cells : home[y] = p /\ ~(y \in fresh <=> p \in fresh)}
<1>1. h \in [Cells -> Items] /\ NULL \notin Cells /\ tops \subseteq Cells
  BY DEF Shape, CellsAssumption, Live
<1>2. \A y \in N : y \notin tops
  BY <1>1 DEF TopsInv
<1>3. ASSUME NEW y \in N, NEW z \in Cells, Owns(h, z, y) PROVE z \in N
  <2>1. y \in Cells /\ home[y] = p /\ ~(y \in fresh <=> p \in fresh) /\ (z \in fresh <=> y \in fresh)
    BY <1>3 DEF FreshInv, Owns
  <2>2. Kid(h, z, y) => home[y] = z
    BY <2>1 DEF HomeInv
  <2> QED  BY <1>3, <2>1, <2>2 DEF Owns, HomeInv
<1>4. \A y \in N : y \notin Live(h, gone)
  BY <1>1, <1>2, <1>3, Backward
<1> QED  BY <1>1, <1>4 DEF HomeInv

\* An item that can have children, and a tree that may become one of them.
Parent(h, gone, p) == p \in Live(h, gone) /\ ~h[p].ref /\ h[p].type \notin Scalars
Joins(h, home, fresh, tops, p, x) ==
    /\ x \in tops /\ home[x] = NULL /\ h[x].next = NULL
    /\ \E C \in SUBSET Cells : Closed(h, C) /\ x \in C /\ p \notin C
    /\ h[p].type = "object" => h[x].key # NULL
    /\ x \in fresh <=> p \in fresh
\* No reference leads to x.
Unreferenced(h, gone, x) == \A r \in Live(h, gone) : h[r].ref => h[r].child # x

\* add_item_to_array
LEMMA AddKeepsSound ==
    ASSUME CellsAssumption, NEW h, NEW gone, NEW home, NEW fresh, NEW tops, NEW open,
           Sound(h, gone, home, fresh, tops, open),
           NEW p, Parent(h, gone, p), p \notin open, NEW x, Joins(h, home, fresh, tops, p, x)
    PROVE  Sound(AddToArray(h, p, x), gone, [home EXCEPT ![x] = p], fresh, tops \ {x}, open)
<1> DEFINE more == open \cup {p}
           house == [home EXCEPT ![x] = p]
<1>1. /\ h \in [Cells -> Items] /\ home \in [Cells -> Pointers] /\ NULL \notin Cells
      /\ p \in Cells /\ p \in Live(h, gone) /\ x \in tops /\ x \in Cells /\ tops \subseteq Cells
      /\ ~h[p].ref /\ h[p].type \notin Scalars
      /\ home[x] = NULL /\ h[x].next = NULL /\ (h[p].type = "object" => h[x].key # NULL)
      /\ x \in fresh <=> p \in fresh
  BY DEF Sound, Shape, CellsAssumption, Live, Parent, Joins
<1>2. PICK C \in SUBSET Cells : Closed(h, C) /\ x \in C /\ p \notin C
  BY DEF Joins
<1>3. Sound(h, gone, home, fresh, tops, more) /\ p \in more
  BY SoundWhenOpened
<1>4. \A t \in tops : home[t] # p
  BY <1>1 DEF Sound, TopsInv
<1>5. \A t \in tops \ {x} : house[t] # p
  BY <1>1, <1>4
<1>6. more \ {p} \subseteq open
  OBVIOUS
<1> HIDE DEF more
<1>7. CASE h[p].child = NULL
  <2> DEFINE g == [h EXCEPT ![p].child = x]
  <2>1. Sound(g, gone, house, fresh, tops \ {x}, more)
    BY <1>1, <1>2, <1>3, <1>7, SoundWithFirst
  <2>2. p # x
    BY <1>2
  <2>3. Kid(g, p, x) /\ house[x] = p /\ g[x].next = NULL
    BY <1>1, <2>2 DEF Kid, Items
  <2> HIDE DEF g, house
  <2>4. Sound([g EXCEPT ![x].prev = x], gone, house, fresh, tops \ {x}, open)
    BY <1>1, <1>5, <1>6, <2>1, <2>3, SoundWhenClosed
  <2>5. AddToArray(h, p, x) = [g EXCEPT ![x].prev = x]
    <3>1. AddToArray(h, p, x) = [h EXCEPT ![p].child = x, ![x].prev = x, ![x].next = NULL]
      BY <1>7 DEF AddToArray
    <3>2. [h[x] EXCEPT !.prev = x, !.next = NULL] = [h[x] EXCEPT !.prev = x]
      BY <1>1 DEF Items
    <3> QED  BY <1>1, <2>2, <3>1, <3>2 DEF g
  <2> QED  BY <2>4, <2>5 DEF house
<1>8. CASE h[p].child # NULL
  <2> DEFINE f == h[p].child
             l == h[f].prev
             g == Suffix(h, l, x)
             D == {c \in C : home[c] # p}
  <2>1. f \in Cells /\ Kid(h, p, f) /\ home[f] = p
    BY <1>1, <1>8, ChildrenAreList
  <2>2. l \in Cells /\ l # NULL /\ home[l] = p /\ h[l].next = NULL
    BY <1>1, <2>1, FieldTypes DEF Sound, LastInv, Pointers
  <2>3. D \in SUBSET Cells /\ Closed(h, D) /\ x \in D /\ l \notin D
    <3>1. Closed(h, D)
      BY <1>1, <1>2, ClosedWithoutList
    <3>2. home[x] # p
      BY <1>1
    <3> QED  BY <1>2, <2>2, <3>1, <3>2
  <2>4. x \in fresh <=> l \in fresh
    BY <1>1, <2>1, <2>2, FreshIsWhole
  <2> HIDE DEF D
  <2>5. home[l] \in more /\ home[l] # NULL /\ h[home[l]].type = h[p].type
    BY <1>1, <1>3, <2>2
  <2>6. Sound(g, gone, [home EXCEPT ![x] = home[l]], fresh, tops \ {x}, more)
    BY <1>1, <1>3, <2>2, <2>3, <2>4, <2>5, SoundWithLast
  <2>7. Sound(g, gone, house, fresh, tops \ {x}, more)
    BY <2>2, <2>6
  <2>8. l # x /\ f # x
    BY <1>1, <2>1, <2>2
  <2>9. Kid(g, p, f) /\ house[x] = p /\ g[x].next = NULL
    BY <1>1, <2>1, <2>2, <2>8 DEF Kid, Suffix, Items
  <2>10. AddToArray(h, p, x) = [g EXCEPT ![f].prev = x]
    BY <1>8, <2>2 DEF AddToArray
  <2> HIDE DEF g, house, f, l
  <2>11. Sound([g EXCEPT ![f].prev = x], gone, house, fresh, tops \ {x}, open)
    BY <1>1, <1>5, <1>6, <2>1, <2>7, <2>9, SoundWhenClosed
  <2> QED  BY <2>10, <2>11 DEF house
<1> QED  BY <1>7, <1>8

\* The list of an item is all that has it as parent.
LEMMA ListIsAll ==
    ASSUME CellsAssumption, NEW h, NEW gone, NEW home, NEW fresh, NEW tops, NEW open,
           Sound(h, gone, home, fresh, tops, open), NEW p \in Cells, ~h[p].ref, p \notin open,
           NEW x \in Cells, home[x] = p
    PROVE  \E j \in 1 .. Len(Children(h, p)) : Children(h, p)[j] = x
<1> USE DEF Sound
<1> DEFINE s == Children(h, p)
           R == {s[j] : j \in 1 .. Len(s)}
           N == {c \in Cells : home[c] = p /\ c \notin R}
<1>1. h \in [Cells -> Items] /\ NULL \notin Cells /\ tops \subseteq Cells
  BY DEF Shape, CellsAssumption, Live
<1>2. /\ s \in Seq(Cells)
      /\ h[p].child # NULL => IsList(h, home, h[p].child, s)
  BY ChildrenAreList
<1> HIDE DEF s
<1>3. ASSUME NEW y \in N, NEW z \in Cells, Owns(h, z, y) PROVE z \in N
  <2>1. home[y] = p /\ y \in Cells /\ y \notin R
    OBVIOUS
  <2>2. ~Kid(h, z, y)
    <3> SUFFICES ASSUME Kid(h, z, y) PROVE FALSE
      OBVIOUS
    <3>1. z = p /\ h[p].child = y
      BY <2>1 DEF HomeInv, Kid
    <3>2. y = s[1] /\ 1 \in 1 .. Len(s)
      BY <1>1, <1>2, <2>1, <3>1 DEF IsList
    <3> QED  BY <2>1, <3>2
  <2>3. h[z].next = y /\ home[z] = p
    BY <1>3, <2>1, <2>2 DEF Owns, HomeInv
  <2>4. z \notin R
    <3> SUFFICES ASSUME NEW j \in 1 .. Len(s), s[j] = z PROVE FALSE
      OBVIOUS
    <3>1. IsList(h, home, h[p].child, s)
      <4>1. h[p].child # NULL
        <5> SUFFICES ASSUME h[p].child = NULL PROVE FALSE
          OBVIOUS
        <5>1. s = <<>>
          BY ChildrenAreList DEF s
        <5> QED  BY <5>1
      <4> QED  BY <1>2, <4>1
    <3>2. CASE j = Len(s)
      BY <1>1, <2>1, <2>3, <3>1, <3>2 DEF IsList
    <3>3. CASE j # Len(s)
      <4>1. j \in 1 .. Len(s) - 1 /\ j + 1 \in 1 .. Len(s)
        BY <1>2, <3>3
      <4>2. s[j + 1] = y
        BY <2>3, <3>1, <4>1 DEF IsList
      <4> QED  BY <2>1, <4>1, <4>2
    <3> QED  BY <3>2, <3>3
  <2> HIDE DEF R
  <2> QED  BY <2>3, <2>4
<1>4. \A y \in N : y \notin tops
  BY <1>1 DEF TopsInv
<1> HIDE DEF R
<1>5. \A y \in N : y \notin Live(h, gone)
  BY <1>1, <1>3, <1>4, Backward
<1>6. x \in R
  BY <1>1, <1>5 DEF HomeInv
<1> QED  BY <1>6 DEF R, s

\* A list has one last item.
LEMMA LastIsUnique ==
    ASSUME CellsAssumption, NEW h, NEW gone, NEW home, NEW fresh, NEW tops, NEW open,
           Sound(h, gone, home, fresh, tops, open), NEW p \in Cells, ~h[p].ref, p \notin open,
           NEW x \in Cells, home[x] = p, h[x].next = NULL
    PROVE  /\ Len(Children(h, p)) > 0
           /\ x = Children(h, p)[Len(Children(h, p))]
<1> DEFINE s == Children(h, p)
<1>1. PICK j \in 1 .. Len(s) : s[j] = x
  BY ListIsAll
<1>2. s \in Seq(Cells) /\ NULL \notin Cells
  BY ChildrenAreList DEF CellsAssumption
<1>3. IsList(h, home, h[p].child, s)
  <2>1. h[p].child # NULL
    <3> SUFFICES ASSUME h[p].child = NULL PROVE FALSE
      OBVIOUS
    <3>1. s = <<>>
      BY ChildrenAreList
    <3> HIDE DEF s
    <3> QED  BY <1>1, <3>1
  <2> QED  BY <2>1, ChildrenAreList
<1> HIDE DEF s
<1>4. j = Len(s)
  <2> SUFFICES ASSUME j # Len(s) PROVE FALSE
    OBVIOUS
  <2>1. j \in 1 .. Len(s) - 1 /\ j + 1 \in 1 .. Len(s)
    BY <1>2
  <2>2. s[j + 1] = NULL /\ s[j + 1] \in Cells
    BY <1>1, <1>2, <1>3, <2>1 DEF IsList
  <2> QED  BY <1>2, <2>2
<1> QED  BY <1>1, <1>2, <1>4 DEF s

\* An item that is not the first of its list follows another one.
LEMMA HasPredecessor ==
    ASSUME CellsAssumption, NEW h, NEW gone, NEW home, NEW fresh, NEW tops, NEW open,
           Sound(h, gone, home, fresh, tops, open), NEW p \in Cells, p \notin open,
           NEW x \in Cells, home[x] = p, ~Kid(h, p, x)
    PROVE  /\ h[x].prev \in Cells /\ h[h[x].prev].next = x /\ home[h[x].prev] = p
           /\ h[x].prev # x
<1>1. x \in Live(h, gone) \ tops /\ NULL \notin Cells
  BY DEF Sound, HomeInv, TopsInv, CellsAssumption
<1>2. PICK y \in Cells : Owns(h, y, x)
  BY <1>1, HasOwner
<1>3. h[y].next = x /\ h[x].prev = y /\ home[y] = p
  BY <1>2 DEF Owns, Sound, HomeInv
<1>4. y # x
  <2> SUFFICES ASSUME h[x].next = x PROVE FALSE
    BY <1>3
  <2> DEFINE N == {x}
  <2>1. N \in SUBSET Cells /\ N # {}
    OBVIOUS
  <2> HIDE DEF N
  <2>2. \E c \in N : h[c].next \notin N
    BY <2>1, ListsEnd
  <2> QED  BY <2>2 DEF N
<1> QED  BY <1>3, <1>4

\* x comes before the child a of p.
Before(h, g, p, x, a) ==
    IF Kid(h, p, a) THEN PutFirst(h, g, p, x, a) ELSE PutBetween(h, g, h[a].prev, x, a)

\* A whole tree becomes the item before a.
LEMMA BeforeKeepsSound ==
    ASSUME CellsAssumption, NEW h, NEW gone, NEW home, NEW fresh, NEW tops, NEW open,
           Sound(h, gone, home, fresh, tops, open),
           NEW p, Parent(h, gone, p), p \notin open, NEW x, Joins(h, home, fresh, tops, p, x),
           NEW a \in Cells, home[a] = p, Kid(h, p, a) => Unreferenced(h, gone, a),
           NEW g, Before(h, g, p, x, a)
    PROVE  Sound(g, gone, [home EXCEPT ![x] = p], fresh, tops \ {x}, open)
<1>1. /\ h \in [Cells -> Items] /\ NULL \notin Cells /\ p \in Cells
      /\ x \in Cells /\ x \in tops /\ ~h[p].ref
      /\ home[x] = NULL /\ h[x].next = NULL /\ (h[p].type = "object" => h[x].key # NULL)
      /\ x \in fresh <=> p \in fresh
  BY DEF Sound, Shape, CellsAssumption, Live, Parent, Joins
<1>2. PICK C \in SUBSET Cells : Closed(h, C) /\ x \in C /\ p \notin C
  BY DEF Joins
<1>3. CASE Kid(h, p, a)
  <2>1. PutFirst(h, g, p, x, a)
    BY <1>3 DEF Before
  <2>2. \A r \in Live(h, gone) : h[r].ref => h[r].child # a
    BY <1>3 DEF Unreferenced
  <2> QED  BY <1>1, <1>2, <1>3, <2>1, <2>2, SoundWithNewFirst
<1>4. CASE ~Kid(h, p, a)
  <2> DEFINE y == h[a].prev
             D == {c \in C : home[c] # p}
  <2>1. y \in Cells /\ h[y].next = a /\ home[y] = p /\ y # a
    BY <1>1, <1>4, HasPredecessor
  <2>2. D \in SUBSET Cells /\ Closed(h, D) /\ x \in D /\ y \notin D
    <3>1. Closed(h, D)
      BY <1>1, <1>2, ClosedWithoutList
    <3>2. home[x] # p
      BY <1>1
    <3> QED  BY <1>2, <2>1, <3>1, <3>2
  <2>3. x \in fresh <=> y \in fresh
    BY <1>1, <2>1, FreshIsWhole
  <2> HIDE DEF D
  <2>4. PutBetween(h, g, y, x, a)
    BY <1>4 DEF Before
  <2>5. home[a] # NULL /\ home[a] \notin open /\ (h[home[a]].type = "object" => h[x].key # NULL)
    BY <1>1
  <2> HIDE DEF y
  <2>6. Sound(g, gone, [home EXCEPT ![x] = home[a]], fresh, tops \ {x}, open)
    BY <1>1, <2>1, <2>2, <2>3, <2>4, <2>5, SoundWithInserted
  <2> QED  BY <2>6
<1> QED  BY <1>3, <1>4

\* The assignments of cJSON_InsertItemInArray when there is an item a to insert before.
PutBefore(h, p, x, a) ==
    LET h1 == [h EXCEPT ![x].next = a, ![x].prev = h[a].prev, ![a].prev = x] IN
    IF a = h[p].child THEN [h1 EXCEPT ![p].child = x] ELSE [h1 EXCEPT ![h1[x].prev].next = x]

\* The assignments of cJSON_InsertItemInArray put x before a, and change nothing else.
LEMMA PutIsBefore ==
    ASSUME CellsAssumption, NEW h, NEW gone, NEW home, NEW fresh, NEW tops, NEW open,
           Sound(h, gone, home, fresh, tops, open), NEW p \in Cells, ~h[p].ref, p \notin open,
           NEW x \in Cells, home[x] # p, x # p, NEW a \in Cells, home[a] = p
    PROVE  Before(h, PutBefore(h, p, x, a), p, x, a)
<1> DEFINE y == h[a].prev
           g == PutBefore(h, p, x, a)
<1>1. h \in [Cells -> Items] /\ NULL \notin Cells
  BY DEF Sound, Shape, CellsAssumption
<1>2. x # a /\ y \in Pointers
  BY <1>1, FieldTypes
<1>3. Kid(h, p, a) <=> a = h[p].child
  BY DEF Kid
<1>4. CASE a = h[p].child
  <2>1. g = [h EXCEPT ![x].next = a, ![x].prev = y, ![a].prev = x, ![p].child = x]
    BY <1>4 DEF PutBefore
  <2> HIDE DEF g, y
  <2>2. g \in [Cells -> Items]
    BY <1>1, <1>2, <2>1, SMTT(30) DEF Items, Pointers
  <2>3. \A c \in Cells :
           /\ g[c].type = h[c].type /\ g[c].ref = h[c].ref /\ g[c].key = h[c].key
           /\ g[c].next = IF c = x THEN a ELSE h[c].next
           /\ g[c].prev = IF c = x THEN y ELSE IF c = a THEN x ELSE h[c].prev
           /\ g[c].child = IF c = p THEN x ELSE h[c].child
    BY <1>1, <1>2, <2>1 DEF Items
  <2>4. \A c \in Cells \ {x, a, p} : g[c] = h[c]
    BY <1>1, <1>2, <2>1
  <2>5. PutFirst(h, g, p, x, a)
    BY <2>2, <2>3, <2>4 DEF PutFirst, y
  <2> QED  BY <1>3, <1>4, <2>5 DEF Before, g
<1>5. CASE a # h[p].child
  <2>1. y \in Cells /\ h[y].next = a /\ home[y] = p /\ y # a
    BY <1>1, <1>3, <1>5, HasPredecessor
  <2>2. x # y
    BY <1>1, <2>1
  <2>3. g = [h EXCEPT ![x].next = a, ![x].prev = y, ![a].prev = x, ![y].next = x]
    <3> DEFINE h1 == [h EXCEPT ![x].next = a, ![x].prev = y, ![a].prev = x]
    <3>1. g = [h1 EXCEPT ![h1[x].prev].next = x]
      BY <1>5 DEF PutBefore
    <3> HIDE DEF g, y
    <3>2. h1[x].prev = y
      BY <1>1, <1>2 DEF Items
    <3> QED  BY <3>1, <3>2
  <2> HIDE DEF g, y
  <2>4. g \in [Cells -> Items]
    BY <1>1, <1>2, <2>1, <2>2, <2>3 DEF Items, Pointers
  <2>5. \A c \in Cells :
           /\ g[c].type = h[c].type /\ g[c].ref = h[c].ref /\ g[c].key = h[c].key
           /\ g[c].next = IF c = x THEN a ELSE IF c = y THEN x ELSE h[c].next
           /\ g[c].prev = IF c = x THEN y ELSE IF c = a THEN x ELSE h[c].prev
           /\ g[c].child = h[c].child
    BY <1>1, <1>2, <2>1, <2>2, <2>3 DEF Items
  <2>6. \A c \in Cells \ {x, a, y} : g[c] = h[c]
    BY <1>1, <1>2, <2>1, <2>2, <2>3
  <2>7. PutBetween(h, g, y, x, a)
    BY <2>4, <2>5, <2>6 DEF PutBetween
  <2> QED  BY <1>3, <1>5, <2>7 DEF Before, g, y
<1> QED  BY <1>4, <1>5

\* cJSON_InsertItemInArray keeps the heap sound, whatever the index.
LEMMA InsertKeepsSound ==
    ASSUME CellsAssumption, NEW h, NEW gone, NEW home, NEW fresh, NEW tops, NEW open,
           Sound(h, gone, home, fresh, tops, open),
           NEW p, Parent(h, gone, p), p \notin open, NEW x, Joins(h, home, fresh, tops, p, x),
           h[p].child # NULL => Unreferenced(h, gone, h[p].child), NEW index \in Nat
    PROVE  Sound(Insert(h, p, index, x), gone, [home EXCEPT ![x] = p], fresh, tops \ {x}, open)
<1>1. /\ NULL \notin Cells /\ p \in Cells /\ x \in Cells /\ ~h[p].ref /\ home[x] = NULL /\ x # p
  BY DEF Sound, Shape, CellsAssumption, Live, Parent, Joins
<1> DEFINE a == ArrayItem(h, p, index)
<1>2. CASE a = NULL
  <2>1. Insert(h, p, index, x) = AddToArray(h, p, x)
    BY <1>2 DEF Insert
  <2> QED  BY <2>1, AddKeepsSound
<1>3. CASE a # NULL
  <2>1. a \in Cells /\ home[a] = p /\ h[p].child # NULL
    BY <1>1, <1>3, ItemsAreFound
  <2>2. Insert(h, p, index, x) = PutBefore(h, p, x, a)
    BY <1>3 DEF Insert, PutBefore
  <2> HIDE DEF a
  <2>3. Before(h, PutBefore(h, p, x, a), p, x, a)
    BY <1>1, <2>1, PutIsBefore
  <2>4. Kid(h, p, a) => Unreferenced(h, gone, a)
    BY <2>1 DEF Kid
  <2> QED  BY <2>1, <2>2, <2>3, <2>4, BeforeKeepsSound
<1> QED  BY <1>2, <1>3

\* x leaves the list of p.
Out(h, g, p, x) ==
    IF Kid(h, p, x) THEN TakeFirst(h, g, p, x) ELSE TakeAfter(h, g, h[p].child, h[x].prev, x)

\* The rest of the heap is as it was.
Leaves(h, home, g, p, x) ==
    /\ g \in [Cells -> Items] /\ g[x].next = NULL /\ g[x].prev = NULL
    /\ \A c \in Cells : /\ g[c].ref = h[c].ref /\ g[c].type = h[c].type /\ g[c].key = h[c].key
                        /\ c # p => g[c].child = h[c].child
                        /\ home[c] # p => g[c].next = h[c].next

\* Taking an item out of its list keeps the heap sound: it is a top of its own.
LEMMA OutKeepsSound ==
    ASSUME CellsAssumption, NEW h, NEW gone, NEW home, NEW fresh, NEW tops, NEW open,
           Sound(h, gone, home, fresh, tops, open),
           NEW p \in Cells, ~h[p].ref, p \notin open, NEW x \in Cells, home[x] = p,
           Kid(h, p, x) => Unreferenced(h, gone, x), NEW g, Out(h, g, p, x)
    PROVE  /\ Sound(g, gone, [home EXCEPT ![x] = NULL], fresh, tops \cup {x}, open)
           /\ Leaves(h, home, g, p, x)
<1>1. h \in [Cells -> Items] /\ NULL \notin Cells
  BY DEF Sound, Shape, CellsAssumption
<1>2. CASE Kid(h, p, x)
  <2>1. TakeFirst(h, g, p, x)
    BY <1>2 DEF Out
  <2>2. \A r \in Live(h, gone) : h[r].ref => h[r].child # x
    BY <1>2 DEF Unreferenced
  <2>3. Sound(g, gone, [home EXCEPT ![x] = NULL], fresh, tops \cup {x}, open)
    BY <1>1, <1>2, <2>1, <2>2, SoundWithoutFirst
  <2> QED  BY <2>1, <2>3 DEF TakeFirst, Leaves
<1>3. CASE ~Kid(h, p, x)
  <2> DEFINE y == h[x].prev
             f == h[p].child
  <2>1. y \in Cells /\ h[y].next = x /\ home[y] = p
    BY <1>1, <1>3, HasPredecessor
  <2>2. f \in Cells /\ Kid(h, p, f)
    <3>1. \E j \in 1 .. Len(Children(h, p)) : Children(h, p)[j] = x
      BY ListIsAll
    <3>2. h[p].child # NULL
      <4> SUFFICES ASSUME h[p].child = NULL PROVE FALSE
        OBVIOUS
      <4>1. Children(h, p) = <<>>
        BY ChildrenAreList
      <4> QED  BY <3>1, <4>1
    <3> QED  BY <3>2, ChildrenAreList
  <2>3. TakeAfter(h, g, f, y, x)
    BY <1>3 DEF Out
  <2> HIDE DEF f, y
  <2>4. Sound(g, gone, [home EXCEPT ![x] = NULL], fresh, tops \cup {x}, open)
    BY <1>1, <2>1, <2>2, <2>3, SoundWithoutItem
  <2> QED  BY <2>1, <2>3, <2>4 DEF TakeAfter, Leaves
<1> QED  BY <1>2, <1>3

\* cJSON_DetachItemViaPointer
LEMMA DetachTakesOut ==
    ASSUME CellsAssumption, NEW h, NEW gone, NEW home, NEW fresh, NEW tops, NEW open,
           Sound(h, gone, home, fresh, tops, open),
           NEW p \in Cells, ~h[p].ref, p \notin open, NEW x \in Cells, home[x] = p
    PROVE  Out(h, Detach(h, p, x), p, x)
<1> DEFINE n == h[x].next
           g == Detach(h, p, x)
<1>1. h \in [Cells -> Items] /\ NULL \notin Cells /\ n \in Pointers
  BY FieldTypes DEF Sound, Shape, CellsAssumption
<1>2. x # p /\ n # p /\ n # x
  <2>1. x # p
    <3>1. home[x] # NULL /\ home[x] \notin open
      BY <1>1
    <3>2. home[x] # x
      BY <3>1, NotUnderItself
    <3> QED  BY <3>2
  <2>2. CASE n = NULL
    BY <1>1, <2>1, <2>2
  <2>3. CASE n \in Cells
    <3>1. home[n] = p /\ h[n].prev = x
      BY <1>1, <2>3 DEF Sound, HomeInv
    <3>2. n # p
      BY <1>1, <2>3, <3>1, NotUnderItself
    <3>3. ~Kid(h, p, n)
      BY <2>3 DEF Sound, HomeInv
    <3>4. h[n].prev # n
      BY <2>3, <3>1, <3>3, HasPredecessor
    <3>5. n # x
      BY <3>1, <3>4
    <3> QED  BY <2>1, <3>2, <3>5
  <2> QED  BY <1>1, <2>1, <2>2, <2>3 DEF Pointers
<1>3. Kid(h, p, x) <=> x = h[p].child
  BY DEF Kid
<1>4. CASE x = h[p].child
  <2>1. g = [(IF n = NULL THEN h ELSE [h EXCEPT ![n].prev = h[x].prev])
             EXCEPT ![p].child = n, ![x].prev = NULL, ![x].next = NULL]
    <3> DEFINE h2 == IF n = NULL THEN h ELSE [h EXCEPT ![n].prev = h[x].prev]
    <3>1. h2[p].child = h[p].child /\ h2[x].next = n
      BY <1>1, <1>2 DEF Items, Pointers
    <3>2. g = [[h2 EXCEPT ![p].child = h2[x].next] EXCEPT ![x].prev = NULL, ![x].next = NULL]
      BY <1>4, <3>1, ZenonT(60) DEF Detach
    <3> HIDE DEF h2, g, n
    <3> QED  BY <3>1, <3>2, ZenonT(60) DEF h2
  <2> HIDE DEF g, n
  <2>2. TakeFirst(h, g, p, x)
    <3>1. g \in [Cells -> Items]
      <4>1. h[x].prev \in Pointers /\ NULL \in Pointers
        BY <1>1, FieldTypes DEF Pointers
      <4> DEFINE k == IF n = NULL THEN h ELSE [h EXCEPT ![n].prev = h[x].prev]
      <4>2. k \in [Cells -> Items]
        BY <1>1, <4>1 DEF Items, Pointers
      <4> DEFINE k2 == [k EXCEPT ![p].child = n]
      <4>3. g = [k2 EXCEPT ![x].prev = NULL, ![x].next = NULL]
        BY <2>1
      <4> HIDE DEF k
      <4>4. k2 \in [Cells -> Items]
        BY <1>1, <4>2 DEF Items
      <4> HIDE DEF k2
      <4> QED  BY <4>1, <4>3, <4>4 DEF Items
    <3>2. \A c \in Cells :
             /\ g[c].type = h[c].type /\ g[c].ref = h[c].ref /\ g[c].key = h[c].key
             /\ g[c].next = IF c = x THEN NULL ELSE h[c].next
             /\ g[c].prev = IF c = x THEN NULL ELSE IF c = n THEN h[x].prev ELSE h[c].prev
             /\ g[c].child = IF c = p THEN n ELSE h[c].child
      BY <1>1, <1>2, <2>1 DEF Items
    <3>3. \A c \in Cells \ {x, n, p} : g[c] = h[c]
      BY <1>1, <1>2, <2>1
    <3> QED  BY <3>1, <3>2, <3>3 DEF TakeFirst, n
  <2> QED  BY <1>3, <1>4, <2>2, SMTT(30) DEF Out, g
<1>5. CASE x # h[p].child
  <2> DEFINE y == h[x].prev
             f == h[p].child
  <2>1. y \in Cells /\ h[y].next = x /\ home[y] = p /\ y # x
    BY <1>1, <1>3, <1>5, HasPredecessor
  <2>2. y # n /\ y # p
    <3>1. n \in Cells => h[n].prev = x
      BY <1>1 DEF Sound, HomeInv
    <3>2. y = n => h[y].next = x /\ h[x].next = y
      BY <2>1
    <3>3. y # n
      <4> SUFFICES ASSUME y = n PROVE FALSE
        OBVIOUS
      <4> DEFINE N == {x, y}
      <4>1. N \in SUBSET Cells /\ N # {} /\ \A c \in N : h[c].next \in N
        BY <2>1, <3>2
      <4> HIDE DEF N
      <4> QED  BY <4>1, ListsEnd
    <3>4. y # p
      BY <1>1, <2>1, NotUnderItself
    <3> QED  BY <3>3, <3>4
  <2>3. f \in Cells
    <3>1. \E j \in 1 .. Len(Children(h, p)) : Children(h, p)[j] = x
      BY ListIsAll
    <3>2. h[p].child # NULL
      <4> SUFFICES ASSUME h[p].child = NULL PROVE FALSE
        OBVIOUS
      <4>1. Children(h, p) = <<>>
        BY ChildrenAreList
      <4> QED  BY <3>1, <4>1
    <3> QED  BY <3>2, ChildrenAreList
  <2> DEFINE h1 == [h EXCEPT ![y].next = n]
             h2 == IF n = NULL THEN h1 ELSE [h1 EXCEPT ![n].prev = y]
             h3 == IF n = NULL THEN [h2 EXCEPT ![f].prev = y] ELSE h2
  <2>4. g = [h3 EXCEPT ![x].prev = NULL, ![x].next = NULL]
    <3>1. h1[x].next = n /\ h1[x].prev = y /\ h1[p].child = f
      BY <1>1, <2>1, <2>2 DEF Items
    <3>2. h2[x].next = n /\ h2[x].prev = y /\ h2[p].child = f
      BY <1>1, <1>2, <2>1, <3>1 DEF Items, Pointers
    <3> DEFINE k1 == IF x = h[p].child THEN h ELSE [h EXCEPT ![h[x].prev].next = h[x].next]
               k2 == IF k1[x].next = NULL THEN k1 ELSE [k1 EXCEPT ![k1[x].next].prev = k1[x].prev]
               k3 == IF x = k2[p].child THEN [k2 EXCEPT ![p].child = k2[x].next]
                     ELSE IF k2[x].next = NULL THEN [k2 EXCEPT ![k2[p].child].prev = k2[x].prev]
                     ELSE k2
    <3>3. g = [k3 EXCEPT ![x].prev = NULL, ![x].next = NULL]
      BY DEF Detach
    <3>4. k1 = h1
      BY <1>5
    <3> HIDE DEF k1, h1, g
    <3>5. k2 = h2
      BY <3>1, <3>4
    <3> HIDE DEF k2, h2
    <3>6. k3 = h3
      BY <1>5, <3>2, <3>5
    <3> HIDE DEF k3, h3
    <3> QED  BY <3>3, <3>6
  <2> HIDE DEF g, n, y, f
  <2>5. y \in Pointers /\ n \in Pointers /\ f \in Cells
    BY <1>1, <2>1, <2>3 DEF Pointers
  <2>6. h3 \in [Cells -> Items] /\ \A c \in Cells :
             /\ h3[c].type = h[c].type /\ h3[c].ref = h[c].ref /\ h3[c].key = h[c].key
             /\ h3[c].next = IF c = y THEN n ELSE h[c].next
             /\ h3[c].prev = IF c = n THEN y ELSE IF c = f /\ n = NULL THEN y ELSE h[c].prev
             /\ h3[c].child = h[c].child
             /\ c \notin {n, y, f} => h3[c] = h[c]
    <3>1. h1 \in [Cells -> Items] /\ \A c \in Cells :
             /\ h1[c].type = h[c].type /\ h1[c].ref = h[c].ref /\ h1[c].key = h[c].key
             /\ h1[c].next = IF c = y THEN n ELSE h[c].next
             /\ h1[c].prev = h[c].prev
             /\ h1[c].child = h[c].child
             /\ c # y => h1[c] = h[c]
      BY <1>1, <2>1, <2>5 DEF Items
    <3> HIDE DEF h1
    <3>2. h2 \in [Cells -> Items] /\ \A c \in Cells :
             /\ h2[c].type = h1[c].type /\ h2[c].ref = h1[c].ref /\ h2[c].key = h1[c].key
             /\ h2[c].next = h1[c].next
             /\ h2[c].prev = IF c = n THEN y ELSE h1[c].prev
             /\ h2[c].child = h1[c].child
             /\ c # n => h2[c] = h1[c]
      BY <1>1, <2>1, <2>5, <3>1 DEF Items, Pointers
    <3> HIDE DEF h2
    <3>3. h3 \in [Cells -> Items] /\ \A c \in Cells :
             /\ h3[c].type = h2[c].type /\ h3[c].ref = h2[c].ref /\ h3[c].key = h2[c].key
             /\ h3[c].next = h2[c].next
             /\ h3[c].prev = IF c = f /\ n = NULL THEN y ELSE h2[c].prev
             /\ h3[c].child = h2[c].child
             /\ c # f => h3[c] = h2[c]
      BY <2>1, <2>5, <3>2 DEF Items
    <3> HIDE DEF h3
    <3> QED  BY <1>1, <2>1, <3>1, <3>2, <3>3
  <2> HIDE DEF h3
  <2>7. TakeAfter(h, g, f, y, x)
    <3>1. g \in [Cells -> Items]
      <4>1. h3 \in [Cells -> Items] /\ NULL \in Pointers
        BY <2>6 DEF Pointers
      <4> QED  BY <2>4, <4>1 DEF Items
    <3>2. \A c \in Cells :
             /\ g[c].type = h[c].type /\ g[c].ref = h[c].ref /\ g[c].key = h[c].key
             /\ g[c].next = IF c = x THEN NULL ELSE IF c = y THEN n ELSE h[c].next
             /\ g[c].prev = IF c = x THEN NULL
                            ELSE IF c = n THEN y
                            ELSE IF c = f /\ n = NULL THEN y ELSE h[c].prev
             /\ g[c].child = h[c].child
      BY <2>4, <2>6 DEF Items
    <3>3. \A c \in Cells \ {x, n, y, f} : g[c] = h[c]
      BY <2>4, <2>6
    <3> QED  BY <3>1, <3>2, <3>3 DEF TakeAfter, n
  <2> QED  BY <1>3, <1>5, <2>7 DEF Out, g, f, y
<1> QED  BY <1>4, <1>5

\* Items with the same fields are the same.
LEMMA SameItems ==
    ASSUME NEW a \in Items, NEW b \in Items, a.type = b.type, a.ref = b.ref, a.next = b.next,
           a.prev = b.prev, a.child = b.child, a.key = b.key
    PROVE  a = b
  BY DEF Items

\* The pointers after cJSON_ReplaceItemViaPointer, before it frees the old item.
LEMMA SwappedFields ==
    ASSUME CellsAssumption, NEW h \in [Cells -> Items],
           NEW p \in Cells, NEW x \in Cells, NEW new \in Cells, p # x, new # x, new # p,
           NEW n, n = h[x].next, n \notin {p, x, new}, NEW y, y = h[x].prev
    PROVE  LET g == Swapped(h, p, x, new) IN
           /\ h[p].child = x =>
                /\ g \in [Cells -> Items]
                /\ \A c \in Cells :
                     /\ g[c].type = h[c].type /\ g[c].ref = h[c].ref /\ g[c].key = h[c].key
                     /\ g[c].next = IF c = x THEN NULL ELSE IF c = new THEN n ELSE h[c].next
                     /\ g[c].prev = IF c = x THEN NULL ELSE IF c = n THEN new
                                    ELSE IF c = new THEN IF y = x THEN new ELSE y ELSE h[c].prev
                     /\ g[c].child = IF c = p THEN new ELSE h[c].child
           /\ h[p].child # x /\ h[p].child \in Cells /\ h[p].child # new
              /\ y \in Cells /\ y \notin {p, x, new} =>
                /\ g \in [Cells -> Items]
                /\ \A c \in Cells :
                     /\ g[c].type = h[c].type /\ g[c].ref = h[c].ref /\ g[c].key = h[c].key
                     /\ g[c].next = IF c = x THEN NULL ELSE IF c = new THEN n
                                    ELSE IF c = y THEN new ELSE h[c].next
                     /\ g[c].prev = IF c = x THEN NULL ELSE IF c = n THEN new
                                    ELSE IF c = h[p].child /\ n = NULL THEN new
                                    ELSE IF c = new THEN y ELSE h[c].prev
                     /\ g[c].child = h[c].child
<1> DEFINE h1 == WithNeighbours(h, x, new)
           h2 == TellNext(h1, new)
           h3 == TellPrevious(h2, new)
           h4 == TellParent(h2, p, x, new)
           g == Unlinked(h4, x)
<1>1. NULL \notin Cells /\ n \in Pointers /\ y \in Pointers /\ new \in Pointers /\ NULL \in Pointers
  BY FieldTypes DEF CellsAssumption, Pointers
<1>2. h1 \in [Cells -> Items] /\ \A c \in Cells :
         /\ h1[c].type = h[c].type /\ h1[c].ref = h[c].ref /\ h1[c].key = h[c].key
         /\ h1[c].next = IF c = new THEN n ELSE h[c].next
         /\ h1[c].prev = IF c = new THEN y ELSE h[c].prev
         /\ h1[c].child = h[c].child
  BY <1>1 DEF Items, WithNeighbours
<1> HIDE DEF h1
<1>3. h2 \in [Cells -> Items] /\ \A c \in Cells :
         /\ h2[c].type = h[c].type /\ h2[c].ref = h[c].ref /\ h2[c].key = h[c].key
         /\ h2[c].next = h1[c].next
         /\ h2[c].prev = IF c = n THEN new ELSE h1[c].prev
         /\ h2[c].child = h[c].child
  <2>1. h2 = IF n = NULL THEN h1 ELSE [h1 EXCEPT ![n].prev = new]
    BY <1>2 DEF TellNext
  <2> HIDE DEF h2
  <2> QED  BY <1>1, <1>2, <2>1 DEF Items, Pointers
<1> HIDE DEF h2
<1>4. g = Swapped(h, p, x, new)
  BY DEF Swapped, g, h4, h2, h1
<1>5. CASE h[p].child = x
  <2> DEFINE v == IF y = x THEN new ELSE y
  <2>1. h4 = [h2 EXCEPT ![new].prev = v, ![p].child = new]
    <3>1. h2[p].child = x /\ h2[new].prev = y /\ (ClosesItself(h2, x) <=> y = x)
      BY <1>2, <1>3, <1>5 DEF ClosesItself
    <3> QED  BY <3>1 DEF TellParent
  <2> HIDE DEF h4
  <2>2. h4 \in [Cells -> Items] /\ \A c \in Cells :
         /\ h4[c].type = h2[c].type /\ h4[c].ref = h2[c].ref /\ h4[c].key = h2[c].key
         /\ h4[c].next = h2[c].next
         /\ h4[c].prev = IF c = new THEN v ELSE h2[c].prev
         /\ h4[c].child = IF c = p THEN new ELSE h2[c].child
    <3>1. h2 \in [Cells -> Items] /\ v \in Pointers
      BY <1>1, <1>3
    <3> HIDE DEF v
    <3> QED  BY <1>1, <2>1, <3>1 DEF Items
  <2>3. g \in [Cells -> Items] /\ \A c \in Cells :
         /\ g[c].type = h4[c].type /\ g[c].ref = h4[c].ref /\ g[c].key = h4[c].key
         /\ g[c].next = IF c = x THEN NULL ELSE h4[c].next
         /\ g[c].prev = IF c = x THEN NULL ELSE h4[c].prev
         /\ g[c].child = h4[c].child
    <3>1. h4 \in [Cells -> Items]
      BY <2>2
    <3> HIDE DEF h4
    <3> QED  BY <1>1, <3>1 DEF Items, Unlinked
  <2> HIDE DEF g
  <2> QED  BY <1>1, <1>2, <1>3, <1>4, <1>5, <2>2, <2>3
<1>6. ASSUME h[p].child # x, h[p].child \in Cells, h[p].child # new, y \in Cells, y \notin {p, x, new}
      PROVE  /\ g \in [Cells -> Items]
             /\ \A c \in Cells :
                  /\ g[c].type = h[c].type /\ g[c].ref = h[c].ref /\ g[c].key = h[c].key
                  /\ g[c].next = IF c = x THEN NULL ELSE IF c = new THEN n
                                 ELSE IF c = y THEN new ELSE h[c].next
                  /\ g[c].prev = IF c = x THEN NULL ELSE IF c = n THEN new
                                 ELSE IF c = h[p].child /\ n = NULL THEN new
                                 ELSE IF c = new THEN y ELSE h[c].prev
                  /\ g[c].child = h[c].child
  <2> DEFINE f == h[p].child
  <2>1. h3 \in [Cells -> Items] /\ \A c \in Cells :
         /\ h3[c].type = h[c].type /\ h3[c].ref = h[c].ref /\ h3[c].key = h[c].key
         /\ h3[c].next = IF c = y THEN new ELSE h2[c].next
         /\ h3[c].prev = h2[c].prev
         /\ h3[c].child = h[c].child
    <3>1. h3 = [h2 EXCEPT ![y].next = new]
      <4>1. h2[new].prev = y /\ y # NULL
        BY <1>1, <1>2, <1>3, <1>6
      <4> QED  BY <4>1 DEF TellPrevious
    <3> HIDE DEF h3
    <3> QED  BY <1>1, <1>3, <1>6, <3>1 DEF Items
  <2> HIDE DEF h3
  <2>2. h4 = IF n = NULL THEN [h3 EXCEPT ![f].prev = new] ELSE h3
    <3>1. h2[p].child # x /\ h3[new].next = n /\ h3[p].child = f
      BY <1>2, <1>3, <1>6, <2>1
    <3>2. h4 = TellLast(h3, p, new)
      BY <3>1 DEF TellParent, h3
    <3> QED  BY <3>1, <3>2 DEF TellLast
  <2> HIDE DEF h4
  <2>3. h4 \in [Cells -> Items] /\ \A c \in Cells :
         /\ h4[c].type = h[c].type /\ h4[c].ref = h[c].ref /\ h4[c].key = h[c].key
         /\ h4[c].next = h3[c].next
         /\ h4[c].prev = IF c = f /\ n = NULL THEN new ELSE h3[c].prev
         /\ h4[c].child = h[c].child
    BY <1>1, <1>6, <2>1, <2>2 DEF Items
  <2>4. g \in [Cells -> Items] /\ \A c \in Cells :
         /\ g[c].type = h4[c].type /\ g[c].ref = h4[c].ref /\ g[c].key = h4[c].key
         /\ g[c].next = IF c = x THEN NULL ELSE h4[c].next
         /\ g[c].prev = IF c = x THEN NULL ELSE h4[c].prev
         /\ g[c].child = h4[c].child
    <3>1. h4 \in [Cells -> Items]
      BY <2>3
    <3> HIDE DEF h4
    <3> QED  BY <1>1, <3>1 DEF Items, Unlinked
  <2> HIDE DEF g
  <2> QED  BY <1>1, <1>2, <1>3, <1>6, <2>1, <2>3, <2>4
<1> HIDE DEF g
<1> QED  BY <1>4, <1>5, <1>6

\* The new item in front of the old one, and the old one out of the list.
LEMMA SwappedIsOut ==
    ASSUME CellsAssumption, NEW h, NEW gone, NEW home, NEW fresh, NEW tops, NEW open,
           Sound(h, gone, home, fresh, tops, open),
           NEW p \in Cells, ~h[p].ref, p \notin open, NEW x \in Cells, home[x] = p,
           NEW new \in Cells, home[new] = NULL, new # p
    PROVE  Out(PutBefore(h, p, new, x), Swapped(h, p, x, new), p, x)
<1> DEFINE n == h[x].next
           y == h[x].prev
           k == PutBefore(h, p, new, x)
           g == Swapped(h, p, x, new)
<1>1. h \in [Cells -> Items] /\ NULL \notin Cells /\ n \in Pointers /\ y \in Pointers
  BY FieldTypes DEF Sound, Shape, CellsAssumption
<1>2. x # p /\ new # x /\ home[x] # NULL /\ home[x] \notin open
  <2>1. home[x] # NULL /\ home[x] \notin open
    BY <1>1
  <2> QED  BY <1>1, <2>1, NotUnderItself
<1>3. n \notin {p, x, new} /\ (n \in Cells => h[n].prev = x)
  <2>1. CASE n = NULL
    BY <1>1, <2>1
  <2>2. CASE n \in Cells
    <3>1. home[n] = p /\ h[n].prev = x /\ ~Kid(h, p, n)
      BY <1>1, <2>2 DEF Sound, HomeInv
    <3>2. home[n] # n
      BY <1>1, <2>2, <3>1, NotUnderItself
    <3>3. h[n].prev # n
      BY <2>2, <3>1, HasPredecessor
    <3> QED  BY <1>1, <3>1, <3>2, <3>3
  <2> QED  BY <1>1, <2>1, <2>2 DEF Pointers
<1>4. Before(h, k, p, new, x)
  BY <1>1, <1>2, PutIsBefore
<1>5. Kid(h, p, x) <=> h[p].child = x
  BY DEF Kid
<1>6. /\ h[p].child = x =>
           /\ g \in [Cells -> Items]
           /\ \A c \in Cells :
                /\ g[c].type = h[c].type /\ g[c].ref = h[c].ref /\ g[c].key = h[c].key
                /\ g[c].next = IF c = x THEN NULL ELSE IF c = new THEN n ELSE h[c].next
                /\ g[c].prev = IF c = x THEN NULL ELSE IF c = n THEN new
                               ELSE IF c = new THEN IF y = x THEN new ELSE y ELSE h[c].prev
                /\ g[c].child = IF c = p THEN new ELSE h[c].child
      /\ h[p].child # x /\ h[p].child \in Cells /\ h[p].child # new
         /\ y \in Cells /\ y \notin {p, x, new} =>
           /\ g \in [Cells -> Items]
           /\ \A c \in Cells :
                /\ g[c].type = h[c].type /\ g[c].ref = h[c].ref /\ g[c].key = h[c].key
                /\ g[c].next = IF c = x THEN NULL ELSE IF c = new THEN n
                               ELSE IF c = y THEN new ELSE h[c].next
                /\ g[c].prev = IF c = x THEN NULL ELSE IF c = n THEN new
                               ELSE IF c = h[p].child /\ n = NULL THEN new
                               ELSE IF c = new THEN y ELSE h[c].prev
                /\ g[c].child = h[c].child
  <2> HIDE DEF n, y
  <2> QED  BY <1>1, <1>2, <1>3, SwappedFields DEF n, y
<1> HIDE DEF g, k
<1>7. CASE Kid(h, p, x)
  <2>1. PutFirst(h, k, p, new, x)
    BY <1>4, <1>7 DEF Before
  <2>2. y = x <=> n = NULL
    <3>1. y \in Cells /\ home[y] = p /\ h[y].next = NULL
      BY <1>1, <1>7 DEF Sound, LastInv, Pointers
    <3>2. n = NULL => x = y
      BY <3>1, LastIsUnique
    <3> QED  BY <3>1, <3>2
  <2> HIDE DEF n, y
  <2>3. k \in [Cells -> Items] /\ \A c \in Cells :
           /\ k[c].type = h[c].type /\ k[c].ref = h[c].ref /\ k[c].key = h[c].key
           /\ k[c].next = IF c = new THEN x ELSE h[c].next
           /\ k[c].prev = IF c = new THEN y ELSE IF c = x THEN new ELSE h[c].prev
           /\ k[c].child = IF c = p THEN new ELSE h[c].child
    BY <2>1 DEF PutFirst, y
  <2>4. g \in [Cells -> Items] /\ \A c \in Cells :
           /\ g[c].type = h[c].type /\ g[c].ref = h[c].ref /\ g[c].key = h[c].key
           /\ g[c].next = IF c = x THEN NULL ELSE IF c = new THEN n ELSE h[c].next
           /\ g[c].prev = IF c = x THEN NULL ELSE IF c = n THEN new
                          ELSE IF c = new THEN IF y = x THEN new ELSE y ELSE h[c].prev
           /\ g[c].child = IF c = p THEN new ELSE h[c].child
    BY <1>5, <1>6, <1>7
  <2>5. k[p].child = new /\ k[x].prev = new /\ k[x].next = n /\ ~Kid(k, p, x)
    BY <1>2, <2>3 DEF Kid, n
  <2>6. \A c \in Cells :
           /\ g[c].type = k[c].type /\ g[c].ref = k[c].ref /\ g[c].key = k[c].key
           /\ g[c].next = IF c = x THEN NULL ELSE IF c = new THEN n ELSE k[c].next
           /\ g[c].prev = IF c = x THEN NULL ELSE IF c = n THEN new
                          ELSE IF c = new /\ n = NULL THEN new ELSE k[c].prev
           /\ g[c].child = k[c].child
    BY <1>1, <1>2, <1>3, <2>2, <2>3, <2>4
  <2>7. \A c \in Cells \ {x, n, new, new} : g[c] = k[c]
    BY <2>3, <2>4, <2>6, SameItems
  <2>8. TakeAfter(k, g, new, new, x)
    BY <2>4, <2>5, <2>6, <2>7 DEF TakeAfter
  <2> QED  BY <2>5, <2>8 DEF Out, g, k
<1>8. CASE ~Kid(h, p, x)
  <2> DEFINE f == h[p].child
  <2>1. y \in Cells /\ h[y].next = x /\ home[y] = p /\ y # x
    BY <1>1, <1>8, HasPredecessor
  <2>2. f \in Cells /\ home[f] = p /\ f # x /\ f # new /\ f # p
    <3>1. \E j \in 1 .. Len(Children(h, p)) : Children(h, p)[j] = x
      BY ListIsAll
    <3>2. h[p].child # NULL
      <4> SUFFICES ASSUME h[p].child = NULL PROVE FALSE
        OBVIOUS
      <4>1. Children(h, p) = <<>>
        BY ChildrenAreList
      <4> QED  BY <3>1, <4>1
    <3>3. f \in Cells /\ home[f] = p
      BY <3>2, ChildrenAreList
    <3>4. home[f] # f
      BY <1>1, <3>3, NotUnderItself
    <3> QED  BY <1>1, <1>5, <1>8, <3>3, <3>4
  <2>3. y # p /\ y # new /\ y # n
    <3>1. home[y] # y
      BY <1>1, <2>1, NotUnderItself
    <3>2. y # n
      <4> SUFFICES ASSUME y = n PROVE FALSE
        OBVIOUS
      <4> DEFINE N == {x, y}
      <4>1. N \in SUBSET Cells /\ N # {} /\ \A c \in N : h[c].next \in N
        BY <2>1
      <4> HIDE DEF N
      <4> QED  BY <4>1, ListsEnd
    <3> QED  BY <1>1, <2>1, <3>1, <3>2
  <2>4. PutBetween(h, k, y, new, x)
    BY <1>4, <1>8 DEF Before
  <2> HIDE DEF n, y, f
  <2>5. k \in [Cells -> Items] /\ \A c \in Cells :
           /\ k[c].type = h[c].type /\ k[c].ref = h[c].ref /\ k[c].key = h[c].key
           /\ k[c].next = IF c = new THEN x ELSE IF c = y THEN new ELSE h[c].next
           /\ k[c].prev = IF c = new THEN y ELSE IF c = x THEN new ELSE h[c].prev
           /\ k[c].child = h[c].child
    BY <2>4 DEF PutBetween
  <2>6. g \in [Cells -> Items] /\ \A c \in Cells :
           /\ g[c].type = h[c].type /\ g[c].ref = h[c].ref /\ g[c].key = h[c].key
           /\ g[c].next = IF c = x THEN NULL ELSE IF c = new THEN n
                          ELSE IF c = y THEN new ELSE h[c].next
           /\ g[c].prev = IF c = x THEN NULL ELSE IF c = n THEN new
                          ELSE IF c = f /\ n = NULL THEN new
                          ELSE IF c = new THEN y ELSE h[c].prev
           /\ g[c].child = h[c].child
    BY <1>6, <1>5, <1>8, <2>1, <2>2, <2>3 DEF f
  <2>7. k[p].child = f /\ k[x].prev = new /\ k[x].next = n /\ ~Kid(k, p, x)
    BY <1>2, <1>8, <2>1, <2>5 DEF Kid, n, f
  <2>8. \A c \in Cells :
           /\ g[c].type = k[c].type /\ g[c].ref = k[c].ref /\ g[c].key = k[c].key
           /\ g[c].next = IF c = x THEN NULL ELSE IF c = new THEN n ELSE k[c].next
           /\ g[c].prev = IF c = x THEN NULL ELSE IF c = n THEN new
                          ELSE IF c = f /\ n = NULL THEN new ELSE k[c].prev
           /\ g[c].child = k[c].child
    BY <1>1, <1>2, <1>3, <2>1, <2>2, <2>3, <2>5, <2>6
  <2>9. \A c \in Cells \ {x, n, new, f} : g[c] = k[c]
    BY <2>5, <2>6, <2>8, SameItems
  <2>10. TakeAfter(k, g, f, new, x)
    BY <2>6, <2>7, <2>8, <2>9 DEF TakeAfter
  <2> QED  BY <2>7, <2>10 DEF Out, g, k
<1> QED  BY <1>7, <1>8

-----------------------------------------------------------------------------
(* Between two calls: no work, and in the caller's hands are whole trees.     *)

Ready(h, gone, home, hand) ==
    /\ Sound(h, gone, home, {}, hand, {})
    /\ \A x \in hand : h[x].next = NULL

\* The sets and functions of a heap between two calls.
LEMMA ReadyFacts ==
    ASSUME CellsAssumption, NEW h, NEW gone, NEW home, NEW hand, Ready(h, gone, home, hand)
    PROVE  /\ h \in [Cells -> Items] /\ home \in [Cells -> Pointers] /\ NULL \notin Cells
           /\ hand \subseteq Cells /\ Live(h, gone) \subseteq Cells
           /\ \A x \in hand : x \in Live(h, gone) /\ home[x] = NULL
           /\ Sound(h, gone, home, {}, hand, {})
  BY DEF Ready, Sound, Shape, TopsInv, Live, CellsAssumption

\* An item of the caller, or a new one, becomes a child.
LEMMA ReadyWhenAdded ==
    ASSUME CellsAssumption, NEW h, NEW gone, NEW home, NEW hand, Ready(h, gone, home, hand),
           NEW p, Parent(h, gone, p), NEW x, Joins(h, home, {}, hand, p, x)
    PROVE  Ready(AddToArray(h, p, x), gone, [home EXCEPT ![x] = p], hand \ {x})
<1>1. /\ h \in [Cells -> Items] /\ home \in [Cells -> Pointers] /\ NULL \notin Cells
      /\ hand \subseteq Cells /\ \A t \in hand : home[t] = NULL /\ h[t].next = NULL
      /\ Sound(h, gone, home, {}, hand, {})
  BY ReadyFacts DEF Ready
<1>2. p \in Cells /\ ~h[p].ref /\ x \in Cells /\ home[x] = NULL /\ p \notin {}
  BY DEF Parent, Live, Joins, Sound, Shape
<1>3. Sound(AddToArray(h, p, x), gone, [home EXCEPT ![x] = p], {}, hand \ {x}, {})
  BY <1>1, <1>2, AddKeepsSound
<1>4. ASSUME NEW t \in hand \ {x} PROVE AddToArray(h, p, x)[t].next = NULL
  <2> DEFINE f == h[p].child
  <2>1. t \in Cells /\ h[t].next = NULL /\ home[t] = NULL /\ t # x
    BY <1>1
  <2>2. CASE f = NULL
    <3>1. AddToArray(h, p, x) = [h EXCEPT ![p].child = x, ![x].prev = x, ![x].next = NULL]
      BY <2>2 DEF AddToArray
    <3> QED  BY <1>1, <1>2, <2>1, <3>1 DEF Items
  <2>3. CASE f # NULL
    <3>1. f \in Cells /\ Kid(h, p, f) /\ home[f] = p
      BY <1>1, <1>2, <2>3, ChildrenAreList
    <3>2. h[f].prev \in Cells /\ home[h[f].prev] = p /\ h[f].prev # NULL
      BY <1>1, <1>2, <3>1, FieldTypes DEF Sound, LastInv, Pointers
    <3>3. h[f].prev # t
      BY <1>1, <1>2, <2>1, <3>2
    <3>4. AddToArray(h, p, x) = [Suffix(h, h[f].prev, x) EXCEPT ![f].prev = x]
      BY <2>3, <3>2, SMTT(30) DEF AddToArray
    <3> DEFINE g == Suffix(h, h[f].prev, x)
    <3>5. g[t] = h[t] /\ g \in [Cells -> Items]
      <4>1. h[f].prev \in Pointers /\ x \in Pointers
        BY <1>2, <3>2 DEF Pointers
      <4> QED  BY <1>1, <1>2, <2>1, <3>2, <3>3, <4>1 DEF Suffix, Items
    <3> HIDE DEF g, f
    <3> QED  BY <2>1, <3>1, <3>4, <3>5 DEF Items, g
  <2> QED  BY <2>2, <2>3
<1> QED  BY <1>3, <1>4 DEF Ready

\* cJSON_New_Item and what is written into it
LEMMA ReadyWithNew ==
    ASSUME CellsAssumption, NEW h, NEW gone, NEW home, NEW hand, Ready(h, gone, home, hand),
           NEW n \in Cells, h[n].type = "free", NEW r \in Items,
           r.type # "free", r.next = NULL, r.prev = NULL,
           r.type \in Scalars => r.child = NULL,
           r.child # NULL => r.ref /\ \E q \in Cells : Kid(h, q, r.child) /\ h[q].type = r.type
    PROVE  /\ Ready([h EXCEPT ![n] = r], gone, home, hand \cup {n})
           /\ Unknown(h, gone, home, n) /\ n \notin hand
<1>1. h \in [Cells -> Items] /\ hand \subseteq Cells /\ Sound(h, gone, home, {}, hand, {})
  BY ReadyFacts
<1>2. Sound([h EXCEPT ![n] = r], gone, home, {}, hand \cup {n}, {}) /\ Unknown(h, gone, home, n)
      /\ n \notin hand
  <2> DEFINE none == {}
  <2>1. none \in {none, none \cup {n}} /\ r.child \notin none /\ Sound(h, gone, home, none, hand, none)
    BY <1>1
  <2> HIDE DEF none
  <2>2. /\ Sound([h EXCEPT ![n] = r], gone, home, none, hand \cup {n}, none)
        /\ Unknown(h, gone, home, n) /\ n \notin none /\ n \notin hand
    BY <2>1, SoundWithNew, ZenonT(120)
  <2> QED  BY <2>2 DEF none
<1> QED  BY <1>1, <1>2 DEF Ready

\* cJSON_Delete
LEMMA ReadyWhenDeleted ==
    ASSUME CellsAssumption, NEW h, NEW gone, NEW home, NEW hand, Ready(h, gone, home, hand),
           NEW x \in hand, NEW F, F = Reach(h, {x}, FALSE),
           \A r \in Live(h, gone) : h[r].ref /\ r \notin F => h[r].child \notin F
    PROVE  \E house : Ready(Delete(h, x), gone, house, hand \ {x})
<1>1. /\ h \in [Cells -> Items] /\ hand \subseteq Cells /\ Sound(h, gone, home, {}, hand, {})
      /\ \A t \in hand : home[t] = NULL /\ h[t].next = NULL
      /\ NULL \notin Cells
  BY ReadyFacts DEF Ready
<1>2. F \in SUBSET Cells
  <2> DEFINE X == {x}
  <2>1. X \in SUBSET Pointers
    BY <1>1 DEF Pointers
  <2>2. F = Reach(h, X, FALSE)
    OBVIOUS
  <2> HIDE DEF X
  <2> QED  BY <1>1, <2>1, <2>2, OwnedFacts
<1> DEFINE house == [c \in Cells |-> IF c \in F THEN NULL ELSE home[c]]
<1>3. \A t \in hand : t # x => home[t] \notin F
  BY <1>1, <1>2
<1>4. /\ Sound(Delete(h, x), gone, house, {} \ F, hand \ {x}, {})
      /\ \A t \in hand : t # x => t \notin F
  <2> DEFINE none == {}
  <2>1. /\ Sound(h, gone, home, none, hand, none)
        /\ \A p \in none, c \in Cells : Kid(h, p, c) => h[c].prev = NULL
    BY <1>1
  <2>2. none \ F = {} \ F
    OBVIOUS
  <2> HIDE DEF none, house, Whole
  <2>3. /\ Sound(Delete(h, x), gone, [c \in Cells |-> IF c \in F THEN NULL ELSE home[c]],
                 none \ F, hand \ {x}, none)
        /\ Whole(h, gone, home, hand, x, F)
    BY <1>3, <2>1, SoundWithoutTree
  <2> QED  BY <2>2, <2>3 DEF none, house, Whole
<1>5. {} \ F = {}
  OBVIOUS
<1>6. \A t \in hand \ {x} : Delete(h, x)[t].next = NULL
  BY <1>1, <1>4 DEF Delete
<1>7. Ready(Delete(h, x), gone, house, hand \ {x})
  BY <1>4, <1>5, <1>6 DEF Ready
<1> QED  BY <1>7

\* What Delete frees when the item belongs to the caller is its tree.
LEMMA WholeTree ==
    ASSUME CellsAssumption, NEW h, NEW gone, NEW home, NEW hand, Ready(h, gone, home, hand),
           NEW x \in hand
    PROVE  Reach(h, {x}, FALSE) = Tree(h, x, FALSE)
<1>1. h \in [Cells -> Items] /\ x \in Cells /\ h[x].next = NULL
  BY ReadyFacts DEF Ready
<1>2. \A y \in Cells : ~Owns(h, y, x)
  BY DEF Ready, Sound, TopsInv, Owns
<1>3. x \notin Under(h, x)
  <2>1. /\ Under(h, x) \in SUBSET Cells
        /\ \A y \in Under(h, x) : Kid(h, x, y) \/ \E z \in Under(h, x) : Owns(h, z, y)
    BY <1>1, UnderFacts
  <2> QED  BY <1>1, <1>2, <2>1 DEF Owns
<1> QED  BY <1>1, <1>3, SubtreeStays

\* cJSON_DetachItemViaPointer
LEMMA ReadyWithout ==
    ASSUME CellsAssumption, NEW h, NEW gone, NEW home, NEW hand, Ready(h, gone, home, hand),
           NEW p \in Cells, ~h[p].ref, NEW x \in Cells, home[x] = p,
           Kid(h, p, x) => Unreferenced(h, gone, x), NEW g, Out(h, g, p, x)
    PROVE  /\ Ready(g, gone, [home EXCEPT ![x] = NULL], hand \cup {x}) /\ x \notin hand
           /\ Leaves(h, home, g, p, x)
<1>1. /\ h \in [Cells -> Items] /\ hand \subseteq Cells /\ Sound(h, gone, home, {}, hand, {})
      /\ \A t \in hand : home[t] = NULL /\ h[t].next = NULL
      /\ NULL \notin Cells /\ p \notin {}
  BY ReadyFacts DEF Ready
<1>2. /\ Sound(g, gone, [home EXCEPT ![x] = NULL], {}, hand \cup {x}, {})
      /\ Leaves(h, home, g, p, x)
  <2> DEFINE none == {}
  <2>1. Sound(h, gone, home, none, hand, none) /\ p \notin none
    BY <1>1
  <2> HIDE DEF none
  <2>2. /\ Sound(g, gone, [home EXCEPT ![x] = NULL], none, hand \cup {x}, none)
        /\ Leaves(h, home, g, p, x)
    BY <2>1, OutKeepsSound
  <2> QED  BY <2>2 DEF none
<1>3. x \notin hand /\ \A t \in hand : home[t] # p
  BY <1>1
<1> QED  BY <1>1, <1>2, <1>3 DEF Ready, Leaves

\* What Delete frees, and the tree of an item.
Freed(h, x) == Reach(h, {x}, FALSE)
OwnTree(h, x) == Tree(h, x, FALSE)
\* No reference from elsewhere leads into what Delete frees.
Alone(h, gone, x) == \A r \in Live(h, gone) : h[r].ref /\ r \notin Freed(h, x) => h[r].child \notin Freed(h, x)

\* From h to g, x leaves its list, and what is not in that list stays as it is.
Beside(h, home, hand, g, x) ==
    /\ g[x].next = NULL /\ g[x].ref = h[x].ref /\ g[x].child = h[x].child
    /\ \A c \in Cells : c \notin hand /\ home[c] # home[x] /\ c # home[x] =>
           g[c].ref = h[c].ref /\ g[c].child = h[c].child /\ g[c].next = h[c].next

\* What is not the caller's is deleted with its tree.
LEMMA TreeWithout ==
    ASSUME CellsAssumption, NEW h, NEW gone, NEW home, NEW hand, Ready(h, gone, home, hand),
           NEW x \in Cells, home[x] # NULL, NEW g \in [Cells -> Items],
           Beside(h, home, hand, g, x)
    PROVE  Freed(g, x) = OwnTree(h, x)
<1>1. h \in [Cells -> Items] /\ Sound(h, gone, home, {}, hand, {}) /\ home[x] \notin {}
  BY ReadyFacts
<1>2. /\ x \notin Under(h, x) /\ home[x] # x /\ home[x] \notin Under(h, x)
      /\ \A y \in Under(h, x) : home[y] # home[x]
      /\ \A y \in Under(h, x) : y \notin hand
  BY <1>1, NotUnderItself
<1>3. Under(h, x) \in SUBSET Cells
  BY <1>1, UnderFacts
<1>4. \A y \in Under(h, x) : /\ g[y].next = h[y].next /\ g[y].child = h[y].child
                             /\ g[y].ref = h[y].ref
  BY <1>2, <1>3 DEF Beside
<1>5. g[x].next = NULL /\ g[x].ref = h[x].ref /\ g[x].child = h[x].child
  BY DEF Beside
<1> QED  BY <1>1, <1>2, <1>4, <1>5, SubtreeStays DEF Freed, OwnTree

\* An item of the caller's hands goes into a list before a.
LEMMA ReadyWhenBefore ==
    ASSUME CellsAssumption, NEW h, NEW gone, NEW home, NEW hand, Ready(h, gone, home, hand),
           NEW p, Parent(h, gone, p), NEW x, Joins(h, home, {}, hand, p, x),
           NEW a \in Cells, home[a] = p, Kid(h, p, a) => Unreferenced(h, gone, a),
           NEW g, Before(h, g, p, x, a)
    PROVE  Ready(g, gone, [home EXCEPT ![x] = p], hand \ {x})
<1>1. /\ h \in [Cells -> Items] /\ NULL \notin Cells
      /\ hand \subseteq Cells /\ \A t \in hand : home[t] = NULL /\ h[t].next = NULL
      /\ Sound(h, gone, home, {}, hand, {})
  BY ReadyFacts DEF Ready
<1>2. p \in Cells
  BY DEF Parent, Live
<1>3. Sound(g, gone, [home EXCEPT ![x] = p], {}, hand \ {x}, {})
  <2> DEFINE none == {}
  <2>1. Sound(h, gone, home, none, hand, none) /\ Joins(h, home, none, hand, p, x) /\ p \notin none
    BY <1>1
  <2> HIDE DEF none
  <2>2. Sound(g, gone, [home EXCEPT ![x] = p], none, hand \ {x}, none)
    BY <2>1, BeforeKeepsSound
  <2> QED  BY <2>2 DEF none
<1>4. \A c \in Cells : c # x /\ (Kid(h, p, a) \/ c # h[a].prev) => g[c].next = h[c].next
  BY DEF Before, PutFirst, PutBetween
<1>5. ~Kid(h, p, a) => home[h[a].prev] = p
  <2> DEFINE none == {}
  <2>1. Sound(h, gone, home, none, hand, none) /\ p \notin none
    BY <1>1
  <2> HIDE DEF none
  <2> QED  BY <1>2, <2>1, HasPredecessor
<1>6. \A t \in hand \ {x} : g[t].next = NULL
  BY <1>1, <1>2, <1>4, <1>5
<1> QED  BY <1>3, <1>6 DEF Ready

\* cJSON_InsertItemInArray
LEMMA ReadyWhenInserted ==
    ASSUME CellsAssumption, NEW h, NEW gone, NEW home, NEW hand, Ready(h, gone, home, hand),
           NEW p, Parent(h, gone, p), NEW x, Joins(h, home, {}, hand, p, x),
           h[p].child # NULL => Unreferenced(h, gone, h[p].child), NEW index \in Nat
    PROVE  Ready(Insert(h, p, index, x), gone, [home EXCEPT ![x] = p], hand \ {x})
<1>1. /\ NULL \notin Cells /\ p \in Cells /\ x \in Cells /\ ~h[p].ref /\ home[x] # p /\ x # p
      /\ Sound(h, gone, home, {}, hand, {})
  <2>1. NULL \notin Cells /\ Sound(h, gone, home, {}, hand, {}) /\ hand \subseteq Cells
    BY ReadyFacts
  <2> QED  BY <2>1 DEF Live, Parent, Joins
<1> DEFINE a == ArrayItem(h, p, index)
<1>2. CASE a = NULL
  <2>1. Insert(h, p, index, x) = AddToArray(h, p, x)
    BY <1>2 DEF Insert
  <2> QED  BY <2>1, ReadyWhenAdded
<1>3. CASE a # NULL
  <2>1. a \in Cells /\ home[a] = p /\ h[p].child # NULL
    BY <1>1, <1>3, ItemsAreFound
  <2>2. Insert(h, p, index, x) = PutBefore(h, p, x, a)
    BY <1>3 DEF Insert, PutBefore
  <2> HIDE DEF a
  <2>3. Before(h, PutBefore(h, p, x, a), p, x, a)
    <3> DEFINE none == {}
    <3>1. Sound(h, gone, home, none, hand, none) /\ p \notin none
      BY <1>1
    <3> HIDE DEF none
    <3> QED  BY <1>1, <2>1, <3>1, PutIsBefore
  <2>4. Kid(h, p, a) => Unreferenced(h, gone, a)
    BY <2>1 DEF Kid
  <2> QED  BY <2>1, <2>2, <2>3, <2>4, ReadyWhenBefore
<1> QED  BY <1>2, <1>3

\* A child is taken out and deleted.
LEMMA ReadyWhenTakenOut ==
    ASSUME CellsAssumption, NEW h, NEW gone, NEW home, NEW hand, Ready(h, gone, home, hand),
           NEW p \in Cells, ~h[p].ref, NEW x \in Cells, home[x] = p,
           Kid(h, p, x) => Unreferenced(h, gone, x), NEW g, Out(h, g, p, x),
           NEW F, Reach(g, {x}, FALSE) = F,
           \A r \in Live(h, gone) : h[r].ref /\ r \notin F => h[r].child \notin F
    PROVE  Alone(g, gone, x) /\ \E house : Ready(Delete(g, x), gone, house, hand)
<1>1. h \in [Cells -> Items] /\ Ready(g, gone, [home EXCEPT ![x] = NULL], hand \cup {x}) /\ x \notin hand
      /\ Leaves(h, home, g, p, x)
  BY ReadyFacts, ReadyWithout
<1>2. \A r \in Live(g, gone) : g[r].ref /\ r \notin F => g[r].child \notin F
  <2> SUFFICES ASSUME NEW r \in Live(g, gone), g[r].ref, r \notin F PROVE g[r].child \notin F
    OBVIOUS
  <2>1. r \in Live(h, gone) /\ h[r].ref /\ r # p
    BY <1>1 DEF Live, Leaves
  <2> QED  BY <1>1, <2>1 DEF Leaves, Live
<1> DEFINE house == [home EXCEPT ![x] = NULL]
           more == hand \cup {x}
<1>3. Ready(g, gone, house, more) /\ x \in more /\ more \ {x} = hand
  BY <1>1
<1> HIDE DEF house, more
<1>4. \E other : Ready(Delete(g, x), gone, other, more \ {x})
  BY <1>2, <1>3, ReadyWhenDeleted
<1>5. Alone(g, gone, x)
  BY <1>2 DEF Alone, Freed
<1> QED  BY <1>3, <1>4, <1>5

\* cJSON_DeleteItemFromArray and its like: a child is detached and freed.
LEMMA ReadyWhenChildDeleted ==
    ASSUME CellsAssumption, NEW h, NEW gone, NEW home, NEW hand, Ready(h, gone, home, hand),
           NEW p \in Cells, ~h[p].ref, NEW x \in Cells, home[x] = p,
           Kid(h, p, x) => Unreferenced(h, gone, x),
           \A r \in Live(h, gone) :
               h[r].ref /\ r \notin Tree(h, x, FALSE) => h[r].child \notin Tree(h, x, FALSE)
    PROVE  /\ Alone(Detach(h, p, x), gone, x)
           /\ \E house : Ready(Delete(Detach(h, p, x), x), gone, house, hand)
<1> DEFINE g == Detach(h, p, x)
           F == Tree(h, x, FALSE)
<1>1. /\ h \in [Cells -> Items] /\ hand \subseteq Cells /\ Sound(h, gone, home, {}, hand, {})
      /\ \A t \in hand : home[t] = NULL
      /\ NULL \notin Cells
  BY ReadyFacts DEF Ready
<1>2. Out(h, g, p, x)
  <2> DEFINE none == {}
  <2>1. Sound(h, gone, home, none, hand, none) /\ p \notin none
    BY <1>1
  <2> HIDE DEF none
  <2> QED  BY <2>1, DetachTakesOut
<1> HIDE DEF g
<1>3. Leaves(h, home, g, p, x)
  BY <1>2, ReadyWithout
<1>4. home[x] # x
  <2> DEFINE none == {}
  <2>1. Sound(h, gone, home, none, hand, none) /\ home[x] \notin none /\ home[x] # NULL
    BY <1>1
  <2> HIDE DEF none
  <2> QED  BY <2>1, NotUnderItself
<1>5. Reach(g, {x}, FALSE) = F
  <2>1. Beside(h, home, hand, g, x) /\ g \in [Cells -> Items] /\ home[x] # NULL
    BY <1>1, <1>3, <1>4 DEF Beside, Leaves
  <2>2. Freed(g, x) = OwnTree(h, x)
    BY <2>1, TreeWithout
  <2> QED  BY <2>2 DEF Freed, OwnTree
<1> HIDE DEF F
<1>6. \A r \in Live(h, gone) : h[r].ref /\ r \notin F => h[r].child \notin F
  BY DEF F
<1> QED  BY <1>2, <1>5, <1>6, ReadyWhenTakenOut DEF g

\* cJSON_ReplaceItemViaPointer
LEMMA ReadyWhenReplaced ==
    ASSUME CellsAssumption, NEW h, NEW gone, NEW home, NEW hand, Ready(h, gone, home, hand),
           NEW p, Parent(h, gone, p), NEW new, Joins(h, home, {}, hand, p, new),
           h[p].child # NULL => Unreferenced(h, gone, h[p].child),
           NEW x \in Cells, home[x] = p,
           \A r \in Live(h, gone) :
               h[r].ref /\ r \notin Tree(h, x, FALSE) => h[r].child \notin Tree(h, x, FALSE)
    PROVE  /\ Alone(Swapped(h, p, x, new), gone, x)
           /\ \E house : Ready(Replace(h, p, x, new), gone, house, hand \ {new})
<1> DEFINE k == PutBefore(h, p, new, x)
           g == Swapped(h, p, x, new)
           F == Tree(h, x, FALSE)
           home2 == [home EXCEPT ![new] = p]
           rest == hand \ {new}
           none == {}
<1>1. /\ h \in [Cells -> Items] /\ hand \subseteq Cells /\ Sound(h, gone, home, none, hand, none)
      /\ \A t \in hand : home[t] = NULL
      /\ NULL \notin Cells /\ p \notin none /\ home \in [Cells -> Pointers]
  BY ReadyFacts DEF Ready
<1>2. /\ p \in Cells /\ p \in Live(h, gone) /\ ~h[p].ref /\ new \in Cells /\ new \in hand /\ home[new] = NULL
      /\ new # p
  BY <1>1 DEF Parent, Joins, Live
<1>3. Kid(h, p, x) => Unreferenced(h, gone, x)
  BY DEF Kid
<1> HIDE DEF none
<1>4. Before(h, k, p, new, x)
  BY <1>1, <1>2, PutIsBefore
<1>5. Out(k, g, p, x)
  BY <1>1, <1>2, SwappedIsOut
<1> HIDE DEF g, k
<1>6. Ready(k, gone, home2, rest)
  BY <1>3, <1>4, ReadyWhenBefore
<1>7. new # x /\ home2[x] = p /\ x # p /\ home[x] # NULL /\ home[x] \notin none
  <2>1. home[x] # NULL /\ home[x] \notin none
    BY <1>1, <1>2
  <2>2. home[x] # x
    BY <1>1, <2>1, NotUnderItself
  <2> QED  BY <1>1, <1>2, <2>1, <2>2
<1> HIDE DEF home2, rest
<1>8. /\ k \in [Cells -> Items]
      /\ \A c \in Cells : /\ k[c].type = h[c].type /\ k[c].ref = h[c].ref
                          /\ c # p => k[c].child = h[c].child
                          /\ home[c] # p /\ c # new => k[c].next = h[c].next
      /\ Kid(h, p, x) => k[p].child = new
  <2>1. CASE Kid(h, p, x)
    BY <1>4, <1>2, <2>1 DEF Before, PutFirst
  <2>2. CASE ~Kid(h, p, x)
    <3>1. h[x].prev \in Cells /\ home[h[x].prev] = p
      BY <1>1, <1>2, <2>2, HasPredecessor
    <3> QED  BY <1>4, <2>2, <3>1 DEF Before, PutBetween
  <2> QED  BY <2>1, <2>2
<1>9. ~Kid(k, p, x)
  <2>1. CASE Kid(h, p, x)
    BY <1>7, <1>8, <2>1 DEF Kid
  <2>2. CASE ~Kid(h, p, x)
    BY <1>4, <1>2, <2>2 DEF Before, PutBetween, Kid
  <2> QED  BY <2>1, <2>2
<1>10. Leaves(k, home2, g, p, x)
  <2>1. ~k[p].ref /\ (Kid(k, p, x) => Unreferenced(k, gone, x))
    BY <1>2, <1>8, <1>9
  <2> QED  BY <1>2, <1>5, <1>6, <1>7, <2>1, ReadyWithout
<1>11. Reach(g, {x}, FALSE) = F
  <2>1. g[x].next = NULL /\ g[x].ref = h[x].ref /\ g[x].child = h[x].child /\ g \in [Cells -> Items]
    BY <1>7, <1>8, <1>10 DEF Leaves
  <2>2. ASSUME NEW c \in Cells, c \notin hand, home[c] # home[x], c # home[x]
        PROVE  g[c].ref = h[c].ref /\ g[c].child = h[c].child /\ g[c].next = h[c].next
    <3>1. c # new /\ c # p /\ home[c] # p /\ home2[c] = home[c]
      BY <1>1, <1>2, <2>2 DEF home2
    <3> QED  BY <1>8, <1>10, <3>1 DEF Leaves
  <2>3. Beside(h, home, hand, g, x)
    BY <2>1, <2>2 DEF Beside
  <2>4. Freed(g, x) = OwnTree(h, x)
    BY <1>7, <2>1, <2>3, TreeWithout
  <2> QED  BY <2>4 DEF Freed, OwnTree
<1> HIDE DEF F
<1>12. \A r \in Live(k, gone) : k[r].ref /\ r \notin F => k[r].child \notin F
  <2> SUFFICES ASSUME NEW r \in Live(k, gone), k[r].ref, r \notin F PROVE k[r].child \notin F
    OBVIOUS
  <2>1. r \in Live(h, gone) /\ h[r].ref /\ k[r].child = h[r].child
    BY <1>2, <1>8 DEF Live
  <2> QED  BY <2>1 DEF F
<1>13. Alone(g, gone, x) /\ \E house : Ready(Delete(g, x), gone, house, rest)
  <2>1. ~k[p].ref /\ (Kid(k, p, x) => Unreferenced(k, gone, x))
    BY <1>2, <1>8, <1>9
  <2> QED  BY <1>2, <1>5, <1>6, <1>7, <1>11, <1>12, <2>1, ReadyWhenTakenOut
<1>14. Replace(h, p, x, new) = Delete(g, x)
  BY DEF Replace, g
<1> QED  BY <1>13, <1>14 DEF rest, g

\* The name of an item in the caller's hands is of no importance.
LEMMA ReadyWhenNamed ==
    ASSUME CellsAssumption, NEW h, NEW gone, NEW home, NEW hand, Ready(h, gone, home, hand),
           NEW x \in hand, NEW key \in Keys \cup {NULL}
    PROVE  /\ Ready(Named(h, x, key), gone, home, hand)
           /\ \A c \in Cells : /\ c # x => Named(h, x, key)[c] = h[c]
                               /\ Named(h, x, key)[c].type = h[c].type
                               /\ Named(h, x, key)[c].ref = h[c].ref
                               /\ Named(h, x, key)[c].next = h[c].next
                               /\ Named(h, x, key)[c].child = h[c].child
                               /\ Named(h, x, key)[x].key = key
<1> DEFINE g == Named(h, x, key)
           none == {}
<1>1. /\ h \in [Cells -> Items] /\ x \in Cells /\ home[x] = NULL /\ x \in Live(h, gone)
      /\ Sound(h, gone, home, none, hand, none)
  BY ReadyFacts
<1>2. g \in [Cells -> Items]
  BY <1>1 DEF Named, Items
<1>3. \A c \in Cells : /\ g[c].ref = h[c].ref /\ g[c].next = h[c].next
                       /\ g[c].prev = h[c].prev /\ g[c].child = h[c].child
                       /\ g[c].type = h[c].type /\ (c # x => g[c] = h[c])
  BY <1>1 DEF Named, Items
<1>4. g[x].key = key
  BY <1>1 DEF Named, Items
<1> HIDE DEF g, none
<1>5. NamesInv(g, home)
  <2>1. NamesInv(h, home) /\ HomeInv(h, gone, home)
    BY <1>1 DEF Sound
  <2>2. \A c \in Cells : home[c] # NULL => c # x /\ home[c] \in Cells
    BY <1>1, <2>1 DEF HomeInv, Live
  <2> QED  BY <1>3, <2>1, <2>2 DEF NamesInv
<1>6. h[x].type # "free"
  BY <1>1 DEF Live
<1>7. \A c \in Cells : /\ g[c].ref = h[c].ref /\ g[c].next = h[c].next
                       /\ g[c].prev = h[c].prev /\ g[c].child = h[c].child
                       /\ g[c].type = "free" <=> h[c].type = "free"
                       /\ g[c].type = "free" => g[c] = h[c]
                       /\ g[c].type # h[c].type => h[c].child = NULL
  BY <1>3, <1>6
<1>8. Sound(g, gone, home, none, hand, none)
  BY <1>1, <1>2, <1>5, <1>7, SoundWhenLinksStay
<1>9. \A t \in hand : g[t].next = NULL
  BY <1>1, <1>3, ReadyFacts DEF Ready
<1> QED  BY <1>3, <1>4, <1>8, <1>9 DEF Ready, g, none

-----------------------------------------------------------------------------
(* The work of a call: it is allocated, hung under its parent, handed over.  *)

\* A finished tree is no work of the call any more.
LEMMA SoundWhenHandedOver ==
    ASSUME NEW h, NEW gone, NEW home, NEW fresh, NEW tops, NEW open,
           Sound(h, gone, home, fresh, tops, open)
    PROVE  Sound(h, gone, home, {}, tops, open)
<1> DEFINE none == {}
<1>1. \A x : x \notin none
  OBVIOUS
<1>2. none \subseteq Live(h, gone)
  OBVIOUS
<1> HIDE DEF none
<1>3. Shape(h, gone, home, none, tops, open)
  BY <1>2 DEF Sound, Shape
<1>4. RefsInv(h, gone, none)
  BY <1>1 DEF Sound, RefsInv
<1>5. FreshInv(h, none)
  BY <1>1 DEF FreshInv
<1>6. Sound(h, gone, home, none, tops, open)
  BY <1>3, <1>4, <1>5 DEF Sound
<1> QED  BY <1>6 DEF none

\* A finished work becomes the caller's.
LEMMA ReadyWhenHandedOver ==
    ASSUME NEW h, NEW gone, NEW home, NEW fresh, NEW tops, NEW open,
           Sound(h, gone, home, fresh, tops, open), open = {},
           \A x \in tops : h[x].next = NULL
    PROVE  Ready(h, gone, home, tops)
<1>1. Sound(h, gone, home, {}, tops, open)
  BY SoundWhenHandedOver
<1> QED  BY <1>1 DEF Ready

\* A list without items is closed as it stands.
LEMMA SoundWhenEmpty ==
    ASSUME NEW h, NEW gone, NEW home, NEW fresh, NEW tops, NEW open, NEW less,
           CellsAssumption, Sound(h, gone, home, fresh, tops, open),
           NEW p, p \in Cells => h[p].child = NULL,
           \A t \in tops : home[t] # p, open \ {p} \subseteq less
    PROVE  Sound(h, gone, home, fresh, tops, less)
<1>1. Shape(h, gone, home, fresh, tops, less)
  BY DEF Sound, Shape
<1>2. TopsInv(h, home, tops, less)
  BY DEF Sound, TopsInv
<1>3. LastInv(h, home, less)
  <2> SUFFICES ASSUME NEW q \in Cells, NEW c \in Cells, Kid(h, q, c), q \notin less
               PROVE  h[c].prev # NULL /\ home[h[c].prev] = q /\ h[h[c].prev].next = NULL
    BY DEF LastInv
  <2>1. q # p
    BY DEF Kid, CellsAssumption
  <2> QED  BY <2>1 DEF Sound, LastInv
<1> QED  BY <1>1, <1>2, <1>3 DEF Sound

\* A live item has an item in its list only when it has a first one.
LEMMA NoChildNoList ==
    ASSUME CellsAssumption, NEW h, NEW gone, NEW home, NEW fresh, NEW tops, NEW open,
           Sound(h, gone, home, fresh, tops, open), NEW p \in Cells, h[p].child = NULL,
           \A t \in tops : home[t] # p
    PROVE  \A x \in Cells : home[x] # p
<1> DEFINE N == {x \in Cells : home[x] = p}
<1>1. /\ h \in [Cells -> Items] /\ Founded(h, gone, tops) /\ tops \subseteq Cells /\ NULL \notin Cells
      /\ HomeInv(h, gone, home)
  BY DEF Sound, Shape, Live, CellsAssumption
<1>2. N \in SUBSET Cells /\ \A y \in N : y \notin tops
  OBVIOUS
<1>3. \A y \in N, z \in Cells : Owns(h, z, y) => z \in N
  BY <1>1 DEF Owns, Kid, HomeInv
<1>4. \A y \in N : y \notin Live(h, gone)
  <2> HIDE DEF N
  <2> QED  BY <1>1, <1>2, <1>3, Backward
<1> QED  BY <1>1, <1>4 DEF HomeInv

\* The first item of a text's list is known before it is hung under its container.
LEMMA SoundWithHome ==
    ASSUME CellsAssumption, NEW h, NEW gone, NEW home, NEW fresh, NEW tops, NEW open,
           Sound(h, gone, home, fresh, tops, open),
           NEW n \in tops, home[n] = NULL, h[n].next = NULL,
           NEW p \in open, p \in Live(h, gone), h[p].type # "object"
    PROVE  Sound(h, gone, [home EXCEPT ![n] = p], fresh, tops, open)
<1> DEFINE house == [home EXCEPT ![n] = p]
<1>1. /\ n \in Live(h, gone) /\ n \in Cells /\ p \in Cells /\ home \in [Cells -> Pointers]
      /\ h \in [Cells -> Items] /\ NULL \notin Cells
      /\ \A y \in Cells : h[y].next # n /\ ~Kid(h, y, n)
  BY DEF Sound, Shape, Live, TopsInv, CellsAssumption
<1>2. /\ house \in [Cells -> Pointers] /\ house[n] = p
      /\ \A c \in Cells : c # n => house[c] = home[c]
  BY <1>1 DEF Pointers
<1> HIDE DEF house
<1>3. Shape(h, gone, house, fresh, tops, open)
  BY <1>2 DEF Sound, Shape
<1>4. HomeInv(h, gone, house)
  <2>1. \A c \in Cells : house[c] # NULL => c \in Live(h, gone) /\ house[c] \in Live(h, gone)
    BY <1>1, <1>2 DEF Sound, HomeInv
  <2>2. \A q, c \in Cells : Kid(h, q, c) => house[c] = q /\ \A y \in Cells : h[y].next # c
    BY <1>1, <1>2 DEF Sound, HomeInv
  <2>3. \A y, z \in Cells : h[y].next = z => house[z] = house[y] /\ h[z].prev = y
    BY <1>1, <1>2 DEF Sound, HomeInv
  <2> QED  BY <2>1, <2>2, <2>3 DEF HomeInv
<1>5. TopsInv(h, house, tops, open)
  BY <1>1, <1>2 DEF Sound, TopsInv, Shape, Live
<1>6. LastInv(h, house, open)
  <2> SUFFICES ASSUME NEW q \in Cells, NEW c \in Cells, Kid(h, q, c), q \notin open
               PROVE  h[c].prev # NULL /\ house[h[c].prev] = q /\ h[h[c].prev].next = NULL
    BY DEF LastInv
  <2>1. h[c].prev # NULL /\ home[h[c].prev] = q /\ h[h[c].prev].next = NULL /\ h[c].prev \in Cells
    BY <1>1, FieldTypes DEF Sound, LastInv, Pointers
  <2>2. h[c].prev # n
    BY <1>1, <2>1
  <2> QED  BY <1>2, <2>1, <2>2
<1>7. NamesInv(h, house)
  BY <1>1, <1>2 DEF Sound, NamesInv
<1> QED  BY <1>3, <1>4, <1>5, <1>6, <1>7 DEF Sound, house

\* A top leads to no other top.
LEMMA TopsStayOut ==
    ASSUME CellsAssumption, NEW h, NEW gone, NEW home, NEW fresh, NEW tops, NEW open,
           Sound(h, gone, home, fresh, tops, open), NEW x \in tops
    PROVE  \A t \in tops : t # x => t \notin Freed(h, x)
<1> DEFINE S == {x}
<1>1. h \in [Cells -> Items] /\ tops \subseteq Cells /\ S \in SUBSET Pointers
  BY DEF Sound, Shape, Live, Pointers
<1>2. ASSUME NEW t \in tops, t # x, t \in Reach(h, S, FALSE) PROVE FALSE
  <2>1. t \notin S
    BY <1>2
  <2>2. \E z \in Reach(h, S, FALSE) : Owns(h, z, t) /\ z \in Cells
    <3>1. Reach(h, S, FALSE) \in SUBSET Cells
      BY <1>1, OwnedFacts
    <3> HIDE DEF S
    <3> QED  BY <1>1, <1>2, <2>1, <3>1, ReachedFromOwner
  <2> QED  BY <2>2 DEF Sound, TopsInv, Owns
<1> QED  BY <1>2 DEF Freed

\* Nor to an item of a list that it does not lead to as a whole.
LEMMA ListStaysOut ==
    ASSUME CellsAssumption, NEW h, NEW gone, NEW home, NEW fresh, NEW tops, NEW open,
           Sound(h, gone, home, fresh, tops, open), NEW x \in tops,
           NEW p, p \notin Freed(h, x) \/ h[p].child = NULL, home[x] # p,
           NEW c \in Live(h, gone), home[c] = p
    PROVE  c \notin Freed(h, x)
<1> DEFINE S == {x}
           F == Reach(h, S, FALSE)
           N == {y \in F : home[y] = p}
<1>1. /\ h \in [Cells -> Items] /\ Founded(h, gone, tops) /\ tops \subseteq Cells /\ NULL \notin Cells
      /\ HomeInv(h, gone, home) /\ S \in SUBSET Pointers
  BY DEF Sound, Shape, Live, CellsAssumption, Pointers
<1>2. F \in SUBSET Cells
  BY <1>1, OwnedFacts
<1>3. F = Freed(h, x)
  BY DEF Freed
<1>4. \A y \in F : y # x => \E z \in F : Owns(h, z, y)
  <2> HIDE DEF S
  <2>1. \A y \in F : y \notin S => \E z \in F : Owns(h, z, y)
    BY <1>1, ReachedFromOwner
  <2> QED  BY <2>1 DEF S
<1> HIDE DEF F
<1>5. N \in SUBSET Cells /\ \A y \in N : y # x /\ y \notin tops
  BY <1>2, <1>3, TopsStayOut
<1>6. ASSUME NEW y \in N, NEW z \in Cells, Owns(h, z, y) PROVE z \in N
  <2>1. PICK v \in F : Owns(h, v, y)
    BY <1>4, <1>5
  <2>2. v = z
    BY <1>1, <1>2, <1>5, <1>6, <2>1, OneOwner
  <2>3. CASE h[z].next = y
    BY <1>1, <1>5, <2>1, <2>2, <2>3 DEF HomeInv
  <2>4. CASE Kid(h, z, y)
    <3>1. home[y] = z /\ home[y] = p
      BY <1>1, <1>5, <2>4 DEF HomeInv
    <3> QED  BY <1>1, <1>2, <1>3, <1>5, <2>1, <2>2, <2>4, <3>1 DEF Kid
  <2> QED  BY <1>6, <2>3, <2>4 DEF Owns
<1>7. \A y \in N : y \notin Live(h, gone)
  <2> HIDE DEF N
  <2> QED  BY <1>1, <1>5, <1>6, Backward
<1> QED  BY <1>3, <1>7

\* The work of the call leads to itself.
LEMMA FreshIsClosed ==
    ASSUME CellsAssumption, NEW h, NEW gone, NEW home, NEW fresh, NEW tops, NEW open,
           Sound(h, gone, home, fresh, tops, open)
    PROVE  /\ Closed(h, fresh) /\ Closed(h, Cells \ fresh) /\ fresh \in SUBSET Cells
           /\ \A x \in fresh : Freed(h, x) \subseteq fresh
           /\ \A x \in Cells : Freed(h, x) \in SUBSET Cells /\ Closed(h, Freed(h, x)) /\ x \in Freed(h, x)
<1>1. h \in [Cells -> Items] /\ fresh \in SUBSET Cells /\ NULL \notin Cells
  BY DEF Sound, Shape, Live, CellsAssumption
<1>2. Closed(h, fresh) /\ Closed(h, Cells \ fresh)
  <2>1. \A x \in Cells : h[x].next \in Pointers /\ h[x].child \in Pointers
    BY <1>1, FieldTypes
  <2> QED  BY <1>1, <2>1 DEF Sound, FreshInv, Closed, Kid, Pointers
<1>3. ASSUME NEW x \in Cells
      PROVE  /\ Freed(h, x) \in SUBSET Cells /\ Closed(h, Freed(h, x)) /\ x \in Freed(h, x)
             /\ \A Q \in SUBSET Cells : x \in Q /\ Closed(h, Q) => Freed(h, x) \subseteq Q
  <2> DEFINE S == {x}
  <2>1. S \in SUBSET Pointers /\ S \ {NULL} = S /\ x \in S
    BY <1>1 DEF Pointers
  <2>2. \A Q : x \in Q => S \subseteq Q
    OBVIOUS
  <2> DEFINE R == Reach(h, S, FALSE)
  <2>3. Freed(h, x) = R
    BY DEF Freed
  <2> HIDE DEF S
  <2>4. /\ R \in SUBSET Cells /\ S \ {NULL} \subseteq R /\ Closed(h, R)
        /\ \A Q \in SUBSET Cells : S \ {NULL} \subseteq Q /\ Closed(h, Q) => R \subseteq Q
    BY <1>1, <2>1, OwnedFacts
  <2> HIDE DEF R
  <2> QED  BY <2>1, <2>2, <2>3, <2>4
<1> QED  BY <1>1, <1>2, <1>3

\* An item that the call at work allocates.
LEMMA SoundWithFresh ==
    ASSUME CellsAssumption, NEW h, NEW gone, NEW home, NEW fresh, NEW tops, NEW open,
           Sound(h, gone, home, fresh, tops, open),
           NEW n \in Cells, h[n].type = "free", NEW r \in Items,
           r.type # "free", r.next = NULL, r.prev = NULL, r.child = NULL
    PROVE  /\ Sound([h EXCEPT ![n] = r], gone, home, fresh \cup {n}, tops \cup {n}, open)
           /\ Unknown(h, gone, home, n) /\ n \notin fresh /\ n \notin tops
<1>1. ASSUME NEW mine, mine = fresh \cup {n}
      PROVE  /\ Sound([h EXCEPT ![n] = r], gone, home, mine, tops \cup {n}, open)
             /\ Unknown(h, gone, home, n) /\ n \notin fresh /\ n \notin tops
  BY <1>1, SoundWithNew
<1> QED  BY <1>1

\* The first item of a call.
LEMMA SoundWithStart ==
    ASSUME CellsAssumption, NEW h, NEW gone, NEW home, NEW hand, Ready(h, gone, home, hand),
           NEW n \in Cells, h[n].type = "free", NEW r \in Items,
           r.type # "free", r.next = NULL, r.prev = NULL, r.child = NULL,
           NEW fresh, fresh = {n}, NEW open
    PROVE  /\ Sound([h EXCEPT ![n] = r], gone, home, fresh, hand \cup {n}, open)
           /\ Unknown(h, gone, home, n) /\ n \notin hand
<1> DEFINE none == {}
<1>1. Sound(h, gone, home, none, hand, none) /\ none \subseteq open /\ none \cup {n} = fresh
  BY ReadyFacts
<1> HIDE DEF none
<1>2. /\ Sound([h EXCEPT ![n] = r], gone, home, none \cup {n}, hand \cup {n}, none)
      /\ Unknown(h, gone, home, n) /\ n \notin none /\ n \notin hand
  BY <1>1, SoundWithFresh
<1>3. Sound([h EXCEPT ![n] = r], gone, home, fresh, hand \cup {n}, none)
  BY <1>1, <1>2
<1>4. Sound([h EXCEPT ![n] = r], gone, home, fresh, hand \cup {n}, open)
  BY <1>1, <1>3, SoundWhenOpened
<1> QED  BY <1>2, <1>4

\* The first item of the list of n learns that l is the last one.
Finished(h, n, l) == IF h[n].child = NULL THEN h ELSE [h EXCEPT ![h[n].child].prev = l]

\* What finishing the list of n changes.
Finishes(h, g, n) ==
    \A c \in Cells : /\ g[c].type = h[c].type /\ g[c].ref = h[c].ref /\ g[c].key = h[c].key
                     /\ g[c].next = h[c].next /\ g[c].child = h[c].child
                     /\ c # h[n].child => g[c].prev = h[c].prev

\* cJSON_Duplicate has the last child of its copy: the first one learns of it.
LEMMA SoundWhenFinished ==
    ASSUME CellsAssumption, NEW h, NEW gone, NEW home, NEW fresh, NEW tops, NEW open, NEW less,
           Sound(h, gone, home, fresh, tops, open),
           NEW n \in Cells, ~h[n].ref, \A t \in tops : home[t] # n,
           NEW l \in Pointers, h[n].child = NULL <=> l = NULL,
           l # NULL => home[l] = n /\ h[l].next = NULL, open \ {n} \subseteq less
    PROVE  /\ Sound(Finished(h, n, l), gone, home, fresh, tops, less)
           /\ Finishes(h, Finished(h, n, l), n)
<1>1. h \in [Cells -> Items] /\ NULL \notin Cells
  BY DEF Sound, Shape, CellsAssumption
<1>2. CASE h[n].child = NULL
  <2>1. Finished(h, n, l) = h
    BY <1>2 DEF Finished
  <2>2. Finishes(h, h, n)
    BY DEF Finishes
  <2>3. n \in Cells => h[n].child = NULL
    BY <1>2
  <2>4. Sound(h, gone, home, fresh, tops, less)
    BY <2>3, SoundWhenEmpty
  <2> QED  BY <2>1, <2>4, <2>2
<1>3. CASE h[n].child # NULL
  <2> DEFINE x == h[n].child
  <2>1. /\ Finished(h, n, l) = [h EXCEPT ![x].prev = l] /\ x \in Cells /\ l \in Cells
        /\ Kid(h, n, x) /\ home[l] = n /\ h[l].next = NULL
    BY <1>1, <1>3, FieldTypes DEF Finished, Pointers, Kid
  <2> HIDE DEF x
  <2>2. Sound([h EXCEPT ![x].prev = l], gone, home, fresh, tops, less)
    BY <2>1, SoundWhenClosed
  <2>3. /\ [h EXCEPT ![x].prev = l][x] = [h[x] EXCEPT !.prev = l]
        /\ \A c \in Cells : c # x => [h EXCEPT ![x].prev = l][c] = h[c]
    BY <1>1, <2>1
  <2>4. h[x] \in Items
    BY <1>1, <2>1
  <2> DEFINE g == Finished(h, n, l)
  <2>5. \A c \in Cells : /\ g[c].type = h[c].type /\ g[c].ref = h[c].ref /\ g[c].key = h[c].key
                         /\ g[c].next = h[c].next /\ g[c].child = h[c].child
                         /\ c # x => g[c].prev = h[c].prev
    BY <2>1, <2>3, <2>4 DEF Items
  <2>6. Finishes(h, g, n)
    <3> HIDE DEF g
    <3> QED  BY <2>5 DEF Finishes, x
  <2> QED  BY <2>1, <2>2, <2>6
<1> QED  BY <1>2, <1>3

\* n becomes the last item of the list of p, whose last one was l.
Attached(h, p, l, n) == IF l = NULL THEN [h EXCEPT ![p].child = n] ELSE Suffix(h, l, n)

\* What attaching n changes.
Attaches(h, g, p, l, n) ==
    /\ \A c \in Cells : /\ g[c].type = h[c].type /\ g[c].ref = h[c].ref /\ g[c].key = h[c].key
                        /\ l = NULL \/ c # l => g[c].next = h[c].next
                        /\ c # n => g[c].prev = h[c].prev
                        /\ c # p => g[c].child = h[c].child
    /\ IF l = NULL THEN g[p].child = n /\ g[n].prev = NULL ELSE g[p].child = h[p].child

\* A finished copy is hung behind the last child of the copy of its parent.
LEMMA SoundWhenAttached ==
    ASSUME CellsAssumption, NEW h, NEW gone, NEW home, NEW fresh, NEW tops, NEW open,
           Sound(h, gone, home, fresh, tops, open), \A t \in tops : home[t] = NULL,
           NEW p \in tops, p \in open, p \in fresh, ~h[p].ref, h[p].type \notin Scalars,
           NEW l \in Pointers, h[p].child = NULL <=> l = NULL,
           l # NULL => home[l] = p /\ h[l].next = NULL /\ l \in fresh,
           NEW n \in tops, n # p, n \in fresh, h[n].next = NULL,
           h[p].type = "object" => h[n].key # NULL
    PROVE  /\ Sound(Attached(h, p, l, n), gone, [home EXCEPT ![n] = p], fresh, tops \ {n}, open)
           /\ Attaches(h, Attached(h, p, l, n), p, l, n)
<1> DEFINE C == Freed(h, n)
           house == [home EXCEPT ![n] = p]
           g == Attached(h, p, l, n)
<1>1. /\ h \in [Cells -> Items] /\ NULL \notin Cells /\ p \in Live(h, gone) /\ p \in Cells
      /\ n \in Cells /\ home[n] = NULL /\ home[p] = NULL /\ h[n].prev = NULL
      /\ fresh \subseteq Live(h, gone) /\ Live(h, gone) \subseteq Cells
  BY DEF Sound, Shape, CellsAssumption, Live, TopsInv
<1>2. C \in SUBSET Cells /\ Closed(h, C) /\ n \in C /\ p \notin C
  BY <1>1, FreshIsClosed, TopsStayOut
<1>3. CASE l = NULL
  <2>1. g = [h EXCEPT ![p].child = n]
    BY <1>3 DEF Attached
  <2>2. /\ (home[n] = NULL /\ h[n].next = NULL) \/ home[n] = p
        /\ h[p].child = NULL /\ (n \in fresh <=> p \in fresh)
    BY <1>1, <1>3
  <2> HIDE DEF C
  <2>3. Sound([h EXCEPT ![p].child = n], gone, house, fresh, tops \ {n}, open)
    BY <1>1, <1>2, <2>2, SoundWithFirst
  <2>4. [h EXCEPT ![p].child = n][p] = [h[p] EXCEPT !.child = n] /\ h[p] \in Items
        /\ \A c \in Cells : c # p => [h EXCEPT ![p].child = n][c] = h[c]
    BY <1>1
  <2>5. /\ g[p].child = n /\ g[p].type = h[p].type /\ g[p].ref = h[p].ref /\ g[p].key = h[p].key
        /\ g[p].next = h[p].next /\ g[p].prev = h[p].prev
    BY <2>1, <2>4 DEF Items
  <2> HIDE DEF g
  <2>6. \A c \in Cells : c # p => g[c] = h[c]
    BY <2>1, <2>4
  <2>7. \A c \in Cells : /\ g[c].type = h[c].type /\ g[c].ref = h[c].ref /\ g[c].key = h[c].key
                         /\ g[c].next = h[c].next /\ g[c].prev = h[c].prev
                         /\ c # p => g[c].child = h[c].child
    BY <2>5, <2>6
  <2>8. Attaches(h, g, p, l, n)
    BY <1>1, <1>3, <2>5, <2>7 DEF Attaches
  <2> QED  BY <2>1, <2>3, <2>8 DEF g
<1>4. CASE l # NULL
  <2>1. /\ l \in Cells /\ home[l] = p /\ h[l].next = NULL /\ l \in fresh /\ l # n
        /\ g = [h EXCEPT ![l].next = n, ![n].prev = l]
    BY <1>1, <1>4 DEF Attached, Suffix, Pointers
  <2>2. l \notin C
    <3>1. p \notin Freed(h, n) \/ h[p].child = NULL
      BY <1>2
    <3>2. home[n] # p /\ l \in Live(h, gone)
      BY <1>1, <2>1
    <3> QED  BY <2>1, <3>1, <3>2, ListStaysOut
  <2>3. /\ home[l] # NULL /\ home[l] \in open /\ (n \in fresh <=> l \in fresh)
        /\ (h[home[l]].type = "object" => h[n].key # NULL)
    BY <1>1, <2>1
  <2> HIDE DEF C
  <2>4. Sound(Suffix(h, l, n), gone, [home EXCEPT ![n] = home[l]], fresh, tops \ {n}, open)
    BY <1>1, <1>2, <2>1, <2>2, <2>3, SoundWithLast
  <2>5. g = Suffix(h, l, n) /\ house = [home EXCEPT ![n] = home[l]]
    BY <1>4, <2>1 DEF Attached
  <2> HIDE DEF g, house
  <2>6. /\ g[n] = [h[n] EXCEPT !.prev = l] /\ g[l] = [h[l] EXCEPT !.next = n]
        /\ h[n] \in Items /\ h[l] \in Items
        /\ \A c \in Cells : c # n /\ c # l => g[c] = h[c]
    BY <1>1, <2>1
  <2>7. /\ g[n].type = h[n].type /\ g[n].ref = h[n].ref /\ g[n].key = h[n].key
        /\ g[n].next = h[n].next /\ g[n].child = h[n].child
        /\ g[l].type = h[l].type /\ g[l].ref = h[l].ref /\ g[l].key = h[l].key
        /\ g[l].prev = h[l].prev /\ g[l].child = h[l].child
    BY <2>1, <2>6 DEF Items
  <2>8. \A c \in Cells : /\ g[c].type = h[c].type /\ g[c].ref = h[c].ref /\ g[c].key = h[c].key
                         /\ g[c].child = h[c].child
                         /\ c # l => g[c].next = h[c].next
                         /\ c # n => g[c].prev = h[c].prev
    BY <2>6, <2>7
  <2>9. Attaches(h, g, p, l, n)
    BY <1>1, <1>4, <2>8 DEF Attaches
  <2> QED  BY <2>4, <2>5, <2>9 DEF g, house
<1> QED  BY <1>3, <1>4

-----------------------------------------------------------------------------
(* What a call that fails frees.                                             *)

\* What is left when F is freed.
Freeing(h, g, home, house, F) ==
    /\ F \in SUBSET Cells /\ house \in [Cells -> Pointers]
    /\ \A c \in Cells : /\ g[c] = IF c \in F THEN Unused ELSE h[c]
                        /\ house[c] = IF c \in F THEN NULL ELSE home[c]

\* cJSON_Delete of no item
LEMMA DeleteNothing ==
    ASSUME CellsAssumption, NEW h \in [Cells -> Items]
    PROVE  Delete(h, NULL) = h /\ Freed(h, NULL) = {}
<1> DEFINE S == {NULL}
           none == {}
<1>1. S \in SUBSET Pointers /\ S \ {NULL} \subseteq none /\ none \in SUBSET Cells
  BY DEF Pointers
<1>2. Closed(h, none)
  BY DEF Closed
<1> HIDE DEF S, none
<1>3. Reach(h, S, FALSE) \subseteq none
  BY <1>1, <1>2, OwnedFacts
<1>4. Reach(h, {NULL}, FALSE) = {}
  BY <1>3 DEF S, none
<1> QED  BY <1>4 DEF Delete, Freed

\* The heap is sound without x and what it owns.
SoundWithout(h, gone, home, fresh, tops, open, x) ==
    \E house :
        /\ Sound(Delete(h, x), gone, house, fresh \ Freed(h, x), tops \ {x}, open)
        /\ Freeing(h, Delete(h, x), home, house, Freed(h, x))
        /\ \A t \in tops : t # x => t \notin Freed(h, x)

\* Work of the call at work is freed; no reference leads to it.
LEMMA SoundWhenFreed ==
    ASSUME CellsAssumption, NEW h, NEW gone, NEW home, NEW fresh, NEW tops, NEW open,
           Sound(h, gone, home, fresh, tops, open),
           NEW x, x = NULL \/ (x \in tops /\ x \in fresh),
           \A t \in tops : t # x => home[t] \notin Freed(h, x),
           \A p \in open, c \in Cells : Kid(h, p, c) => h[c].prev = NULL
    PROVE  SoundWithout(h, gone, home, fresh, tops, open, x)
<1>1. /\ h \in [Cells -> Items] /\ NULL \notin Cells /\ home \in [Cells -> Pointers]
      /\ tops \subseteq Cells /\ fresh \subseteq Cells /\ Live(h, gone) \subseteq Cells
  BY DEF Sound, Shape, CellsAssumption, Live
<1>2. CASE x = NULL
  <2>1. Delete(h, x) = h /\ Freed(h, x) = {} /\ tops \ {x} = tops
    BY <1>1, <1>2, DeleteNothing
  <2>2. fresh \ Freed(h, x) = fresh /\ Freeing(h, h, home, home, Freed(h, x))
    BY <1>1, <2>1 DEF Freeing
  <2> QED  BY <2>1, <2>2 DEF SoundWithout
<1>3. CASE x # NULL
  <2>1. PICK F : F = Reach(h, {x}, FALSE)
    OBVIOUS
  <2>2. PICK house : house = [c \in Cells |-> IF c \in F THEN NULL ELSE home[c]]
    OBVIOUS
  <2>3. x \in tops /\ x \in fresh /\ x \in Cells /\ F = Freed(h, x)
    BY <1>1, <1>3, <2>1 DEF Freed
  <2>4. F \in SUBSET Cells /\ F \subseteq fresh
    BY <2>3, FreshIsClosed
  <2>5. \A r \in Live(h, gone) : h[r].ref /\ r \notin F => h[r].child \notin F
    BY <1>1, <2>4 DEF Sound, RefsInv
  <2>6. \A t \in tops : t # x => home[t] \notin F
    BY <2>3
  <2>7. /\ Sound(Delete(h, x), gone, [c \in Cells |-> IF c \in F THEN NULL ELSE home[c]],
                 fresh \ F, tops \ {x}, open)
        /\ Whole(h, gone, home, tops, x, F)
    BY <2>1, <2>3, <2>5, <2>6, SoundWithoutTree
  <2>8. \A t \in tops : t # x => t \notin F
    BY <2>7 DEF Whole
  <2>9. Freeing(h, Delete(h, x), home, house, F)
    BY <1>1, <2>1, <2>2, <2>4 DEF Freeing, Delete, Pointers
  <2> QED  BY <2>2, <2>3, <2>7, <2>8, <2>9 DEF SoundWithout
<1> QED  BY <1>2, <1>3

-----------------------------------------------------------------------------
(* The list of children of an item, as a sequence.                           *)
\* Chain follows next, one item after the other.
LEMMA ChainStep ==
    ASSUME CellsAssumption, NEW h, NEW gone, NEW home, NEW fresh, NEW tops, NEW open,
           Sound(h, gone, home, fresh, tops, open)
    PROVE  Chain(h, NULL) = <<>> /\ \A x \in Cells : Chain(h, x) = <<x>> \o Chain(h, h[x].next)
<1>1. h \in [Cells -> Items] /\ NULL \notin Cells
  BY DEF Sound, Shape, CellsAssumption
<1> DEFINE step(f) == [c \in Cells \cup {NULL} |-> IF c = NULL THEN <<>> ELSE <<c>> \o f[h[c].next]]
           from == CHOOSE f : f = step(f)
<1>2. PICK f : Follows(h, f, Cells)
  BY ChainExists
<1>3. f = step(f)
  <2>1. /\ f = [c \in Cells \cup {NULL} |-> f[c]] /\ f[NULL] = <<>>
        /\ \A c \in Cells : f[c] = <<c>> \o f[h[c].next]
    BY <1>2 DEF Follows
  <2>2. \A c \in Cells \cup {NULL} : f[c] = IF c = NULL THEN <<>> ELSE <<c>> \o f[h[c].next]
    BY <1>1, <2>1
  <2> QED  BY <2>1, <2>2
<1>4. from = step(from)
  BY <1>3, ZenonT(60)
<1>5. \A x : Chain(h, x) = from[x]
  BY DEF Chain
<1> HIDE DEF from
<1>6. from[NULL] = <<>> /\ \A x \in Cells : from[x] = <<x>> \o from[h[x].next]
  BY <1>1, <1>4, FieldTypes DEF Pointers
<1> QED  BY <1>5, <1>6

\* An item in front of a list.
LEMMA ItemInFront ==
    ASSUME NEW S, NEW c \in S, NEW t \in Seq(S)
    PROVE  /\ <<c>> \o t \in Seq(S) /\ Len(<<c>> \o t) = Len(t) + 1 /\ (<<c>> \o t)[1] = c
           /\ \A k \in 2 .. Len(t) + 1 : (<<c>> \o t)[k] = t[k - 1]
OBVIOUS

\* s is a list: each of its items leads to the next, the last one to none.
Linked(h, s) ==
    /\ s \in Seq(Cells)
    /\ \A j \in 1 .. Len(s) - 1 : h[s[j]].next = s[j + 1]
    /\ \A j \in 1 .. Len(s) : j = Len(s) => h[s[j]].next = NULL

\* The items of s from the one at j on.
From(s, j, t) ==
    /\ t \in Seq(Cells) /\ Len(t) = Len(s) - j + 1
    /\ \A k \in 1 .. Len(t) : t[k] = s[j + k - 1]

\* A list is what Chain returns for its items.
LEMMA ListIsChain ==
    ASSUME CellsAssumption, NEW h, NEW gone, NEW home, NEW fresh, NEW tops, NEW open,
           Sound(h, gone, home, fresh, tops, open), NEW s, Linked(h, s)
    PROVE  \A j \in 1 .. Len(s) : From(s, j, Chain(h, s[j]))
<1> DEFINE N == {c \in Cells : \E j \in 1 .. Len(s) : s[j] = c /\ ~From(s, j, Chain(h, c))}
<1>1. s \in Seq(Cells) /\ Len(s) \in Nat
  BY DEF Linked
<1>2. ASSUME N # {} PROVE FALSE
  <2>1. PICK c \in N : h[c].next \notin N
    <3>1. N \in SUBSET Cells
      OBVIOUS
    <3> HIDE DEF N
    <3> QED  BY <1>2, <3>1, ListsEnd
  <2>2. PICK j \in 1 .. Len(s) : s[j] = c /\ ~From(s, j, Chain(h, c))
    OBVIOUS
  <2> DEFINE t == Chain(h, h[c].next)
  <2>3. Chain(h, c) = <<c>> \o t /\ c \in Cells
    BY ChainStep
  <2>4. CASE j = Len(s)
    <3>1. t = <<>>
      BY <2>2, <2>4, ChainStep DEF Linked
    <3>2. Chain(h, c) = <<c>>
      BY <2>3, <3>1
    <3>3. s[j + 1 - 1] = c
      BY <2>2
    <3>4. From(s, j, <<c>>)
      BY <1>1, <2>3, <2>4, <3>3 DEF From
    <3> QED  BY <2>2, <3>2, <3>4
  <2>5. CASE j # Len(s)
    <3>1. j \in 1 .. Len(s) - 1 /\ j + 1 \in 1 .. Len(s)
      BY <1>1, <2>5
    <3>2. h[c].next = s[j + 1] /\ s[j + 1] \in Cells
      BY <1>1, <2>2, <3>1 DEF Linked
    <3>3. From(s, j + 1, t)
      BY <2>1, <3>1, <3>2
    <3> HIDE DEF t
    <3>4. t \in Seq(Cells) /\ Len(t) \in Nat /\ Len(t) = Len(s) - j
      BY <1>1, <3>1, <3>3 DEF From
    <3> DEFINE u == <<c>> \o t
    <3>5. /\ u \in Seq(Cells) /\ Len(u) = Len(t) + 1 /\ u[1] = c
          /\ \A k \in 2 .. Len(t) + 1 : u[k] = t[k - 1]
      <4>1. c \in Cells /\ t \in Seq(Cells)
        BY <2>3, <3>4
      <4> HIDE DEF N
      <4> QED  BY ONLY <4>1, ItemInFront
    <3> HIDE DEF u
    <3>6. ASSUME NEW k \in 1 .. Len(u) PROVE u[k] = s[j + k - 1]
      <4>1. CASE k = 1
        BY <1>1, <2>2, <3>5, <4>1
      <4>2. CASE k # 1
        <5>1. k \in 2 .. Len(t) + 1 /\ k - 1 \in 1 .. Len(t) /\ (j + 1) + (k - 1) - 1 = j + k - 1
          BY <1>1, <3>4, <3>5, <4>2
        <5>2. t[k - 1] = s[(j + 1) + (k - 1) - 1]
          BY <3>3, <5>1 DEF From
        <5> QED  BY <3>5, <5>1, <5>2
      <4> QED  BY <4>1, <4>2
    <3>7. From(s, j, u)
      BY <1>1, <3>4, <3>5, <3>6 DEF From
    <3> QED  BY <2>2, <2>3, <3>7 DEF u
  <2> QED  BY <2>4, <2>5
<1>3. ASSUME NEW j \in 1 .. Len(s) PROVE s[j] \in Cells
  BY <1>1, <1>3
<1> QED  BY <1>2, <1>3

\* s is the list of children of p: what cJSON_ArrayForEach visits, in order.
Lists(h, p, s) == Linked(h, s) /\ h[p].child = IF s = <<>> THEN NULL ELSE s[1]

\* An item has one list of children, and no item is twice in it.
LEMMA ListIsOne ==
    ASSUME CellsAssumption, NEW h, NEW gone, NEW home, NEW fresh, NEW tops, NEW open,
           Sound(h, gone, home, fresh, tops, open), NEW p \in Cells
    PROVE  /\ Lists(h, p, Children(h, p))
           /\ \A s : Lists(h, p, s) => Children(h, p) = s
           /\ \A i, j \in 1 .. Len(Children(h, p)) :
                  Children(h, p)[i] = Children(h, p)[j] => i = j
<1>1. h \in [Cells -> Items] /\ NULL \notin Cells /\ h[p].child \in Pointers
  BY FieldTypes DEF Sound, Shape, CellsAssumption
<1>2. Lists(h, p, Children(h, p))
  <2>1. CASE h[p].child = NULL
    <3>1. Children(h, p) = <<>>
      BY <2>1, ChainStep DEF Children
    <3>2. Linked(h, <<>>)
      BY DEF Linked
    <3> QED  BY <2>1, <3>1, <3>2 DEF Lists
  <2>2. CASE h[p].child # NULL
    <3>1. IsList(h, home, h[p].child, Chain(h, h[p].child))
      BY <1>1, <2>2, ChainIsList DEF Pointers
    <3> QED  BY <3>1 DEF Lists, Linked, Children, IsList
  <2> QED  BY <2>1, <2>2
<1>3. ASSUME NEW s, Lists(h, p, s) PROVE Children(h, p) = s
  <2>1. CASE s = <<>>
    BY <1>3, <2>1, ChainStep DEF Lists, Children
  <2>2. CASE s # <<>>
    <3>1. Linked(h, s) /\ s[1] = h[p].child
      BY <1>3, <2>2 DEF Lists
    <3>2. s \in Seq(Cells) /\ Len(s) \in Nat /\ 1 \in 1 .. Len(s)
      BY <2>2, <3>1 DEF Linked
    <3>3. From(s, 1, Children(h, p))
      BY <3>1, <3>2, ListIsChain DEF Children
    <3> QED  BY <3>2, <3>3 DEF From
  <2> QED  BY <2>1, <2>2
<1>4. ASSUME NEW i \in 1 .. Len(Children(h, p)), NEW j \in 1 .. Len(Children(h, p)),
             Children(h, p)[i] = Children(h, p)[j]
      PROVE  i = j
  <2> DEFINE s == Children(h, p)
  <2>1. Linked(h, s) /\ s \in Seq(Cells) /\ Len(s) \in Nat
    BY <1>2 DEF Lists, Linked
  <2> HIDE DEF s
  <2>2. From(s, i, Chain(h, s[i])) /\ From(s, j, Chain(h, s[j]))
    BY <2>1, ListIsChain DEF s
  <2> QED  BY <1>4, <2>1, <2>2 DEF From, s
<1> QED  BY <1>2, <1>3, <1>4

\* What InsertAt does to a list.
Inserted(S, s, i, x, t) ==
    /\ t \in Seq(S) /\ Len(t) = Len(s) + 1
    /\ \A j \in 1 .. Len(s) + 1 : t[j] = IF j < i THEN s[j] ELSE IF j = i THEN x ELSE s[j - 1]
LEMMA InsertFacts ==
    ASSUME NEW S, NEW s \in Seq(S), NEW i \in 1 .. Len(s) + 1, NEW x \in S
    PROVE  Inserted(S, s, i, x, Forest!InsertAt(s, i, x))
<1> DEFINE a == SubSeq(s, 1, i - 1)
           b == SubSeq(s, i, Len(s))
           ax == a \o <<x>>
<1>1. Len(s) \in Nat /\ i \in Nat
  OBVIOUS
<1>2. a \in Seq(S) /\ Len(a) = i - 1 /\ \A j \in 1 .. i - 1 : a[j] = s[j]
  BY <1>1, SubSeqProperties
<1>3. b \in Seq(S) /\ Len(b) = Len(s) - i + 1 /\ \A j \in 1 .. Len(s) - i + 1 : b[j] = s[i + j - 1]
  BY <1>1, SubSeqProperties
<1> HIDE DEF a, b
<1>4. ax \in Seq(S) /\ Len(ax) = i /\ \A j \in 1 .. i : ax[j] = IF j < i THEN s[j] ELSE x
  <2>1. <<x>> \in Seq(S) /\ Len(<<x>>) = 1 /\ <<x>>[1] = x
    OBVIOUS
  <2> QED  BY <1>1, <1>2, <2>1, ConcatProperties
<1> HIDE DEF ax
<1>5. Forest!InsertAt(s, i, x) = ax \o b
  BY DEF Forest!InsertAt, ax, a, b
<1>6. ax \o b \in Seq(S) /\ Len(ax \o b) = Len(s) + 1
      /\ \A j \in 1 .. Len(s) + 1 : (ax \o b)[j] = IF j <= i THEN ax[j] ELSE b[j - i]
  <2>1. /\ ax \o b \in Seq(S) /\ Len(ax \o b) = Len(ax) + Len(b)
        /\ \A j \in 1 .. Len(ax) + Len(b) :
               (ax \o b)[j] = IF j <= Len(ax) THEN ax[j] ELSE b[j - Len(ax)]
    BY <1>3, <1>4, ConcatProperties
  <2>2. Len(ax) = i /\ Len(ax) + Len(b) = Len(s) + 1
    BY <1>1, <1>3, <1>4
  <2> QED  BY <2>1, <2>2
<1>7. ASSUME NEW j \in 1 .. Len(s) + 1
      PROVE  (ax \o b)[j] = IF j < i THEN s[j] ELSE IF j = i THEN x ELSE s[j - 1]
  <2>1. CASE j <= i
    <3>1. j \in 1 .. i /\ (ax \o b)[j] = ax[j]
      BY <1>1, <1>6, <2>1
    <3> QED  BY <1>1, <1>4, <2>1, <3>1
  <2>2. CASE j > i
    <3>1. j - i \in 1 .. Len(s) - i + 1 /\ i + (j - i) - 1 = j - 1
      BY <1>1, <2>2
    <3>2. (ax \o b)[j] = b[j - i]
      BY <1>1, <1>6, <2>2
    <3>3. b[j - i] = s[i + (j - i) - 1]
      BY <1>3, <3>1
    <3>4. ~(j < i) /\ j # i
      BY <1>1, <2>2
    <3>5. s[i + (j - i) - 1] = s[j - 1]
      BY <3>1
    <3>6. (ax \o b)[j] = s[j - 1]
      BY <3>2, <3>3, <3>5
    <3> QED  BY <3>4, <3>6
  <2>3. j <= i \/ j > i
    BY <1>1
  <2> QED  BY <2>1, <2>2, <2>3
<1> QED  BY <1>5, <1>6, <1>7 DEF Inserted

\* What RemoveAt does to a list.
Removed(S, s, i, t) ==
    /\ t \in Seq(S) /\ Len(t) = Len(s) - 1
    /\ \A j \in 1 .. Len(s) - 1 : t[j] = IF j < i THEN s[j] ELSE s[j + 1]
LEMMA RemoveFacts ==
    ASSUME NEW S, NEW s \in Seq(S), NEW i \in 1 .. Len(s)
    PROVE  Removed(S, s, i, Forest!RemoveAt(s, i))
<1> DEFINE a == SubSeq(s, 1, i - 1)
           b == SubSeq(s, i + 1, Len(s))
<1>1. Len(s) \in Nat /\ i \in Nat
  OBVIOUS
<1>2. a \in Seq(S) /\ Len(a) = i - 1 /\ \A j \in 1 .. i - 1 : a[j] = s[j]
  BY <1>1, SubSeqProperties
<1>3. b \in Seq(S) /\ Len(b) = Len(s) - i /\ \A j \in 1 .. Len(s) - i : b[j] = s[i + j]
  BY <1>1, SubSeqProperties
<1> HIDE DEF a, b
<1>4. Forest!RemoveAt(s, i) = a \o b
  BY DEF Forest!RemoveAt, a, b
<1>5. a \o b \in Seq(S) /\ Len(a \o b) = Len(s) - 1
      /\ \A j \in 1 .. Len(s) - 1 : (a \o b)[j] = IF j < i THEN a[j] ELSE b[j - (i - 1)]
  <2>1. /\ a \o b \in Seq(S) /\ Len(a \o b) = Len(a) + Len(b)
        /\ \A j \in 1 .. Len(a) + Len(b) :
               (a \o b)[j] = IF j <= Len(a) THEN a[j] ELSE b[j - Len(a)]
    BY <1>2, <1>3, ConcatProperties
  <2>2. Len(a) = i - 1 /\ Len(a) + Len(b) = Len(s) - 1
    BY <1>1, <1>2, <1>3
  <2>3. \A j \in 1 .. Len(s) - 1 : j <= Len(a) <=> j < i
    BY <1>1, <2>2
  <2> HIDE DEF a, b
  <2> QED  BY <2>1, <2>2, <2>3
<1>6. ASSUME NEW j \in 1 .. Len(s) - 1
      PROVE  (a \o b)[j] = IF j < i THEN s[j] ELSE s[j + 1]
  <2>1. CASE j < i
    BY <1>1, <1>2, <1>5, <2>1
  <2>2. CASE j >= i
    <3>1. j - (i - 1) \in 1 .. Len(s) - i /\ i + (j - (i - 1)) = j + 1
      BY <1>1, <2>2
    <3>2. (a \o b)[j] = b[j - (i - 1)]
      BY <1>1, <1>5, <2>2
    <3>3. b[j - (i - 1)] = s[i + (j - (i - 1))]
      BY <1>3, <3>1
    <3>4. ~(j < i)
      BY <1>1, <2>2
    <3>5. s[i + (j - (i - 1))] = s[j + 1]
      BY <3>1
    <3>6. (a \o b)[j] = s[j + 1]
      BY <3>2, <3>3, <3>5
    <3> QED  BY <3>4, <3>6
  <2>3. j < i \/ j >= i
    BY <1>1
  <2> QED  BY <2>1, <2>2, <2>3
<1> QED  BY <1>4, <1>5, <1>6 DEF Removed

\* No item is twice in s.
Once(s) == \A i, j \in 1 .. Len(s) : s[i] = s[j] => i = j

\* From h to g the pointers of x and of the item before it are set: x is in the list.
LEMMA LinkedWith ==
    ASSUME NEW h, NEW g, NEW s, Linked(h, s), Once(s), NEW i \in 1 .. Len(s) + 1, NEW x \in Cells,
           \A j \in 1 .. Len(s) : s[j] # x,
           g[x].next = IF i <= Len(s) THEN s[i] ELSE NULL,
           \A j \in 1 .. Len(s) : g[s[j]].next = IF j = i - 1 THEN x ELSE h[s[j]].next
    PROVE  Linked(g, Forest!InsertAt(s, i, x))
<1> DEFINE t == Forest!InsertAt(s, i, x)
<1>1. s \in Seq(Cells) /\ Len(s) \in Nat /\ i \in Nat
  BY DEF Linked
<1>2. /\ t \in Seq(Cells) /\ Len(t) = Len(s) + 1
      /\ \A j \in 1 .. Len(s) + 1 : t[j] = IF j < i THEN s[j] ELSE IF j = i THEN x ELSE s[j - 1]
  <2>1. Inserted(Cells, s, i, x, t)
    BY <1>1, InsertFacts
  <2> QED  BY <1>1, <2>1 DEF Inserted
<1> HIDE DEF t
<1>3. \A j \in 1 .. Len(s) - 1 : h[s[j]].next = s[j + 1]
  BY DEF Linked
<1>4. ASSUME NEW j \in 1 .. Len(t) - 1 PROVE g[t[j]].next = t[j + 1]
  <2>1. CASE j < i - 1
    <3>1. j \in 1 .. Len(s) - 1 /\ t[j] = s[j] /\ t[j + 1] = s[j + 1]
      BY <1>1, <1>2, <2>1
    <3>2. j \in 1 .. Len(s) /\ j # i - 1
      BY <1>1, <2>1, <3>1
    <3> QED  BY <1>3, <3>1, <3>2
  <2>2. CASE j = i - 1
    <3>1. j \in 1 .. Len(s) /\ t[j] = s[j] /\ t[j + 1] = x
      BY <1>1, <1>2, <2>2
    <3> QED  BY <2>2, <3>1
  <2>3. CASE j = i
    <3>1. i <= Len(s) /\ t[j] = x /\ t[j + 1] = s[i]
      BY <1>1, <1>2, <2>3
    <3> QED  BY <3>1
  <2>4. CASE j > i
    <3>1. j - 1 \in 1 .. Len(s) - 1 /\ t[j] = s[j - 1] /\ t[j + 1] = s[j] /\ (j - 1) + 1 = j
      BY <1>1, <1>2, <2>4
    <3>2. j - 1 \in 1 .. Len(s) /\ j - 1 # i - 1
      BY <1>1, <2>4, <3>1
    <3> QED  BY <1>3, <3>1, <3>2
  <2> QED  BY <1>1, <1>2, <2>1, <2>2, <2>3, <2>4
<1>5. g[t[Len(s) + 1]].next = NULL
  <2>1. CASE i = Len(s) + 1
    <3>1. t[Len(s) + 1] = x
      BY <1>1, <1>2, <2>1
    <3> QED  BY <1>1, <2>1, <3>1
  <2>2. CASE i # Len(s) + 1
    <3>1. Len(s) \in 1 .. Len(s) /\ t[Len(s) + 1] = s[Len(s)] /\ Len(s) # i - 1
      BY <1>1, <1>2, <2>2
    <3> QED  BY <3>1 DEF Linked
  <2> QED  BY <2>1, <2>2
<1> QED  BY <1>1, <1>2, <1>4, <1>5 DEF Linked, t

\* From h to g the item before s[i] is linked to the one behind it.
LEMMA LinkedWithout ==
    ASSUME NEW h, NEW g, NEW s, Linked(h, s), Once(s), NEW i \in 1 .. Len(s),
           \A j \in 1 .. Len(s) : j # i =>
               g[s[j]].next = IF j = i - 1 THEN h[s[i]].next ELSE h[s[j]].next
    PROVE  Linked(g, Forest!RemoveAt(s, i))
<1> DEFINE t == Forest!RemoveAt(s, i)
<1>1. s \in Seq(Cells) /\ Len(s) \in Nat /\ i \in Nat
  BY DEF Linked
<1>2. /\ t \in Seq(Cells) /\ Len(t) = Len(s) - 1
      /\ \A j \in 1 .. Len(s) - 1 : t[j] = IF j < i THEN s[j] ELSE s[j + 1]
  <2>1. Removed(Cells, s, i, t)
    BY <1>1, RemoveFacts
  <2> QED  BY <1>1, <2>1 DEF Removed
<1> HIDE DEF t
<1>3. /\ \A j \in 1 .. Len(s) - 1 : h[s[j]].next = s[j + 1]
      /\ \A j \in 1 .. Len(s) : j = Len(s) => h[s[j]].next = NULL
  BY DEF Linked
<1>4. ASSUME NEW j \in 1 .. Len(t) - 1 PROVE g[t[j]].next = t[j + 1]
  <2>1. CASE j < i - 1
    <3>1. j \in 1 .. Len(s) - 1 /\ t[j] = s[j] /\ t[j + 1] = s[j + 1]
      BY <1>1, <1>2, <2>1
    <3>2. j \in 1 .. Len(s) /\ j # i - 1 /\ j # i
      BY <1>1, <2>1, <3>1
    <3> QED  BY <1>3, <3>1, <3>2
  <2>2. CASE j = i - 1
    <3>1. j \in 1 .. Len(s) /\ j # i /\ i \in 1 .. Len(s) - 1 /\ t[j] = s[j] /\ t[j + 1] = s[i + 1]
      BY <1>1, <1>2, <2>2
    <3> QED  BY <1>3, <2>2, <3>1
  <2>3. CASE j >= i
    <3>1. j + 1 \in 1 .. Len(s) - 1 /\ t[j] = s[j + 1] /\ t[j + 1] = s[(j + 1) + 1]
      BY <1>1, <1>2, <2>3
    <3>2. j + 1 \in 1 .. Len(s) /\ j + 1 # i - 1 /\ j + 1 # i
      BY <1>1, <2>3, <3>1
    <3> QED  BY <1>3, <3>1, <3>2
  <2> QED  BY <1>1, <1>2, <2>1, <2>2, <2>3
<1>5. ASSUME Len(t) > 0 PROVE g[t[Len(t)]].next = NULL
  <2>1. CASE i = Len(s)
    <3>1. Len(s) - 1 \in 1 .. Len(s) /\ Len(s) - 1 # i /\ t[Len(t)] = s[Len(s) - 1]
          /\ Len(s) - 1 = i - 1
      BY <1>1, <1>2, <1>5, <2>1
    <3> QED  BY <1>3, <2>1, <3>1
  <2>2. CASE i # Len(s)
    <3>1. Len(s) \in 1 .. Len(s) /\ Len(s) # i /\ t[Len(t)] = s[Len(s)] /\ Len(s) # i - 1
      BY <1>1, <1>2, <1>5, <2>2
    <3> QED  BY <1>3, <3>1
  <2> QED  BY <2>1, <2>2
<1> QED  BY <1>1, <1>2, <1>4, <1>5 DEF Linked, t

-----------------------------------------------------------------------------
(* What the assignments do to the list of an item.                           *)
\* The children of an item that is not being filled, and who has it as parent.
LEMMA ChildrenFacts ==
    ASSUME CellsAssumption, NEW h, NEW gone, NEW home, NEW fresh, NEW tops, NEW open,
           Sound(h, gone, home, fresh, tops, open), NEW p \in Cells, ~h[p].ref, p \notin open
    PROVE  /\ Linked(h, Children(h, p)) /\ Once(Children(h, p))
           /\ Children(h, p) \in Seq(Cells) /\ Len(Children(h, p)) \in Nat
           /\ \A x \in Cells : home[x] = p <=> \E j \in 1 .. Len(Children(h, p)) : Children(h, p)[j] = x
           /\ h[p].child = NULL <=> Children(h, p) = <<>>
           /\ h[p].child # NULL => Children(h, p)[1] = h[p].child /\ Len(Children(h, p)) > 0
<1> DEFINE s == Children(h, p)
<1>1. Lists(h, p, s) /\ Once(s)
  BY ListIsOne DEF Once
<1>2. \A j \in 1 .. Len(s) : home[s[j]] = p
  BY ChildrenAreList
<1>3. \A x \in Cells : home[x] = p => \E j \in 1 .. Len(s) : s[j] = x
  BY ListIsAll
<1> HIDE DEF s
<1>4. Linked(h, s) /\ s \in Seq(Cells) /\ Len(s) \in Nat
  BY <1>1 DEF Lists, Linked
<1>5. NULL \notin Cells
  BY DEF CellsAssumption
<1>6. h[p].child = NULL <=> s = <<>>
  <2>1. CASE s # <<>>
    <3>1. s[1] \in Cells
      BY <1>4, <2>1
    <3> QED  BY <1>1, <1>5, <2>1, <3>1 DEF Lists
  <2> QED  BY <1>1, <2>1 DEF Lists
<1>7. h[p].child # NULL => s[1] = h[p].child /\ Len(s) > 0
  <2>1. s # <<>> => Len(s) > 0
    BY <1>4
  <2> QED  BY <1>1, <1>6, <2>1 DEF Lists
<1> QED  BY <1>1, <1>2, <1>3, <1>4, <1>6, <1>7 DEF s

\* From h to g only the list of p changes: who is in it, or before it nowhere.
Elsewhere(h, home, g, p) ==
    \A c \in Cells :
        /\ g[c].type = h[c].type /\ g[c].ref = h[c].ref
        /\ c # p => g[c].child = h[c].child
        /\ home[c] \notin {p, NULL} => g[c].next = h[c].next

\* What the list of p is in g.
Relists(h, home, g, p, t) == Lists(g, p, t) /\ Elsewhere(h, home, g, p)

\* add_item_to_array puts the item at the end.
LEMMA AddedIsLast ==
    ASSUME CellsAssumption, NEW h, NEW gone, NEW home, NEW fresh, NEW tops, NEW open,
           Sound(h, gone, home, fresh, tops, open),
           NEW p \in Cells, ~h[p].ref, p \notin open,
           NEW x \in Cells, home[x] = NULL, x # p, h[x].next = NULL
    PROVE  Relists(h, home, AddToArray(h, p, x), p,
                   Forest!InsertAt(Children(h, p), Len(Children(h, p)) + 1, x))
<1> DEFINE s == Children(h, p)
           n == Len(s)
           g == AddToArray(h, p, x)
           t == Forest!InsertAt(s, n + 1, x)
<1>1. h \in [Cells -> Items] /\ NULL \notin Cells /\ home \in [Cells -> Pointers]
  BY DEF Sound, Shape, CellsAssumption
<1>2. /\ Linked(h, s) /\ Once(s) /\ s \in Seq(Cells) /\ n \in Nat
      /\ \A y \in Cells : home[y] = p <=> \E j \in 1 .. n : s[j] = y
      /\ h[p].child = NULL <=> s = <<>>
      /\ h[p].child # NULL => s[1] = h[p].child /\ n > 0
  BY ChildrenFacts
<1> HIDE DEF s
<1>3. \A j \in 1 .. n : s[j] \in Cells /\ s[j] # x /\ home[s[j]] = p
  BY <1>1, <1>2
<1>4. t \in Seq(Cells) /\ Len(t) = n + 1 /\ t[1] = IF s = <<>> THEN x ELSE s[1]
  <2>1. n + 1 \in 1 .. n + 1 /\ 1 \in 1 .. n + 1 /\ (s = <<>> <=> n = 0)
    BY <1>2
  <2>2. /\ t \in Seq(Cells) /\ Len(t) = n + 1
        /\ t[1] = IF 1 < n + 1 THEN s[1] ELSE IF 1 = n + 1 THEN x ELSE s[1 - 1]
    <3>1. Inserted(Cells, s, n + 1, x, t)
      BY <1>2, <2>1, InsertFacts
    <3> QED  BY <1>2, <2>1, <3>1 DEF Inserted
  <2> QED  BY <1>2, <2>1, <2>2
<1>5. /\ g[p].child = IF s = <<>> THEN x ELSE s[1]
      /\ g[x].next = NULL
      /\ \A j \in 1 .. n : g[s[j]].next = IF j = n THEN x ELSE h[s[j]].next
      /\ Elsewhere(h, home, g, p)
  <2>1. CASE h[p].child = NULL
    <3>1. g = [h EXCEPT ![p].child = x, ![x].prev = x, ![x].next = NULL]
      BY <2>1 DEF AddToArray
    <3>2. \A c \in Cells : /\ g[c].type = h[c].type /\ g[c].ref = h[c].ref
                           /\ g[c].child = IF c = p THEN x ELSE h[c].child
                           /\ g[c].next = IF c = x THEN NULL ELSE h[c].next
      BY <1>1, <3>1 DEF Items
    <3>3. 1 .. n = {}
      BY <1>2, <2>1
    <3> HIDE DEF g
    <3> QED  BY <1>2, <2>1, <3>2, <3>3 DEF Elsewhere
  <2>2. CASE h[p].child # NULL
    <3> DEFINE f == h[p].child
               l == h[f].prev
    <3>1. f \in Cells /\ Kid(h, p, f) /\ home[f] = p /\ f # x
      BY <1>1, <2>2, ChildrenAreList
    <3>2. l \in Cells /\ home[l] = p /\ h[l].next = NULL /\ l # x
      BY <1>1, <3>1, FieldTypes DEF Sound, LastInv, Pointers
    <3>3. l = s[n]
      BY <1>1, <3>2, LastIsUnique DEF s
    <3> HIDE DEF f, l
    <3>4. g = [[[h EXCEPT ![l].next = x, ![x].prev = l] EXCEPT ![f].prev = x] EXCEPT ![f].prev = x]
      BY <1>1, <2>2, <3>2 DEF AddToArray, Suffix, f, l
    <3>5. \A c \in Cells : /\ g[c].type = h[c].type /\ g[c].ref = h[c].ref
                           /\ g[c].child = h[c].child
                           /\ g[c].next = IF c = l THEN x ELSE h[c].next
      BY <1>1, <3>1, <3>2, <3>4 DEF Items
    <3> HIDE DEF g
    <3>6. \A j \in 1 .. n : s[j] = l <=> j = n
      BY <1>2, <3>3 DEF Once
    <3> QED  BY <1>1, <1>2, <1>3, <2>2, <3>2, <3>5, <3>6 DEF Elsewhere
  <2> QED  BY <2>1, <2>2
<1> HIDE DEF g, t
<1>6. Linked(g, t)
  <2>1. n + 1 \in 1 .. n + 1 /\ ~(n + 1 <= n) /\ \A j \in 1 .. n : j = (n + 1) - 1 <=> j = n
    BY <1>2
  <2> QED  BY <1>2, <1>3, <1>5, <2>1, LinkedWith DEF t
<1>7. t # <<>>
  BY <1>2, <1>4
<1> QED  BY <1>4, <1>5, <1>6, <1>7 DEF Relists, Lists, g, t, s

\* An item is put before the one at i.
LEMMA PutIsInserted ==
    ASSUME CellsAssumption, NEW h, NEW gone, NEW home, NEW fresh, NEW tops, NEW open,
           Sound(h, gone, home, fresh, tops, open),
           NEW p \in Cells, ~h[p].ref, p \notin open,
           NEW x \in Cells, home[x] = NULL, x # p,
           NEW i \in 1 .. Len(Children(h, p)), NEW g, Before(h, g, p, x, Children(h, p)[i])
    PROVE  Relists(h, home, g, p, Forest!InsertAt(Children(h, p), i, x))
<1> DEFINE s == Children(h, p)
           n == Len(s)
           a == s[i]
           t == Forest!InsertAt(s, i, x)
<1>1. h \in [Cells -> Items] /\ NULL \notin Cells /\ home \in [Cells -> Pointers]
      /\ HomeInv(h, gone, home)
  BY DEF Sound, Shape, CellsAssumption
<1>2. /\ Linked(h, s) /\ Once(s) /\ s \in Seq(Cells) /\ n \in Nat
      /\ \A y \in Cells : home[y] = p <=> \E j \in 1 .. n : s[j] = y
      /\ h[p].child = NULL <=> s = <<>>
      /\ h[p].child # NULL => s[1] = h[p].child /\ n > 0
  BY ChildrenFacts
<1>3. Before(h, g, p, x, a) /\ i \in 1 .. n
  OBVIOUS
<1> HIDE DEF s
<1>4. \A j \in 1 .. n : s[j] \in Cells /\ s[j] # x /\ home[s[j]] = p
  BY <1>1, <1>2
<1>5. h[p].child = s[1] /\ s # <<>>
  BY <1>2, <1>3
<1>6. i \in 1 .. n + 1 /\ 1 \in 1 .. n + 1 /\ i <= n
  BY <1>2, <1>3
<1>7. t \in Seq(Cells) /\ Len(t) = n + 1 /\ t[1] = IF i = 1 THEN x ELSE s[1]
  <2>1. /\ t \in Seq(Cells) /\ Len(t) = n + 1
        /\ t[1] = IF 1 < i THEN s[1] ELSE IF 1 = i THEN x ELSE s[1 - 1]
    <3>1. Inserted(Cells, s, i, x, t)
      BY <1>2, <1>6, InsertFacts
    <3> QED  BY <1>2, <1>6, <3>1 DEF Inserted
  <2> QED  BY <1>2, <1>6, <2>1
<1> HIDE DEF t
<1>8. /\ g[p].child = IF i = 1 THEN x ELSE s[1]
      /\ g[x].next = s[i]
      /\ \A j \in 1 .. n : g[s[j]].next = IF j = i - 1 THEN x ELSE h[s[j]].next
      /\ Elsewhere(h, home, g, p)
  <2>1. CASE i = 1
    <3>1. Kid(h, p, a)
      BY <1>5, <2>1 DEF Kid
    <3>2. PutFirst(h, g, p, x, a)
      BY <1>3, <3>1 DEF Before
    <3>3. \A j \in 1 .. n : j # i - 1
      BY <1>2, <2>1
    <3> QED  BY <1>1, <1>4, <2>1, <3>2, <3>3 DEF PutFirst, Elsewhere
  <2>2. CASE i # 1
    <3>1. i - 1 \in 1 .. n /\ i - 1 \in 1 .. n - 1 /\ (i - 1) + 1 = i /\ 1 \in 1 .. n
      BY <1>2, <1>3, <2>2
    <3>2. ~Kid(h, p, a)
      BY <1>2, <1>5, <2>2, <3>1 DEF Kid, Once
    <3>3. h[s[i - 1]].next = a
      BY <1>2, <3>1 DEF Linked
    <3>4. h[a].prev = s[i - 1]
      BY <1>1, <1>4, <3>1, <3>3 DEF HomeInv
    <3>5. PutBetween(h, g, s[i - 1], x, a)
      BY <1>3, <3>2, <3>4 DEF Before
    <3>6. \A j \in 1 .. n : s[j] = s[i - 1] <=> j = i - 1
      BY <1>2, <3>1 DEF Once
    <3>7. home[s[i - 1]] = p
      BY <1>4, <3>1
    <3> QED  BY <1>1, <1>4, <1>5, <2>2, <3>5, <3>6, <3>7 DEF PutBetween, Elsewhere
  <2> QED  BY <2>1, <2>2
<1>9. Linked(g, t)
  <2>1. g[x].next = IF i <= n THEN s[i] ELSE NULL
    BY <1>6, <1>8
  <2>2. \A j \in 1 .. n : s[j] # x
    BY <1>4
  <2> QED  BY <1>2, <1>6, <1>8, <2>1, <2>2, LinkedWith DEF t
<1>10. t # <<>> /\ t[1] = g[p].child
  BY <1>2, <1>7, <1>8
<1> QED  BY <1>8, <1>9, <1>10 DEF Relists, Lists, t, s

\* The item at i is taken out.
LEMMA OutIsRemoved ==
    ASSUME CellsAssumption, NEW h, NEW gone, NEW home, NEW fresh, NEW tops, NEW open,
           Sound(h, gone, home, fresh, tops, open),
           NEW p \in Cells, ~h[p].ref, p \notin open,
           NEW i \in 1 .. Len(Children(h, p)), NEW g, Out(h, g, p, Children(h, p)[i])
    PROVE  Relists(h, home, g, p, Forest!RemoveAt(Children(h, p), i))
<1> DEFINE s == Children(h, p)
           n == Len(s)
           x == s[i]
           t == Forest!RemoveAt(s, i)
<1>1. h \in [Cells -> Items] /\ NULL \notin Cells /\ home \in [Cells -> Pointers]
      /\ HomeInv(h, gone, home)
  BY DEF Sound, Shape, CellsAssumption
<1>2. /\ Linked(h, s) /\ Once(s) /\ s \in Seq(Cells) /\ n \in Nat
      /\ \A y \in Cells : home[y] = p <=> \E j \in 1 .. n : s[j] = y
      /\ h[p].child = NULL <=> s = <<>>
      /\ h[p].child # NULL => s[1] = h[p].child /\ n > 0
  BY ChildrenFacts
<1>3. Out(h, g, p, x) /\ i \in 1 .. n
  OBVIOUS
<1> HIDE DEF s
<1>4. \A j \in 1 .. n : s[j] \in Cells /\ home[s[j]] = p /\ (s[j] = s[i] => j = i)
  BY <1>1, <1>2, <1>3 DEF Once
<1>5. h[p].child = s[1] /\ s # <<>> /\ 1 \in 1 .. n
  BY <1>2, <1>3
<1>6. /\ t \in Seq(Cells) /\ Len(t) = n - 1
      /\ \A j \in 1 .. n - 1 : t[j] = IF j < i THEN s[j] ELSE s[j + 1]
  <2>1. Removed(Cells, s, i, t)
    BY <1>2, <1>3, RemoveFacts
  <2> QED  BY <1>2, <1>3, <2>1 DEF Removed
<1> HIDE DEF t
<1>7. h[x].next = IF i = n THEN NULL ELSE s[i + 1]
  BY <1>2, <1>3 DEF Linked
<1>8. /\ g[p].child = IF i = 1 THEN h[x].next ELSE s[1]
      /\ \A j \in 1 .. n : j # i => g[s[j]].next = IF j = i - 1 THEN h[x].next ELSE h[s[j]].next
      /\ Elsewhere(h, home, g, p)
  <2>1. CASE i = 1
    <3>1. Kid(h, p, x)
      BY <1>5, <2>1 DEF Kid
    <3>2. TakeFirst(h, g, p, x)
      BY <1>3, <3>1 DEF Out
    <3>3. \A j \in 1 .. n : j # i - 1
      BY <1>2, <2>1
    <3>4. home[x] = p
      BY <1>3, <1>4
    <3> HIDE DEF x
    <3>5. \A j \in 1 .. n : j # i => s[j] # x
      BY <1>4 DEF x
    <3> QED  BY <1>1, <1>4, <2>1, <3>2, <3>3, <3>4, <3>5 DEF TakeFirst, Elsewhere
  <2>2. CASE i # 1
    <3>1. i - 1 \in 1 .. n /\ i - 1 \in 1 .. n - 1 /\ (i - 1) + 1 = i /\ 1 \in 1 .. n
      BY <1>2, <1>3, <2>2
    <3>2. ~Kid(h, p, x)
      BY <1>2, <1>5, <2>2, <3>1 DEF Kid, Once
    <3>3. h[s[i - 1]].next = x
      BY <1>2, <3>1 DEF Linked
    <3>4. h[x].prev = s[i - 1]
      BY <1>1, <1>4, <3>1, <3>3 DEF HomeInv
    <3>5. TakeAfter(h, g, h[p].child, s[i - 1], x)
      BY <1>3, <3>2, <3>4 DEF Out
    <3>6. \A j \in 1 .. n : s[j] = s[i - 1] <=> j = i - 1
      BY <1>2, <3>1 DEF Once
    <3>7. home[s[i - 1]] = p /\ home[x] = p
      BY <1>3, <1>4, <3>1
    <3> HIDE DEF x
    <3>8. \A j \in 1 .. n : j # i => s[j] # x
      BY <1>4 DEF x
    <3> QED  BY <1>1, <1>4, <1>5, <2>2, <3>5, <3>6, <3>7, <3>8 DEF TakeAfter, Elsewhere
  <2> QED  BY <2>1, <2>2
<1>9. Linked(g, t)
  BY <1>2, <1>3, <1>8, LinkedWithout DEF t
<1>10. g[p].child = IF t = <<>> THEN NULL ELSE t[1]
  <2>1. CASE i = 1 /\ n = 1
    BY <1>6, <1>7, <1>8, <2>1
  <2>2. CASE i = 1 /\ n # 1
    <3>1. 1 \in 1 .. n - 1 /\ t[1] = s[2] /\ t # <<>>
      BY <1>2, <1>6, <2>2
    <3> QED  BY <1>7, <1>8, <2>2, <3>1
  <2>3. CASE i # 1
    <3>1. 1 \in 1 .. n - 1 /\ t[1] = s[1] /\ t # <<>>
      BY <1>2, <1>3, <1>6, <2>3
    <3> QED  BY <1>8, <2>3, <3>1
  <2> QED  BY <2>1, <2>2, <2>3
<1> QED  BY <1>8, <1>9, <1>10 DEF Relists, Lists, t, s

-----------------------------------------------------------------------------
(* The trees of JsonForest.tla.                                              *)
\* What the lists of T lead to.
More(f, T) == T \cup UNION {Forest!ToSet(f[y]) : y \in T}

\* T has the children of its members.
Complete(f, T) == \A y \in T : \A j \in 1 .. Len(f[y]) : f[y][j] \in T

\* What every such set with the members of T has.
LeastTree(f, D, T) == {c \in D : \A Q \in SUBSET D : T \subseteq Q /\ Complete(f, Q) => c \in Q}

\* One level further down.
LEMMA MoreIsOneStep ==
    ASSUME NEW D, NEW f \in [D -> Seq(D)], NEW T \in SUBSET D
    PROVE  /\ More(f, T) \in SUBSET D /\ T \subseteq More(f, T)
           /\ More(f, T) = T <=> Complete(f, T)
           /\ \A Q \in SUBSET D : Complete(f, Q) => (T \subseteq Q <=> More(f, T) \subseteq Q)
<1>1. ASSUME NEW y \in D PROVE Forest!ToSet(f[y]) = {f[y][j] : j \in 1 .. Len(f[y])}
                                /\ \A j \in 1 .. Len(f[y]) : f[y][j] \in D
  <2>1. PICK s : s = f[y]
    OBVIOUS
  <2>2. s \in Seq(D)
    BY <2>1
  <2>3. DOMAIN s = 1 .. Len(s) /\ \A j \in 1 .. Len(s) : s[j] \in D
    BY <2>2
  <2> QED  BY <2>1, <2>3 DEF Forest!ToSet
<1>2. \A c : c \in More(f, T) <=> c \in T \/ \E y \in T : \E j \in 1 .. Len(f[y]) : f[y][j] = c
  BY <1>1 DEF More
<1>3. More(f, T) \in SUBSET D /\ T \subseteq More(f, T)
  BY <1>1, <1>2
<1>4. More(f, T) = T <=> Complete(f, T)
  <2>1. ASSUME More(f, T) = T PROVE Complete(f, T)
    BY <1>2, <2>1 DEF Complete
  <2>2. ASSUME Complete(f, T) PROVE More(f, T) = T
    <3>1. \A c : c \in More(f, T) <=> c \in T
      BY <1>2, <2>2 DEF Complete
    <3> QED  BY <3>1
  <2> QED  BY <2>1, <2>2
<1>5. ASSUME NEW Q \in SUBSET D, Complete(f, Q) PROVE T \subseteq Q <=> More(f, T) \subseteq Q
  <2>1. ASSUME T \subseteq Q PROVE More(f, T) \subseteq Q
    BY <1>2, <1>5, <2>1 DEF Complete
  <2> QED  BY <1>3, <2>1
<1> QED  BY <1>3, <1>4, <1>5

\* The tree of x in the forest is the least set of items with x that has the children of
\* its members.
LEMMA ForestTreeFacts ==
    ASSUME NEW D, IsFiniteSet(D), NEW f \in [D -> Seq(D)], NEW x \in D
    PROVE  /\ Forest!Tree(f, x) \in SUBSET D /\ x \in Forest!Tree(f, x)
           /\ Complete(f, Forest!Tree(f, x))
           /\ \A Q \in SUBSET D : x \in Q /\ Complete(f, Q) => Forest!Tree(f, x) \subseteq Q
<1> DEFINE step(u) == [T \in SUBSET D |-> IF More(f, T) = T THEN T ELSE u[More(f, T)]]
           under == CHOOSE u : u = step(u)
           least == [T \in SUBSET D |-> LeastTree(f, D, T)]
<1>1. ASSUME NEW T \in SUBSET D
      PROVE  LeastTree(f, D, T) = IF More(f, T) = T THEN T ELSE LeastTree(f, D, More(f, T))
  <2>1. CASE More(f, T) = T
    BY <2>1, MoreIsOneStep DEF LeastTree
  <2>2. CASE More(f, T) # T
    <3> DEFINE U == More(f, T)
    <3>1. \A Q \in SUBSET D : Complete(f, Q) => (T \subseteq Q <=> U \subseteq Q)
      BY MoreIsOneStep
    <3> HIDE DEF U
    <3>2. LeastTree(f, D, T) = LeastTree(f, D, U)
      BY <3>1 DEF LeastTree
    <3> QED  BY <2>2, <3>2 DEF U
  <2> QED  BY <2>1, <2>2
<1>2. least = step(least)
  <2>1. ASSUME NEW T \in SUBSET D
        PROVE  least[T] = IF More(f, T) = T THEN T ELSE least[More(f, T)]
    BY <1>1, MoreIsOneStep
  <2> QED  BY <2>1
<1>3. under = step(under)
  BY <1>2
<1>4. Forest!Tree(f, x) = under[{x}]
  <2>1. DOMAIN f = D
    OBVIOUS
  <2> QED  BY <2>1 DEF Forest!Tree, More
<1> DEFINE Wrong == {T \in SUBSET D : under[T] # LeastTree(f, D, T)}
<1> HIDE DEF under
<1>5. ASSUME Wrong # {} PROVE FALSE
  <2>1. PICK T \in Wrong : \A Q \in Wrong : T \subseteq Q => Q = T
    <3>1. Wrong \subseteq SUBSET D
      OBVIOUS
    <3> HIDE DEF Wrong
    <3> QED  BY <1>5, <3>1, Largest
  <2> DEFINE U == More(f, T)
  <2>2. U \in SUBSET D /\ T \subseteq U /\ under[T] = IF U = T THEN T ELSE under[U]
    BY <1>3, MoreIsOneStep
  <2>3. LeastTree(f, D, T) = IF U = T THEN T ELSE LeastTree(f, D, U)
    BY <1>1
  <2> HIDE DEF U
  <2>4. U # T /\ U \in Wrong
    BY <2>2, <2>3
  <2> QED  BY <2>1, <2>2, <2>4
<1> DEFINE X == {x}
           L == LeastTree(f, D, X)
<1>6. Forest!Tree(f, x) = L
  BY <1>4, <1>5
<1>7. L \in SUBSET D /\ x \in L /\ \A Q \in SUBSET D : x \in Q /\ Complete(f, Q) => L \subseteq Q
  BY DEF LeastTree
<1>8. Complete(f, L)
  <2>1. SUFFICES ASSUME NEW y \in L, NEW j \in 1 .. Len(f[y]) PROVE f[y][j] \in L
    BY DEF Complete
  <2>2. y \in D
    BY <1>7
  <2>3. f[y] \in Seq(D)
    BY <2>2
  <2>4. f[y][j] \in D
    BY <2>3
  <2>5. ASSUME NEW Q \in SUBSET D, X \subseteq Q, Complete(f, Q) PROVE f[y][j] \in Q
    BY <1>7, <2>1, <2>5 DEF Complete
  <2> QED  BY <2>4, <2>5 DEF LeastTree
<1> HIDE DEF L
<1> QED  BY <1>6, <1>7, <1>8

-----------------------------------------------------------------------------
(* The forest of all items.                                                  *)
\* The children of every item that is not lost; a reference has none of its own.
Kids(h, p) == IF h[p].ref THEN <<>> ELSE Children(h, p)
Family(h, gone) == [p \in Live(h, gone) |-> Kids(h, p)]

\* What S leads to is live when S is.
LEMMA ReachIsLive ==
    ASSUME CellsAssumption, NEW h, NEW gone, h \in [Cells -> Items], CellsInv(h, gone),
           NEW S \in SUBSET Pointers, S \ {NULL} \subseteq Live(h, gone)
    PROVE  Reach(h, S, FALSE) \subseteq Live(h, gone)
<1>1. Closed(h, Live(h, gone)) /\ Live(h, gone) \in SUBSET Cells
  BY DEF CellsInv, Closed, Live
<1> QED  BY <1>1, OwnedFacts

\* Between two calls all items belong to the caller's trees.
LEMMA ReadyOwnsAll ==
    ASSUME CellsAssumption, NEW h, NEW gone, NEW home, NEW hand, Ready(h, gone, home, hand)
    PROVE  Reach(h, hand, FALSE) = Live(h, gone)
<1>1. /\ h \in [Cells -> Items] /\ hand \subseteq Live(h, gone) /\ Live(h, gone) \subseteq Cells
      /\ Founded(h, gone, hand) /\ CellsInv(h, gone) /\ NULL \notin Cells
  BY ReadyFacts DEF Sound
<1>2. hand \in SUBSET Pointers /\ hand \ {NULL} = hand
  BY <1>1 DEF Pointers
<1>3. Reach(h, hand, FALSE) \subseteq Live(h, gone)
  BY <1>1, <1>2, ReachIsLive
<1>4. /\ Reach(h, hand, FALSE) \in SUBSET Cells /\ hand \subseteq Reach(h, hand, FALSE)
      /\ Closed(h, Reach(h, hand, FALSE))
  BY <1>1, <1>2, OwnedFacts
<1>5. Live(h, gone) \subseteq Reach(h, hand, FALSE)
  BY <1>1, <1>4 DEF Founded
<1> QED  BY <1>3, <1>5

\* Every item of a list is an item.
LEMMA FamilyType ==
    ASSUME CellsAssumption, NEW h, NEW gone, NEW home, NEW hand, Ready(h, gone, home, hand)
    PROVE  /\ Family(h, gone) \in [Live(h, gone) -> Seq(Live(h, gone))]
           /\ IsFiniteSet(Live(h, gone))
           /\ \A p \in Live(h, gone), x \in Cells :
                  home[x] = p /\ ~h[p].ref <=> \E j \in 1 .. Len(Kids(h, p)) : Kids(h, p)[j] = x
<1>1. /\ Sound(h, gone, home, {}, hand, {}) /\ Live(h, gone) \subseteq Cells
      /\ \A x \in Cells : home[x] # NULL => x \in Live(h, gone)
      /\ NULL \notin Cells /\ IsFiniteSet(Cells)
  BY ReadyFacts DEF Sound, HomeInv, CellsAssumption
<1>2. IsFiniteSet(Live(h, gone))
  BY <1>1, FS_Subset
<1>3. ASSUME NEW p \in Live(h, gone)
      PROVE  /\ Kids(h, p) \in Seq(Live(h, gone))
             /\ \A x \in Cells :
                  home[x] = p /\ ~h[p].ref <=> \E j \in 1 .. Len(Kids(h, p)) : Kids(h, p)[j] = x
  <2>1. CASE h[p].ref
    <3>1. Kids(h, p) = <<>> /\ <<>> \in Seq(Live(h, gone)) /\ 1 .. Len(<<>>) = {}
      BY <2>1 DEF Kids
    <3> QED  BY <2>1, <3>1
  <2>2. CASE ~h[p].ref
    <3> DEFINE s == Children(h, p)
               none == {}
    <3>1. Kids(h, p) = s
      BY <2>2 DEF Kids
    <3>2. p \in Cells /\ p \notin none /\ Sound(h, gone, home, none, hand, none)
      BY <1>1
    <3> HIDE DEF none
    <3>3. /\ s \in Seq(Cells) /\ Len(s) \in Nat
          /\ \A x \in Cells : home[x] = p <=> \E j \in 1 .. Len(s) : s[j] = x
      BY <2>2, <3>2, ChildrenFacts
    <3> HIDE DEF s
    <3>4. \A j \in 1 .. Len(s) : s[j] \in Live(h, gone)
      <4> TAKE j \in 1 .. Len(s)
      <4>1. s[j] \in Cells
        BY <3>3
      <4>2. home[s[j]] = p
        BY <3>3, <4>1
      <4> QED  BY <1>1, <4>1, <4>2
    <3>5. s \in Seq(Live(h, gone))
      BY <3>3, <3>4
    <3> QED  BY <2>2, <3>1, <3>3, <3>5
  <2> QED  BY <2>1, <2>2
<1> QED  BY <1>2, <1>3 DEF Family

\* What cJSON_Delete frees is the tree of its item in the forest.
LEMMA FreedIsTree ==
    ASSUME CellsAssumption, NEW h, NEW gone, NEW home, NEW hand, Ready(h, gone, home, hand),
           NEW x \in hand
    PROVE  Forest!Tree(Family(h, gone), x) = Freed(h, x)
<1> DEFINE D == Live(h, gone)
           f == Family(h, gone)
           T == Forest!Tree(f, x)
           F == Freed(h, x)
           X == {x}
<1>1. /\ Sound(h, gone, home, {}, hand, {}) /\ D \subseteq Cells /\ NULL \notin Cells
      /\ h \in [Cells -> Items] /\ hand \subseteq Cells /\ x \in D /\ HomeInv(h, gone, home)
      /\ CellsInv(h, gone) /\ h[x].next = NULL /\ home[x] = NULL
  BY ReadyFacts DEF Sound, Ready
<1>2. /\ f \in [D -> Seq(D)] /\ IsFiniteSet(D)
      /\ \A p \in D : f[p] = Kids(h, p)
      /\ \A p \in D, c \in Cells :
             home[c] = p /\ ~h[p].ref <=> \E j \in 1 .. Len(Kids(h, p)) : Kids(h, p)[j] = c
  BY FamilyType DEF Family
<1>3. F \in SUBSET Cells /\ x \in F /\ Closed(h, F)
      /\ \A Q \in SUBSET Cells : x \in Q /\ Closed(h, Q) => F \subseteq Q
  <2>1. X \in SUBSET Pointers /\ X \ {NULL} = X /\ F = Reach(h, X, FALSE)
    BY <1>1 DEF Pointers, Freed
  <2> HIDE DEF F, X
  <2>2. /\ F \in SUBSET Cells /\ X \subseteq F /\ Closed(h, F)
        /\ \A Q \in SUBSET Cells : X \subseteq Q /\ Closed(h, Q) => F \subseteq Q
    BY <1>1, <2>1, OwnedFacts
  <2> QED  BY <2>2 DEF X
<1>4. F \subseteq D
  <2>1. Closed(h, D)
    BY <1>1 DEF Closed, CellsInv
  <2> QED  BY <1>1, <1>3, <2>1
<1> HIDE DEF f, F, D
<1>5. /\ T \in SUBSET D /\ x \in T /\ Complete(f, T)
      /\ \A Q \in SUBSET D : x \in Q /\ Complete(f, Q) => T \subseteq Q
  BY <1>1, <1>2, ForestTreeFacts
<1> HIDE DEF T
<1>6. Complete(f, F)
  <2>1. SUFFICES ASSUME NEW p \in F, NEW j \in 1 .. Len(f[p]) PROVE f[p][j] \in F
    BY DEF Complete
  <2>2. p \in D /\ p \in Cells
    BY <1>1, <1>4
  <2>3. f[p][j] \in Cells /\ f[p] = Kids(h, p)
    <3>1. f[p] \in Seq(D) /\ f[p] = Kids(h, p)
      BY <1>2, <2>2
    <3>2. f[p][j] \in D
      BY <3>1
    <3> QED  BY <1>1, <3>1, <3>2
  <2>4. home[f[p][j]] = p
    BY <1>2, <2>1, <2>2, <2>3
  <2> DEFINE none == {}
  <2>5. Sound(h, gone, home, none, hand, none) /\ p \notin none
    BY <1>1
  <2> HIDE DEF none
  <2> QED  BY <1>3, <2>2, <2>3, <2>4, <2>5, ListIsReached
<1>7. ASSUME NEW y \in T, NEW c \in Cells, home[c] = y, ~h[y].ref PROVE c \in T
  <2>1. y \in D /\ f[y] = Kids(h, y)
    BY <1>2, <1>5
  <2>2. PICK j \in 1 .. Len(Kids(h, y)) : Kids(h, y)[j] = c
    BY <1>2, <1>7, <2>1
  <2> QED  BY <1>5, <2>1, <2>2 DEF Complete
<1>8. ASSUME NEW y \in T, y # x PROVE \E p \in T : home[y] = p /\ ~h[p].ref
  <2> SUFFICES ASSUME \A p \in T : ~(home[y] = p /\ ~h[p].ref) PROVE FALSE
    OBVIOUS
  <2> DEFINE Q == T \ {y}
  <2>1. Q \in SUBSET D /\ x \in Q
    BY <1>5, <1>8
  <2>2. ASSUME NEW p \in Q, NEW j \in 1 .. Len(f[p]) PROVE f[p][j] \in Q
    <3>1. p \in T /\ p \in D /\ f[p] = Kids(h, p)
      BY <1>2, <1>5
    <3>2. f[p][j] \in T
      BY <1>5, <2>2, <3>1 DEF Complete
    <3>3. f[p][j] \in Cells
      BY <1>1, <1>5, <3>2
    <3>4. home[f[p][j]] = p /\ ~h[p].ref
      BY <1>2, <2>2, <3>1, <3>3
    <3> QED  BY <3>1, <3>2, <3>4
  <2>3. Complete(f, Q)
    BY <2>2 DEF Complete
  <2> QED  BY <1>5, <2>1, <2>3
<1>9. Closed(h, T)
  <2>1. SUFFICES ASSUME NEW y \in T
                 PROVE h[y].next \in T \cup {NULL} /\ (h[y].ref \/ h[y].child \in T \cup {NULL})
    BY DEF Closed
  <2>2. y \in Cells /\ h[y].next \in Pointers /\ h[y].child \in Pointers
    BY <1>1, <1>5, FieldTypes
  <2>3. ASSUME h[y].next # NULL PROVE h[y].next \in T
    <3>1. y # x /\ h[y].next \in Cells
      BY <1>1, <2>2, <2>3 DEF Pointers
    <3>2. PICK p \in T : home[y] = p /\ ~h[p].ref
      BY <1>8, <3>1
    <3>3. home[h[y].next] = p
      BY <1>1, <2>2, <3>1, <3>2 DEF HomeInv
    <3> QED  BY <1>7, <3>1, <3>2, <3>3
  <2>4. ASSUME h[y].child # NULL, ~h[y].ref PROVE h[y].child \in T
    <3>1. h[y].child \in Cells /\ Kid(h, y, h[y].child)
      BY <2>2, <2>4 DEF Pointers, Kid
    <3>2. home[h[y].child] = y
      BY <1>1, <2>2, <3>1 DEF HomeInv
    <3> QED  BY <1>7, <2>4, <3>1, <3>2
  <2> QED  BY <2>3, <2>4
<1>10. T \subseteq F
  BY <1>4, <1>3, <1>5, <1>6
<1>11. F \subseteq T
  BY <1>1, <1>3, <1>5, <1>9
<1> QED  BY <1>10, <1>11 DEF T, F, f

\* A list whose pointers are not written is the same list.
LEMMA ChildrenStay ==
    ASSUME CellsAssumption, NEW h, NEW gone, NEW home, NEW fresh, NEW tops, NEW open,
           Sound(h, gone, home, fresh, tops, open),
           NEW g, NEW away, NEW house, NEW others, NEW hands, NEW wide,
           Sound(g, away, house, others, hands, wide),
           NEW p \in Cells, g[p].child = h[p].child,
           \A j \in 1 .. Len(Children(h, p)) :
               g[Children(h, p)[j]].next = h[Children(h, p)[j]].next
    PROVE  Children(g, p) = Children(h, p)
<1> DEFINE s == Children(h, p)
<1>1. Lists(h, p, s) /\ \A j \in 1 .. Len(s) : g[s[j]].next = h[s[j]].next
  BY ListIsOne
<1> HIDE DEF s
<1>2. Len(s) \in Nat
  BY <1>1 DEF Lists, Linked
<1>3. Lists(g, p, s)
  BY <1>1, <1>2 DEF Lists, Linked
<1>4. Children(g, p) = s
  BY <1>3, ListIsOne
<1> QED  BY <1>4 DEF s

\* The forest after the list of p has changed.
LEMMA FamilyRelisted ==
    ASSUME CellsAssumption, NEW h, NEW gone, NEW home, NEW hand, Ready(h, gone, home, hand),
           NEW g, NEW house, NEW hands, Ready(g, gone, house, hands),
           NEW p \in Live(h, gone), ~h[p].ref, NEW t, Relists(h, home, g, p, t)
    PROVE  /\ Family(g, gone) = [Family(h, gone) EXCEPT ![p] = t]
           /\ Live(g, gone) = Live(h, gone)
<1> DEFINE none == {}
<1>1. /\ Sound(h, gone, home, none, hand, none) /\ Sound(g, gone, house, none, hands, none)
      /\ Live(h, gone) \subseteq Cells /\ NULL \notin Cells /\ home \in [Cells -> Pointers]
  BY ReadyFacts
<1> HIDE DEF none
<1>2. /\ Lists(g, p, t)
      /\ \A c \in Cells :
             /\ g[c].type = h[c].type /\ g[c].ref = h[c].ref
             /\ c # p => g[c].child = h[c].child
             /\ home[c] \notin {p, NULL} => g[c].next = h[c].next
  BY DEF Relists, Elsewhere
<1>3. Live(g, gone) = Live(h, gone)
  BY <1>2 DEF Live
<1>4. Kids(g, p) = t
  BY <1>1, <1>2, ListIsOne DEF Kids
<1>5. ASSUME NEW q \in Live(h, gone), q # p PROVE Kids(g, q) = Kids(h, q)
  <2>1. CASE h[q].ref
    BY <1>1, <1>2, <2>1 DEF Kids
  <2>2. CASE ~h[q].ref
    <3>1. q \in Cells /\ g[q].child = h[q].child /\ ~g[q].ref
      BY <1>1, <1>2, <1>5, <2>2
    <3>2. /\ Children(h, q) \in Seq(Cells)
          /\ \A j \in 1 .. Len(Children(h, q)) : home[Children(h, q)[j]] = q
      BY <1>1, <2>2, <3>1, ChildrenAreList
    <3>3. ASSUME NEW j \in 1 .. Len(Children(h, q))
          PROVE  g[Children(h, q)[j]].next = h[Children(h, q)[j]].next
      <4>1. Children(h, q)[j] \in Cells /\ home[Children(h, q)[j]] = q
        BY <3>2
      <4> QED  BY <1>1, <1>2, <1>5, <3>1, <4>1
    <3>4. Children(g, q) = Children(h, q)
      BY <1>1, <3>1, <3>3, ChildrenStay
    <3> QED  BY <2>2, <3>1, <3>4 DEF Kids
  <2> QED  BY <2>1, <2>2
<1> QED  BY <1>3, <1>4, <1>5 DEF Family

\* The forest does not change with names, nor with the last items that first ones know.
LEMMA FamilyStays ==
    ASSUME CellsAssumption, NEW h, NEW gone, NEW home, NEW hand, Ready(h, gone, home, hand),
           NEW g, NEW house, NEW hands, Ready(g, gone, house, hands),
           \A c \in Cells : /\ g[c].type = h[c].type /\ g[c].ref = h[c].ref
                            /\ g[c].child = h[c].child /\ g[c].next = h[c].next
    PROVE  Family(g, gone) = Family(h, gone) /\ Live(g, gone) = Live(h, gone)
<1> DEFINE none == {}
<1>1. /\ Sound(h, gone, home, none, hand, none) /\ Sound(g, gone, house, none, hands, none)
      /\ Live(h, gone) \subseteq Cells
  BY ReadyFacts
<1> HIDE DEF none
<1>2. Live(g, gone) = Live(h, gone)
  BY DEF Live
<1>3. ASSUME NEW q \in Live(h, gone) PROVE Kids(g, q) = Kids(h, q)
  <2>1. q \in Cells /\ Children(h, q) \in Seq(Cells)
    BY <1>1, ListIsOne DEF Lists, Linked
  <2>2. Children(g, q) = Children(h, q)
    BY <1>1, <2>1, ChildrenStay
  <2> QED  BY <2>1, <2>2 DEF Kids
<1> QED  BY <1>2, <1>3 DEF Family

\* The forest f with a new item n.
WithNew(f, n) == [y \in DOMAIN f \cup {n} |-> IF y = n THEN <<>> ELSE f[y]]

\* A new item has no children in the forest: none at all, or those of another item.
LEMMA FamilyWithNew ==
    ASSUME CellsAssumption, NEW h, NEW gone, NEW home, NEW hand, Ready(h, gone, home, hand),
           NEW n \in Cells, h[n].type = "free", NEW r \in Items, r.type # "free",
           r.child = NULL \/ r.ref, NEW g, g[n] = r, \A c \in Cells : c # n => g[c] = h[c],
           NEW house, NEW hands, Ready(g, gone, house, hands), n \notin gone
    PROVE  /\ Live(g, gone) = Live(h, gone) \cup {n} /\ n \notin Live(h, gone)
           /\ Family(g, gone) = WithNew(Family(h, gone), n)
<1> DEFINE none == {}
<1>1. /\ Sound(h, gone, home, none, hand, none) /\ Sound(g, gone, house, none, hands, none)
      /\ Live(h, gone) \subseteq Cells /\ h \in [Cells -> Items] /\ HomeInv(h, gone, home)
      /\ NULL \notin Cells
  BY ReadyFacts DEF Sound
<1> HIDE DEF none
<1>2. g[n] = r /\ \A c \in Cells : c # n => g[c] = h[c]
  BY <1>1
<1>3. Live(g, gone) = Live(h, gone) \cup {n} /\ n \notin Live(h, gone)
  BY <1>2 DEF Live
<1>4. Kids(g, n) = <<>>
  <2>1. CASE r.ref
    BY <1>2, <2>1 DEF Kids
  <2>2. CASE ~r.ref
    <3>1. ~g[n].ref /\ g[n].child = NULL
      BY <1>2, <2>2
    <3>2. Children(g, n) = <<>>
      BY <1>1, <3>1, ChildrenAreList
    <3> QED  BY <3>1, <3>2 DEF Kids
  <2> QED  BY <2>1, <2>2
<1>5. ASSUME NEW q \in Live(h, gone) PROVE Kids(g, q) = Kids(h, q)
  <2>1. q \in Cells /\ q # n /\ g[q] = h[q]
    BY <1>1, <1>2, <1>3
  <2>2. CASE h[q].ref
    BY <2>1, <2>2 DEF Kids
  <2>3. CASE ~h[q].ref
    <3>1. /\ Children(h, q) \in Seq(Cells)
          /\ \A j \in 1 .. Len(Children(h, q)) : home[Children(h, q)[j]] = q
      BY <1>1, <2>1, <2>3, ChildrenAreList
    <3>2. ASSUME NEW j \in 1 .. Len(Children(h, q))
          PROVE  g[Children(h, q)[j]].next = h[Children(h, q)[j]].next
      <4>1. Children(h, q)[j] \in Cells /\ home[Children(h, q)[j]] = q
        BY <3>1
      <4>2. Children(h, q)[j] # n
        BY <1>1, <1>3, <2>1, <4>1 DEF HomeInv
      <4> QED  BY <1>2, <4>1, <4>2
    <3>3. Sound(h, gone, home, none, hand, none) /\ Sound(g, gone, house, none, hands, none)
          /\ q \in Cells /\ g[q].child = h[q].child
      BY <1>1, <2>1
    <3>4. Children(g, q) = Children(h, q)
      BY <3>2, <3>3, ChildrenStay
    <3> QED  BY <2>1, <2>3, <3>4 DEF Kids
  <2> QED  BY <2>2, <2>3
<1>6. Family(g, gone) = WithNew(Family(h, gone), n)
  BY <1>3, <1>4, <1>5 DEF Family, WithNew
<1> QED  BY <1>3, <1>6

\* cJSON_Delete takes the tree of its item out of the forest.
LEMMA FamilyWhenDeleted ==
    ASSUME CellsAssumption, NEW h, NEW gone, NEW home, NEW hand, Ready(h, gone, home, hand),
           NEW x \in hand, NEW house, NEW hands, Ready(Delete(h, x), gone, house, hands)
    PROVE  /\ Family(Delete(h, x), gone) = Forest!Without(Family(h, gone), x)
           /\ Live(Delete(h, x), gone) = Live(h, gone) \ Freed(h, x)
<1> DEFINE none == {}
           g == Delete(h, x)
           F == Freed(h, x)
<1>1. /\ Sound(h, gone, home, none, hand, none) /\ Sound(g, gone, house, none, hands, none)
      /\ Live(h, gone) \subseteq Cells /\ h \in [Cells -> Items] /\ HomeInv(h, gone, home)
      /\ NULL \notin Cells /\ home[x] = NULL
  BY ReadyFacts DEF Sound
<1>2. \A c \in Cells : g[c] = IF c \in F THEN Unused ELSE h[c]
  BY DEF Delete, Freed
<1>3. Forest!Tree(Family(h, gone), x) = F
  BY FreedIsTree
<1> HIDE DEF none, g, F
<1>4. Live(g, gone) = Live(h, gone) \ F
  BY <1>2 DEF Live, Unused, Blank
<1>5. ASSUME NEW q \in Live(h, gone) \ F PROVE Kids(g, q) = Kids(h, q)
  <2>1. q \in Cells /\ q \notin F /\ g[q] = h[q]
    BY <1>1, <1>2
  <2>2. CASE h[q].ref
    BY <2>1, <2>2 DEF Kids
  <2>3. CASE ~h[q].ref
    <3>1. /\ Children(h, q) \in Seq(Cells)
          /\ \A j \in 1 .. Len(Children(h, q)) : home[Children(h, q)[j]] = q
      BY <1>1, <2>1, <2>3, ChildrenAreList
    <3>2. ASSUME NEW j \in 1 .. Len(Children(h, q))
          PROVE  g[Children(h, q)[j]].next = h[Children(h, q)[j]].next
      <4> DEFINE c == Children(h, q)[j]
      <4>1. c \in Cells /\ home[c] = q
        BY <3>1
      <4>2. c \in Live(h, gone) /\ home[x] # q /\ q # NULL
        BY <1>1, <2>1, <4>1 DEF HomeInv
      <4> HIDE DEF c
      <4>3. q \notin Freed(h, x)
        BY <2>1 DEF F
      <4>4. c \notin F
        BY <1>1, <4>1, <4>2, <4>3, ListStaysOut DEF F
      <4>5. g[c].next = h[c].next
        BY <1>2, <4>1, <4>4
      <4> QED  BY <4>5 DEF c
    <3>3. Children(g, q) = Children(h, q)
      BY <1>1, <2>1, <3>2, ChildrenStay
    <3> QED  BY <2>1, <2>3, <3>3 DEF Kids
  <2> QED  BY <2>2, <2>3
<1>6. Forest!Without(Family(h, gone), x) = [y \in Live(h, gone) \ F |-> Kids(h, y)]
  <2>1. DOMAIN Family(h, gone) = Live(h, gone) /\ \A y \in Live(h, gone) : Family(h, gone)[y] = Kids(h, y)
    BY DEF Family
  <2> QED  BY <1>3, <2>1 DEF Forest!Without, Forest!Restrict
<1>7. Family(g, gone) = [y \in Live(h, gone) \ F |-> Kids(h, y)]
  BY <1>4, <1>5 DEF Family
<1> QED  BY <1>4, <1>6, <1>7 DEF g, F

-----------------------------------------------------------------------------
(* What cJSON_Compare computes, and the value of a tree.                      *)

\* The children of p, however many pointers and references they are found by.
Leads(h, p, x) == \E j \in 1 .. Len(Children(h, p)) : Children(h, p)[j] = x

\* Nothing in D leads back to itself, not even through a reference.
Grounded(h, D) == \A W \in SUBSET D : W # {} => \E p \in W : \A x \in W : ~Leads(h, p, x)

\* The items of D have their children in D.
Within(h, D) == \A p \in D : Children(h, p) \in Seq(D)

\* One step of the recursion of Value, and of Compare.
WorthOf(h, sensitive, v, c) ==
    LET s == Children(h, c)
        Names == {Folded(h[s[i]].key, sensitive) : i \in DOMAIN s}
    IN IF h[c].type = "array" THEN <<"array", [i \in DOMAIN s |-> v[s[i]]]>>
       ELSE IF h[c].type = "object"
       THEN <<"object", [k \in Names |-> v[s[CHOOSE i \in DOMAIN s :
                                            Folded(h[s[i]].key, sensitive) = k]]]>>
       ELSE <<"scalar", h[c].type>>
FindsAll(h, sensitive, f, s, other) ==
    \A i \in DOMAIN s :
        LET found == ObjectItem(h, other, h[s[i]].key, sensitive)
        IN found # NULL /\ f[<<s[i], found>>]
SameBy(h, sensitive, f, a, b) ==
    /\ h[a].type = h[b].type /\ h[a].type # "invalid"
    /\ \/ a = b
       \/ h[a].type \in Scalars
       \/ /\ h[a].type = "array" /\ Len(Children(h, a)) = Len(Children(h, b))
          /\ \A i \in DOMAIN Children(h, a) : f[<<Children(h, a)[i], Children(h, b)[i]>>]
       \/ /\ h[a].type = "object"
          /\ FindsAll(h, sensitive, f, Children(h, a), b) /\ FindsAll(h, sensitive, f, Children(h, b), a)

\* The solutions of the two recursions.
Values(h, D, sensitive, v) == v = [c \in D |-> WorthOf(h, sensitive, v, c)]
Sames(h, sensitive, f) == f = [pair \in Cells \X Cells |-> SameBy(h, sensitive, f, pair[1], pair[2])]

\* The value of an item is what the values of its children make it.
LEMMA WorthAgrees ==
    ASSUME NEW h, NEW D, NEW c, Children(h, c) \in Seq(D), NEW sensitive, NEW v, NEW w,
           \A j \in 1 .. Len(Children(h, c)) : w[Children(h, c)[j]] = v[Children(h, c)[j]]
    PROVE  WorthOf(h, sensitive, w, c) = WorthOf(h, sensitive, v, c)
<1> DEFINE s == Children(h, c)
           Names == {Folded(h[s[i]].key, sensitive) : i \in DOMAIN s}
           at(k) == CHOOSE i \in DOMAIN s : Folded(h[s[i]].key, sensitive) = k
<1>1. DOMAIN s = 1 .. Len(s)
  OBVIOUS
<1>2. \A i \in DOMAIN s : w[s[i]] = v[s[i]]
  BY <1>1
<1>3. \A k \in Names : at(k) \in DOMAIN s
  OBVIOUS
<1>4. \A k \in Names : w[s[at(k)]] = v[s[at(k)]]
  BY <1>2, <1>3
<1> HIDE DEF at, Names, s
<1>5. [k \in Names |-> w[s[at(k)]]] = [k \in Names |-> v[s[at(k)]]]
  BY <1>4
<1>6. [i \in DOMAIN s |-> w[s[i]]] = [i \in DOMAIN s |-> v[s[i]]]
  BY <1>2
<1> QED  BY <1>5, <1>6 DEF WorthOf, at, Names, s

\* Since nothing leads back to itself, every item has a value.
LEMMA ValuesExist ==
    ASSUME NEW h, NEW D, IsFiniteSet(D), Within(h, D), Grounded(h, D), NEW sensitive
    PROVE  \E v : Values(h, D, sensitive, v)
<1> DEFINE Solved(S, v) == \A c \in S : v[c] = WorthOf(h, sensitive, v, c)
           Ok == {S \in SUBSET D : Within(h, S) /\ \E v : Solved(S, v)}
<1>1. {} \in Ok
  BY DEF Within
<1>2. PICK S \in Ok : \A R \in Ok : S \subseteq R => R = S
  <2>1. Ok \subseteq SUBSET D
    OBVIOUS
  <2> HIDE DEF Ok
  <2> QED  BY <1>1, <2>1, Largest
<1>3. PICK v : Solved(S, v)
  OBVIOUS
<1>4. S \in SUBSET D /\ Within(h, S)
  OBVIOUS
<1>5. ASSUME S # D PROVE FALSE
  <2> DEFINE W == D \ S
  <2>1. W \in SUBSET D /\ W # {}
    BY <1>4, <1>5
  <2> HIDE DEF W
  <2>2. PICK c \in W : \A x \in W : ~Leads(h, c, x)
    BY <2>1 DEF Grounded
  <2>3. c \in D /\ c \notin S
    BY <2>2 DEF W
  <2>4. Children(h, c) \in Seq(S)
    <3>1. Children(h, c) \in Seq(D)
      BY <2>3 DEF Within
    <3>2. \A j \in 1 .. Len(Children(h, c)) : Children(h, c)[j] \in S
      BY <2>2, <3>1 DEF Leads, W
    <3> QED  BY <3>1, <3>2
  <2> DEFINE R == S \cup {c}
             w == [x \in R |-> IF x = c THEN WorthOf(h, sensitive, v, c) ELSE v[x]]
  <2>5. ASSUME NEW x \in R
        PROVE  /\ Children(h, x) \in Seq(S)
               /\ WorthOf(h, sensitive, w, x) = WorthOf(h, sensitive, v, x)
    <3>1. Children(h, x) \in Seq(S)
      BY <1>4, <2>4 DEF Within
    <3>2. \A j \in 1 .. Len(Children(h, x)) : w[Children(h, x)[j]] = v[Children(h, x)[j]]
      BY <2>3, <3>1
    <3> HIDE DEF w
    <3> QED  BY <3>1, <3>2, WorthAgrees
  <2>6. Solved(R, w)
    <3>1. ASSUME NEW x \in R PROVE w[x] = WorthOf(h, sensitive, v, x)
      BY <1>3
    <3> HIDE DEF w
    <3> QED  BY <2>5, <3>1
  <2>7. R \in Ok
    <3>1. Within(h, R)
      <4>1. \A s : s \in Seq(S) => s \in Seq(R)
        OBVIOUS
      <4> HIDE DEF R
      <4> QED  BY <2>5, <4>1 DEF Within
    <3>2. R \in SUBSET D
      BY <1>4, <2>3
    <3> QED  BY <2>6, <3>1, <3>2
  <2> HIDE DEF Ok
  <2> QED  BY <1>2, <2>3, <2>7
<1>6. S = D
  BY <1>5
<1> DEFINE u == [c \in D |-> v[c]]
<1>7. ASSUME NEW c \in D PROVE u[c] = WorthOf(h, sensitive, u, c)
  <2>1. Children(h, c) \in Seq(D)
    BY DEF Within
  <2>2. \A j \in 1 .. Len(Children(h, c)) : u[Children(h, c)[j]] = v[Children(h, c)[j]]
    BY <2>1
  <2>3. u[c] = v[c]
    OBVIOUS
  <2> HIDE DEF u
  <2>4. WorthOf(h, sensitive, u, c) = WorthOf(h, sensitive, v, c)
    BY <2>1, <2>2, WorthAgrees
  <2> QED  BY <1>3, <1>6, <2>3, <2>4
<1>8. u = [c \in D |-> u[c]]
  OBVIOUS
<1> HIDE DEF u
<1>9. Values(h, D, sensitive, u)
  BY <1>7, <1>8 DEF Values
<1> QED  BY <1>9

\* What get_object_item finds is a child.
LEMMA FoundIsChild ==
    ASSUME NEW h, NEW D, NEW b, Children(h, b) \in Seq(D), NEW name, NEW sensitive,
           ObjectItem(h, b, name, sensitive) # NULL
    PROVE  \E j \in 1 .. Len(Children(h, b)) : ObjectItem(h, b, name, sensitive) = Children(h, b)[j]
<1> DEFINE s == Children(h, b)
           Stops(i) == \/ SameName(name, h[s[i]].key, sensitive)
                       \/ sensitive /\ h[s[i]].key = NULL
           First == {i \in 1 .. Len(s) : Stops(i) /\ \A j \in 1 .. i - 1 : ~Stops(j)}
           x == s[CHOOSE i \in First : TRUE]
<1>1. ObjectItem(h, b, name, sensitive) =
          IF name = NULL \/ First = {} THEN NULL ELSE IF h[x].key = NULL THEN NULL ELSE x
  BY DEF ObjectItem
<1>2. First # {} => (CHOOSE i \in First : TRUE) \in First
  OBVIOUS
<1>3. First \subseteq 1 .. Len(s)
  OBVIOUS
<1> HIDE DEF First
<1> QED  BY <1>1, <1>2, <1>3

\* More equal children make more equal items.
LEMMA SameByGrows ==
    ASSUME NEW h, NEW sensitive, NEW f, NEW g, NEW a \in Cells, NEW b \in Cells,
           Children(h, a) \in Seq(Cells), Children(h, b) \in Seq(Cells),
           \A c, d \in Cells : f[<<c, d>>] => g[<<c, d>>], SameBy(h, sensitive, f, a, b)
    PROVE  SameBy(h, sensitive, g, a, b)
<1>1. ASSUME NEW s \in Seq(Cells), NEW o \in Cells, Children(h, o) \in Seq(Cells),
             FindsAll(h, sensitive, f, s, o)
      PROVE  FindsAll(h, sensitive, g, s, o)
  <2>1. ASSUME NEW i \in DOMAIN s
        PROVE  LET found == ObjectItem(h, o, h[s[i]].key, sensitive)
               IN found # NULL /\ g[<<s[i], found>>]
    <3> DEFINE found == ObjectItem(h, o, h[s[i]].key, sensitive)
    <3>1. found # NULL /\ f[<<s[i], found>>]
      BY <1>1 DEF FindsAll
    <3>2. found \in Cells
      BY <1>1, <3>1, FoundIsChild
    <3>3. s[i] \in Cells
      OBVIOUS
    <3> HIDE DEF found
    <3> QED  BY <3>1, <3>2, <3>3 DEF found
  <2> QED  BY <2>1 DEF FindsAll
<1>2. Len(Children(h, a)) = Len(Children(h, b))
      /\ (\A i \in DOMAIN Children(h, a) : f[<<Children(h, a)[i], Children(h, b)[i]>>])
      => \A i \in DOMAIN Children(h, a) : g[<<Children(h, a)[i], Children(h, b)[i]>>]
  <2> SUFFICES ASSUME Len(Children(h, a)) = Len(Children(h, b)), NEW i \in DOMAIN Children(h, a),
                      f[<<Children(h, a)[i], Children(h, b)[i]>>]
               PROVE  g[<<Children(h, a)[i], Children(h, b)[i]>>]
    OBVIOUS
  <2>1. Children(h, a)[i] \in Cells /\ Children(h, b)[i] \in Cells
    OBVIOUS
  <2> QED  BY <2>1
<1>3. FindsAll(h, sensitive, f, Children(h, a), b) => FindsAll(h, sensitive, g, Children(h, a), b)
  BY <1>1
<1>4. FindsAll(h, sensitive, f, Children(h, b), a) => FindsAll(h, sensitive, g, Children(h, b), a)
  BY <1>1
<1> QED  BY <1>2, <1>3, <1>4 DEF SameBy

\* The recursion of cJSON_Compare has a solution, whatever the pointers.
LEMMA SamesExist ==
    ASSUME NEW h, \A c \in Cells : Children(h, c) \in Seq(Cells), NEW sensitive
    PROVE  \E f : Sames(h, sensitive, f)
<1> DEFINE Fun(Q) == [pair \in Cells \X Cells |-> pair \in Q]
           Holds(Q) == \A a, b \in Cells : <<a, b>> \in Q => SameBy(h, sensitive, Fun(Q), a, b)
           U == UNION {Q \in SUBSET (Cells \X Cells) : Holds(Q)}
<1>1. ASSUME NEW Q, NEW a \in Cells, NEW b \in Cells PROVE Fun(Q)[<<a, b>>] <=> <<a, b>> \in Q
  OBVIOUS
<1> HIDE DEF Fun
<1>2. ASSUME NEW Q, NEW R, Q \subseteq R, NEW a \in Cells, NEW b \in Cells,
             SameBy(h, sensitive, Fun(Q), a, b)
      PROVE  SameBy(h, sensitive, Fun(R), a, b)
  <2>1. \A c, d \in Cells : Fun(Q)[<<c, d>>] => Fun(R)[<<c, d>>]
    BY <1>1, <1>2
  <2> QED  BY <1>2, <2>1, SameByGrows
<1>3. U \in SUBSET (Cells \X Cells)
  OBVIOUS
<1>4. ASSUME NEW Q \in SUBSET (Cells \X Cells), Holds(Q) PROVE Q \subseteq U
  BY <1>4
<1>5. ASSUME NEW a \in Cells, NEW b \in Cells, <<a, b>> \in U PROVE SameBy(h, sensitive, Fun(U), a, b)
  <2>1. PICK Q \in SUBSET (Cells \X Cells) : Holds(Q) /\ <<a, b>> \in Q
    BY <1>5
  <2>2. SameBy(h, sensitive, Fun(Q), a, b) /\ Q \subseteq U
    BY <1>4, <2>1
  <2> HIDE DEF U
  <2> QED  BY <1>2, <2>2
<1>6. ASSUME NEW a \in Cells, NEW b \in Cells, SameBy(h, sensitive, Fun(U), a, b) PROVE <<a, b>> \in U
  <2> DEFINE R == U \cup {<<a, b>>}
  <2>1. R \in SUBSET (Cells \X Cells) /\ U \subseteq R /\ <<a, b>> \in R
    <3> HIDE DEF U
    <3> QED  BY <1>3
  <2>2. Holds(R)
    <3> SUFFICES ASSUME NEW c \in Cells, NEW d \in Cells, <<c, d>> \in R
                 PROVE  SameBy(h, sensitive, Fun(R), c, d)
      OBVIOUS
    <3>1. SameBy(h, sensitive, Fun(U), c, d)
      <4>1. CASE <<c, d>> \in U
        BY <1>5, <4>1
      <4>2. CASE <<c, d>> \notin U
        BY <1>6, <4>2
      <4> QED  BY <4>1, <4>2
    <3> HIDE DEF R, U
    <3> QED  BY <1>2, <2>1, <3>1
  <2> HIDE DEF R
  <2>3. R \subseteq U
    BY <1>4, <2>1, <2>2
  <2> QED  BY <2>1, <2>3
<1> HIDE DEF U
<1> DEFINE g == Fun(U)
<1>7. g = [pair \in Cells \X Cells |-> pair \in U]
  BY DEF Fun
<1>8. \A a, b \in Cells : <<a, b>> \in U <=> SameBy(h, sensitive, g, a, b)
  BY <1>5, <1>6
<1> HIDE DEF g
<1>9. ASSUME NEW pair \in Cells \X Cells
      PROVE  (pair \in U) = SameBy(h, sensitive, g, pair[1], pair[2])
  <2>1. pair = <<pair[1], pair[2]>> /\ pair[1] \in Cells /\ pair[2] \in Cells
    OBVIOUS
  <2>2. pair \in U <=> SameBy(h, sensitive, g, pair[1], pair[2])
    BY <1>8, <2>1
  <2>3. SameBy(h, sensitive, g, pair[1], pair[2]) \in BOOLEAN
    BY Zenon DEF SameBy
  <2> QED  BY <2>2, <2>3
<1>10. g = [pair \in Cells \X Cells |-> SameBy(h, sensitive, g, pair[1], pair[2])]
  BY <1>7, <1>9
<1>11. Sames(h, sensitive, g)
  BY <1>10 DEF Sames
<1> QED  BY <1>11

\* The members of an object have names, and no two of them the same.
NamesApart(h, c, sensitive) ==
    h[c].type = "object" =>
        /\ \A i \in 1 .. Len(Children(h, c)) : h[Children(h, c)[i]].key \in Keys
        /\ \A i, j \in 1 .. Len(Children(h, c)) :
               Folded(h[Children(h, c)[i]].key, sensitive) = Folded(h[Children(h, c)[j]].key, sensitive)
                   => i = j

\* get_object_item finds the member of a name, when there is one.
LEMMA NameIsFound ==
    ASSUME NamesAssumption, NEW h, NEW D, NULL \notin D, NEW b, Children(h, b) \in Seq(D),
           NEW sensitive \in BOOLEAN, h[b].type = "object", NamesApart(h, b, sensitive),
           NEW name \in Keys
    PROVE  /\ \A j \in 1 .. Len(Children(h, b)) :
                  Folded(h[Children(h, b)[j]].key, sensitive) = Folded(name, sensitive) =>
                      ObjectItem(h, b, name, sensitive) = Children(h, b)[j]
           /\ ObjectItem(h, b, name, sensitive) # NULL =>
                  \E j \in 1 .. Len(Children(h, b)) :
                      /\ ObjectItem(h, b, name, sensitive) = Children(h, b)[j]
                      /\ Folded(h[Children(h, b)[j]].key, sensitive) = Folded(name, sensitive)
<1> DEFINE s == Children(h, b)
           Fits(i) == Folded(h[s[i]].key, sensitive) = Folded(name, sensitive)
           Stops(i) == \/ SameName(name, h[s[i]].key, sensitive)
                       \/ sensitive /\ h[s[i]].key = NULL
           First == {i \in 1 .. Len(s) : Stops(i) /\ \A j \in 1 .. i - 1 : ~Stops(j)}
           x == s[CHOOSE i \in First : TRUE]
<1>1. ObjectItem(h, b, name, sensitive) =
          IF name = NULL \/ First = {} THEN NULL ELSE IF h[x].key = NULL THEN NULL ELSE x
  BY DEF ObjectItem
<1>2. NULL \notin Keys /\ name # NULL /\ Len(s) \in Nat
  BY DEF NamesAssumption
<1>3. ASSUME NEW i \in 1 .. Len(s) PROVE h[s[i]].key \in Keys /\ s[i] \in D /\ (Stops(i) <=> Fits(i))
  <2>1. h[s[i]].key \in Keys /\ s[i] \in D
    BY DEF NamesApart
  <2> QED  BY <1>2, <2>1 DEF SameName, Folded
<1>4. ASSUME NEW i \in 1 .. Len(s), NEW j \in 1 .. Len(s), Fits(i), Fits(j) PROVE i = j
  BY <1>4 DEF NamesApart
<1> HIDE DEF Stops, Fits, s
<1>5. First = {i \in 1 .. Len(s) : Fits(i)}
  <2>1. ASSUME NEW i \in 1 .. Len(s), Fits(i), NEW j \in 1 .. i - 1 PROVE ~Stops(j)
    <3>1. j \in 1 .. Len(s) /\ j # i
      BY <1>2
    <3> QED  BY <1>3, <1>4, <2>1, <3>1
  <2> QED  BY <1>3, <2>1
<1>6. ASSUME NEW j \in 1 .. Len(s), Fits(j) PROVE ObjectItem(h, b, name, sensitive) = s[j]
  <2>1. First = {j}
    BY <1>4, <1>5, <1>6
  <2> HIDE DEF First
  <2>2. (CHOOSE i \in First : TRUE) = j
    BY <2>1
  <2>3. h[s[j]].key \in Keys
    BY <1>3
  <2> QED  BY <1>1, <1>2, <2>1, <2>2, <2>3
<1>7. ASSUME ObjectItem(h, b, name, sensitive) # NULL
      PROVE  \E j \in 1 .. Len(s) : ObjectItem(h, b, name, sensitive) = s[j] /\ Fits(j)
  <2>1. First # {}
    BY <1>1, <1>7
  <2>2. PICK j \in 1 .. Len(s) : Fits(j)
    BY <1>5, <2>1
  <2> QED  BY <1>6, <2>2
<1> QED  BY <1>6, <1>7 DEF Fits, s

\* Every member of the list s is one of t: by what f says, or by the values v.
EachFound(h, sensitive, f, s, t) ==
    \A i \in 1 .. Len(s) : \E j \in 1 .. Len(t) :
        Folded(h[s[i]].key, sensitive) = Folded(h[t[j]].key, sensitive) /\ f[<<s[i], t[j]>>]
EachValued(h, sensitive, v, s, t) ==
    \A i \in 1 .. Len(s) : \E j \in 1 .. Len(t) :
        Folded(h[s[i]].key, sensitive) = Folded(h[t[j]].key, sensitive) /\ v[s[i]] = v[t[j]]
\* The lists s and t have the same values, in order.
SameValued(v, s, t) == Len(s) = Len(t) /\ \A i \in 1 .. Len(s) : v[s[i]] = v[t[i]]

\* Every member of one object is found in the other, and equal.
LEMMA FindsAllIs ==
    ASSUME NamesAssumption, NEW h, NEW D, NULL \notin D, NEW a, Children(h, a) \in Seq(D),
           NEW b, Children(h, b) \in Seq(D), NEW sensitive \in BOOLEAN,
           h[a].type = "object", NamesApart(h, a, sensitive),
           h[b].type = "object", NamesApart(h, b, sensitive), NEW f
    PROVE  FindsAll(h, sensitive, f, Children(h, a), b) <=>
           EachFound(h, sensitive, f, Children(h, a), Children(h, b))
<1> DEFINE s == Children(h, a)
           t == Children(h, b)
           Fold(x) == Folded(h[x].key, sensitive)
           found(i) == ObjectItem(h, b, h[s[i]].key, sensitive)
<1>1. DOMAIN s = 1 .. Len(s)
  OBVIOUS
<1>2. ASSUME NEW i \in 1 .. Len(s)
      PROVE  found(i) # NULL /\ f[<<s[i], found(i)>>] <=>
             \E j \in 1 .. Len(t) : Fold(s[i]) = Fold(t[j]) /\ f[<<s[i], t[j]>>]
  <2>1. h[s[i]].key \in Keys
    BY DEF NamesApart
  <2>2. \A j \in 1 .. Len(t) : Fold(t[j]) = Fold(s[i]) => found(i) = t[j]
    BY <2>1, NameIsFound
  <2>3. found(i) # NULL => \E j \in 1 .. Len(t) : found(i) = t[j] /\ Fold(t[j]) = Fold(s[i])
    BY <2>1, NameIsFound
  <2>4. \A j \in 1 .. Len(t) : t[j] # NULL
    OBVIOUS
  <2> HIDE DEF found, Fold, s, t
  <2> QED  BY <2>2, <2>3, <2>4
<1>3. FindsAll(h, sensitive, f, s, b) <=> \A i \in 1 .. Len(s) : found(i) # NULL /\ f[<<s[i], found(i)>>]
  BY <1>1 DEF FindsAll
<1> HIDE DEF found
<1>4. FindsAll(h, sensitive, f, s, b) <=>
          \A i \in 1 .. Len(s) : \E j \in 1 .. Len(t) : Fold(s[i]) = Fold(t[j]) /\ f[<<s[i], t[j]>>]
  BY <1>2, <1>3
<1> QED  BY <1>4 DEF EachFound

\* Two objects have the same value when they have the same names, with equal members.
LEMMA ObjectsEqual ==
    ASSUME NEW h, NEW D, NEW a, Children(h, a) \in Seq(D),
           NEW b, Children(h, b) \in Seq(D), NEW sensitive \in BOOLEAN,
           h[a].type = "object", NamesApart(h, a, sensitive),
           h[b].type = "object", NamesApart(h, b, sensitive), NEW v
    PROVE  WorthOf(h, sensitive, v, a) = WorthOf(h, sensitive, v, b) <=>
           /\ EachValued(h, sensitive, v, Children(h, a), Children(h, b))
           /\ EachValued(h, sensitive, v, Children(h, b), Children(h, a))
<1> DEFINE Fold(x) == Folded(h[x].key, sensitive)
           Names(s) == {Folded(h[s[i]].key, sensitive) : i \in DOMAIN s}
           at(s, k) == CHOOSE i \in DOMAIN s : Folded(h[s[i]].key, sensitive) = k
           Fun(s) == [k \in Names(s) |-> v[s[at(s, k)]]]
           s == Children(h, a)
           t == Children(h, b)
<1>1. /\ WorthOf(h, sensitive, v, a) = <<"object", Fun(s)>>
      /\ WorthOf(h, sensitive, v, b) = <<"object", Fun(t)>>
  BY DEF WorthOf
<1>2. ASSUME NEW c \in {a, b}, NEW u, u = Children(h, c)
      PROVE  /\ DOMAIN Fun(u) = Names(u) /\ Names(u) = {Fold(u[i]) : i \in 1 .. Len(u)}
             /\ \A i \in 1 .. Len(u) : Fun(u)[Fold(u[i])] = v[u[i]]
  <2>1. DOMAIN u = 1 .. Len(u)
    BY <1>2
  <2>2. ASSUME NEW i \in DOMAIN u PROVE at(u, Fold(u[i])) = i
    <3>1. at(u, Fold(u[i])) \in DOMAIN u /\ Fold(u[at(u, Fold(u[i]))]) = Fold(u[i])
      OBVIOUS
    <3> HIDE DEF at
    <3> QED  BY <1>2, <2>1, <3>1 DEF NamesApart
  <2>3. ASSUME NEW i \in DOMAIN u PROVE Fold(u[i]) \in Names(u)
    OBVIOUS
  <2>4. Names(u) = {Fold(u[i]) : i \in 1 .. Len(u)}
    BY <2>1
  <2> HIDE DEF at, Names, Fold
  <2> QED  BY <2>1, <2>2, <2>3, <2>4
<1> HIDE DEF Fun, Names, at
<1>3. /\ DOMAIN Fun(s) = {Fold(s[i]) : i \in 1 .. Len(s)}
      /\ \A i \in 1 .. Len(s) : Fun(s)[Fold(s[i])] = v[s[i]]
  BY <1>2
<1>4. /\ DOMAIN Fun(t) = {Fold(t[j]) : j \in 1 .. Len(t)}
      /\ \A j \in 1 .. Len(t) : Fun(t)[Fold(t[j])] = v[t[j]]
  BY <1>2
<1>5. Fun(s) = [k \in DOMAIN Fun(s) |-> Fun(s)[k]] /\ Fun(t) = [k \in DOMAIN Fun(t) |-> Fun(t)[k]]
  BY DEF Fun
<1> DEFINE There == \A i \in 1 .. Len(s) : \E j \in 1 .. Len(t) :
                        Fold(s[i]) = Fold(t[j]) /\ v[s[i]] = v[t[j]]
           Back == \A j \in 1 .. Len(t) : \E i \in 1 .. Len(s) :
                       Fold(s[i]) = Fold(t[j]) /\ v[s[i]] = v[t[j]]
<1> HIDE DEF s, t, Fold
<1>6. ASSUME Fun(s) = Fun(t) PROVE There /\ Back
  <2>1. ASSUME NEW i \in 1 .. Len(s)
        PROVE  \E j \in 1 .. Len(t) : Fold(s[i]) = Fold(t[j]) /\ v[s[i]] = v[t[j]]
    <3>1. Fold(s[i]) \in DOMAIN Fun(t) /\ Fun(t)[Fold(s[i])] = v[s[i]]
      BY <1>3, <1>6
    <3>2. PICK j \in 1 .. Len(t) : Fold(s[i]) = Fold(t[j])
      BY <1>4, <3>1
    <3>3. Fun(t)[Fold(t[j])] = v[t[j]]
      BY <1>4
    <3> QED  BY <3>1, <3>2, <3>3
  <2>2. ASSUME NEW j \in 1 .. Len(t)
        PROVE  \E i \in 1 .. Len(s) : Fold(s[i]) = Fold(t[j]) /\ v[s[i]] = v[t[j]]
    <3>1. Fold(t[j]) \in DOMAIN Fun(s) /\ Fun(s)[Fold(t[j])] = v[t[j]]
      BY <1>4, <1>6
    <3>2. PICK i \in 1 .. Len(s) : Fold(s[i]) = Fold(t[j])
      BY <1>3, <3>1
    <3>3. Fun(s)[Fold(s[i])] = v[s[i]]
      BY <1>3
    <3> QED  BY <3>1, <3>2, <3>3
  <2> QED  BY <2>1, <2>2
<1>7. ASSUME There, Back PROVE Fun(s) = Fun(t)
  <2>1. DOMAIN Fun(s) = DOMAIN Fun(t)
    BY <1>3, <1>4, <1>7
  <2>2. ASSUME NEW k \in DOMAIN Fun(s) PROVE Fun(s)[k] = Fun(t)[k]
    <3>1. PICK i \in 1 .. Len(s) : k = Fold(s[i])
      BY <1>3
    <3>2. PICK j \in 1 .. Len(t) : Fold(s[i]) = Fold(t[j]) /\ v[s[i]] = v[t[j]]
      BY <1>7
    <3> QED  BY <1>3, <1>4, <3>1, <3>2
  <2> QED  BY <1>5, <2>1, <2>2
<1>8. WorthOf(h, sensitive, v, a) = WorthOf(h, sensitive, v, b) <=> Fun(s) = Fun(t)
  BY <1>1
<1>9. WorthOf(h, sensitive, v, a) = WorthOf(h, sensitive, v, b) <=> There /\ Back
  BY <1>6, <1>7, <1>8
<1>10. EachValued(h, sensitive, v, s, t) <=> There
  BY DEF EachValued, Fold
<1>11. EachValued(h, sensitive, v, t, s) <=> Back
  BY DEF EachValued, Fold
<1> QED  BY <1>9, <1>10, <1>11 DEF s, t

\* Two arrays have the same value when they are as long and have equal elements.
LEMMA ArraysEqual ==
    ASSUME NEW h, NEW D, NEW a, Children(h, a) \in Seq(D),
           NEW b, Children(h, b) \in Seq(D), NEW sensitive,
           h[a].type = "array", h[b].type = "array", NEW v
    PROVE  WorthOf(h, sensitive, v, a) = WorthOf(h, sensitive, v, b) <=>
           SameValued(v, Children(h, a), Children(h, b))
<1> DEFINE s == Children(h, a)
           t == Children(h, b)
           Fun(u) == [i \in DOMAIN u |-> v[u[i]]]
<1>1. WorthOf(h, sensitive, v, a) = WorthOf(h, sensitive, v, b) <=> Fun(s) = Fun(t)
  BY DEF WorthOf
<1>2. DOMAIN s = 1 .. Len(s) /\ DOMAIN t = 1 .. Len(t) /\ Len(s) \in Nat /\ Len(t) \in Nat
  OBVIOUS
<1> HIDE DEF s, t
<1>3. ASSUME Fun(s) = Fun(t)
      PROVE  Len(s) = Len(t) /\ \A i \in 1 .. Len(s) : v[s[i]] = v[t[i]]
  <2>1. DOMAIN s = DOMAIN t
    <3>1. DOMAIN Fun(s) = DOMAIN Fun(t)
      BY <1>3
    <3> QED  BY <3>1
  <2>2. Len(s) = Len(t)
    <3> DEFINE m == Len(s)
               n == Len(t)
    <3>1. m \in Nat /\ n \in Nat /\ \A i : i \in 1 .. m <=> i \in 1 .. n
      BY <1>2, <2>1
    <3> HIDE DEF m, n
    <3>2. ASSUME m < n PROVE FALSE
      <4>1. n \in 1 .. n /\ n \notin 1 .. m
        BY <3>1, <3>2
      <4> QED  BY <3>1, <4>1
    <3>3. ASSUME n < m PROVE FALSE
      <4>1. m \in 1 .. m /\ m \notin 1 .. n
        BY <3>1, <3>3
      <4> QED  BY <3>1, <4>1
    <3> QED  BY <3>1, <3>2, <3>3 DEF m, n
  <2>3. ASSUME NEW i \in 1 .. Len(s) PROVE v[s[i]] = v[t[i]]
    <3>1. Fun(s)[i] = v[s[i]] /\ Fun(t)[i] = v[t[i]]
      BY <1>2, <2>2
    <3> QED  BY <1>3, <3>1
  <2> QED  BY <2>2, <2>3
<1>4. ASSUME Len(s) = Len(t), \A i \in 1 .. Len(s) : v[s[i]] = v[t[i]] PROVE Fun(s) = Fun(t)
  BY <1>2, <1>4
<1> QED  BY <1>1, <1>3, <1>4 DEF SameValued, s, t

\* An item of D that can be compared.
Comparable(h, D, sensitive, a) ==
    /\ a \in D /\ Children(h, a) \in Seq(D)
    /\ h[a].type \in Containers \cup Scalars /\ NamesApart(h, a, sensitive)
\* What f says of two items, or of their children, agrees with the values v.
Agree(f, v, a, b) == f[<<a, b>>] <=> v[a] = v[b]
ChildrenAgree(h, f, v, a, b) ==
    \A i \in 1 .. Len(Children(h, a)), j \in 1 .. Len(Children(h, b)) :
        /\ Agree(f, v, Children(h, a)[i], Children(h, b)[j])
        /\ Agree(f, v, Children(h, b)[j], Children(h, a)[i])

\* Two items are the same to cJSON_Compare when they have the same value, if that is so
\* of their children.
LEMMA SameWorth ==
    ASSUME NamesAssumption, ScalarsAssumption, NEW h, NEW D \in SUBSET Cells, NULL \notin D,
           NEW sensitive \in BOOLEAN, NEW f, Sames(h, sensitive, f), NEW v, Values(h, D, sensitive, v),
           NEW a, Comparable(h, D, sensitive, a), NEW b, Comparable(h, D, sensitive, b),
           ChildrenAgree(h, f, v, a, b)
    PROVE  Agree(f, v, a, b)
<1>0. /\ a \in D /\ Children(h, a) \in Seq(D) /\ NamesApart(h, a, sensitive)
      /\ b \in D /\ Children(h, b) \in Seq(D) /\ NamesApart(h, b, sensitive)
      /\ h[a].type \in Containers \cup Scalars /\ h[b].type \in Containers \cup Scalars
  BY DEF Comparable
<1> DEFINE s == Children(h, a)
           t == Children(h, b)
<1>1. f[<<a, b>>] = SameBy(h, sensitive, f, a, b)
  <2> DEFINE F(pair) == SameBy(h, sensitive, f, pair[1], pair[2])
  <2>1. f = [pair \in Cells \X Cells |-> F(pair)]
    BY DEF Sames
  <2>2. <<a, b>> \in Cells \X Cells
    BY <1>0
  <2> HIDE DEF F
  <2>3. f[<<a, b>>] = F(<<a, b>>)
    BY <2>1, <2>2
  <2> QED  BY <2>3 DEF F
<1>2. v[a] = WorthOf(h, sensitive, v, a) /\ v[b] = WorthOf(h, sensitive, v, b)
  <2> DEFINE F(c) == WorthOf(h, sensitive, v, c)
  <2>1. v = [c \in D |-> F(c)]
    BY DEF Values
  <2> HIDE DEF F
  <2>2. v[a] = F(a) /\ v[b] = F(b)
    BY <1>0, <2>1
  <2> QED  BY <2>2 DEF F
<1> SUFFICES SameBy(h, sensitive, f, a, b) <=>
                 WorthOf(h, sensitive, v, a) = WorthOf(h, sensitive, v, b)
  BY <1>1, <1>2 DEF Agree
<1>3. \A i \in 1 .. Len(s), j \in 1 .. Len(t) :
          (f[<<s[i], t[j]>>] <=> v[s[i]] = v[t[j]]) /\ (f[<<t[j], s[i]>>] <=> v[s[i]] = v[t[j]])
  BY DEF ChildrenAgree, Agree
<1>4. DOMAIN s = 1 .. Len(s)
  BY <1>0
<1>5. h[a].type # "invalid" /\ "array" \notin Scalars /\ "object" \notin Scalars
  BY <1>0 DEF ScalarsAssumption, Containers
<1>6. CASE a = b
  BY <1>5, <1>6 DEF SameBy
<1>7. CASE h[a].type # h[b].type
  <2>1. ~SameBy(h, sensitive, f, a, b)
    BY <1>7 DEF SameBy
  <2>2. WorthOf(h, sensitive, v, a) # WorthOf(h, sensitive, v, b)
    BY <1>0, <1>7 DEF WorthOf, Containers
  <2> QED  BY <2>1, <2>2
<1>8. CASE a # b /\ h[a].type = h[b].type /\ h[a].type \in Scalars
  <2>1. SameBy(h, sensitive, f, a, b)
    BY <1>5, <1>8 DEF SameBy
  <2>2. WorthOf(h, sensitive, v, a) = WorthOf(h, sensitive, v, b)
    BY <1>5, <1>8 DEF WorthOf
  <2> QED  BY <2>1, <2>2
<1>9. CASE a # b /\ h[a].type = h[b].type /\ h[a].type = "array"
  <2>0. h[a].type = "array" /\ h[b].type = "array"
    BY <1>9
  <2>1. WorthOf(h, sensitive, v, a) = WorthOf(h, sensitive, v, b) <=> SameValued(v, s, t)
    BY <1>0, <2>0, ArraysEqual
  <2>2. SameBy(h, sensitive, f, a, b) <=>
            Len(s) = Len(t) /\ \A i \in 1 .. Len(s) : f[<<s[i], t[i]>>]
    BY <1>4, <1>5, <1>9 DEF SameBy
  <2> HIDE DEF s, t
  <2>3. SameBy(h, sensitive, f, a, b) <=> SameValued(v, s, t)
    BY <1>3, <2>2 DEF SameValued
  <2> QED  BY <2>1, <2>3
<1>10. CASE a # b /\ h[a].type = h[b].type /\ h[a].type = "object"
  <2>0. h[a].type = "object" /\ h[b].type = "object"
    BY <1>10
  <2>1. WorthOf(h, sensitive, v, a) = WorthOf(h, sensitive, v, b) <=>
            EachValued(h, sensitive, v, s, t) /\ EachValued(h, sensitive, v, t, s)
    BY <1>0, <2>0, ObjectsEqual
  <2>2. FindsAll(h, sensitive, f, s, b) <=> EachFound(h, sensitive, f, s, t)
    BY <1>0, <2>0, FindsAllIs
  <2>3. FindsAll(h, sensitive, f, t, a) <=> EachFound(h, sensitive, f, t, s)
    BY <1>0, <2>0, FindsAllIs
  <2>4. SameBy(h, sensitive, f, a, b) <=>
            FindsAll(h, sensitive, f, s, b) /\ FindsAll(h, sensitive, f, t, a)
    BY <1>5, <1>10 DEF SameBy
  <2> HIDE DEF s, t
  <2>5. EachFound(h, sensitive, f, s, t) <=> EachValued(h, sensitive, v, s, t)
    BY <1>3 DEF EachFound, EachValued
  <2>6. EachFound(h, sensitive, f, t, s) <=> EachValued(h, sensitive, v, t, s)
    <3>1. \A j \in 1 .. Len(t), i \in 1 .. Len(s) : f[<<t[j], s[i]>>] <=> v[t[j]] = v[s[i]]
      BY <1>3
    <3> QED  BY <3>1 DEF EachFound, EachValued
  <2> QED  BY <2>1, <2>2, <2>3, <2>4, <2>5, <2>6
<1> QED  BY <1>0, <1>6, <1>7, <1>8, <1>9, <1>10 DEF Containers

\* cJSON_Compare is equality of the values of two trees.
LEMMA SameIsEqual ==
    ASSUME NamesAssumption, ScalarsAssumption, NEW h, NEW D \in SUBSET Cells, NULL \notin D,
           Grounded(h, D), NEW sensitive \in BOOLEAN, NEW f, Sames(h, sensitive, f),
           NEW v, Values(h, D, sensitive, v),
           NEW S \in SUBSET D, Within(h, S), NEW T \in SUBSET D, Within(h, T),
           \A c \in S \cup T : Comparable(h, D, sensitive, c)
    PROVE  \A a \in S, b \in T : Agree(f, v, a, b)
<1> DEFINE Wrong(a, b) == ~Agree(f, v, a, b) \/ ~Agree(f, v, b, a)
           B == {a \in S : \E b \in T : Wrong(a, b)}
<1>1. ASSUME NEW a \in S, NEW b \in T, \A x \in B : ~Leads(h, a, x)
      PROVE  Agree(f, v, a, b) /\ Agree(f, v, b, a)
  <2>1. Children(h, a) \in Seq(S) /\ Children(h, b) \in Seq(T)
    BY DEF Within
  <2>2. ASSUME NEW i \in 1 .. Len(Children(h, a)), NEW j \in 1 .. Len(Children(h, b))
        PROVE  /\ Agree(f, v, Children(h, a)[i], Children(h, b)[j])
               /\ Agree(f, v, Children(h, b)[j], Children(h, a)[i])
    <3>1. Children(h, a)[i] \in S /\ Children(h, b)[j] \in T
      BY <2>1
    <3>2. Leads(h, a, Children(h, a)[i])
      BY DEF Leads
    <3> QED  BY <1>1, <3>1, <3>2
  <2>3. ChildrenAgree(h, f, v, a, b) /\ ChildrenAgree(h, f, v, b, a)
    BY <2>2 DEF ChildrenAgree
  <2>4. Comparable(h, D, sensitive, a) /\ Comparable(h, D, sensitive, b)
    OBVIOUS
  <2> QED  BY <2>3, <2>4, SameWorth
<1>2. B = {}
  <2> SUFFICES ASSUME B # {} PROVE FALSE
    OBVIOUS
  <2>1. B \in SUBSET D
    OBVIOUS
  <2> HIDE DEF B
  <2>2. PICK p \in B : \A x \in B : ~Leads(h, p, x)
    BY <2>1 DEF Grounded
  <2>3. p \in S /\ \E b \in T : Wrong(p, b)
    BY <2>2 DEF B
  <2> QED  BY <1>1, <2>2, <2>3
<1> QED  BY <1>2

\* The children of an item, or those that a reference points to, belong to an item of its type.
LEMMA ChildrenBelong ==
    ASSUME CellsAssumption, NEW h, NEW gone, NEW home, NEW fresh, NEW tops, NEW open,
           Sound(h, gone, home, fresh, tops, open), NEW p \in Live(h, gone)
    PROVE  /\ Children(h, p) \in Seq(Live(h, gone))
           /\ h[p].child = NULL => Children(h, p) = <<>>
           /\ h[p].child # NULL =>
                \E q \in Live(h, gone) :
                    /\ Kid(h, q, h[p].child) /\ home[h[p].child] = q /\ Children(h, q) = Children(h, p)
                    /\ h[q].type = h[p].type /\ (q # p => h[p].ref)
                    /\ \A j \in 1 .. Len(Children(h, p)) : home[Children(h, p)[j]] = q
<1> DEFINE s == Children(h, p)
<1>1. /\ h \in [Cells -> Items] /\ p \in Cells /\ NULL \notin Cells /\ Live(h, gone) \subseteq Cells
      /\ HomeInv(h, gone, home)
  BY DEF Sound, Shape, Live, CellsAssumption
<1>2. Lists(h, p, s)
  BY <1>1, ListIsOne
<1> HIDE DEF s
<1>3. s \in Seq(Cells) /\ h[p].child = IF s = <<>> THEN NULL ELSE s[1]
  BY <1>2 DEF Lists, Linked
<1>4. h[p].child = NULL <=> s = <<>>
  BY <1>1, <1>3
<1>5. CASE s = <<>>
  <2>1. <<>> \in Seq(Live(h, gone))
    OBVIOUS
  <2> QED  BY <1>4, <1>5, <2>1 DEF s
<1>6. CASE s # <<>>
  <2>1. PICK q \in Cells : Kid(h, q, h[p].child) /\ h[q].type = h[p].type /\ (q # p => h[p].ref)
    <3>1. CASE h[p].ref
      BY <1>1, <1>4, <1>6, <3>1 DEF Sound, RefsInv
    <3>2. CASE ~h[p].ref
      BY <1>1, <3>2 DEF Kid
    <3> QED  BY <3>1, <3>2
  <2>2. h[p].child \in Cells
    BY <1>1, <1>4, <1>6, FieldTypes DEF Pointers
  <2>3. home[h[p].child] = q /\ q \in Live(h, gone)
    BY <1>1, <2>1, <2>2 DEF HomeInv
  <2>4. h[q].child = h[p].child /\ ~h[q].ref
    BY <2>1 DEF Kid
  <2>5. Children(h, q) = s
    BY <2>4 DEF Children, s
  <2>6. \A j \in 1 .. Len(Children(h, q)) : home[Children(h, q)[j]] = q
    BY <1>1, <2>4, ChildrenAreList
  <2>7. \A j \in 1 .. Len(s) : home[s[j]] = q
    BY <2>5, <2>6
  <2>8. \A j \in 1 .. Len(s) : s[j] \in Live(h, gone)
    BY <1>1, <1>3, <2>3, <2>7 DEF HomeInv
  <2>9. s \in Seq(Live(h, gone))
    BY <1>3, <2>8
  <2> QED  BY <1>4, <1>6, <2>1, <2>3, <2>5, <2>7, <2>9 DEF s
<1> QED  BY <1>5, <1>6

\* Items that keep their own lists keep the children that their references lead to.
LEMMA ListsStay ==
    ASSUME CellsAssumption, NEW h, NEW gone, NEW home, NEW fresh, NEW tops, NEW open,
           Sound(h, gone, home, fresh, tops, open),
           NEW g, NEW away, NEW house, NEW others, NEW hands, NEW wide,
           Sound(g, away, house, others, hands, wide),
           NEW S \in SUBSET Live(h, gone),
           \A c \in S : /\ g[c].ref = h[c].ref /\ Kids(g, c) = Kids(h, c)
                        /\ h[c].ref => /\ g[c].child = h[c].child
                                       /\ h[c].child # NULL => home[h[c].child] \in S
    PROVE  \A c \in S : Children(g, c) = Children(h, c)
<1>1. ASSUME NEW c \in S, ~h[c].ref PROVE Children(g, c) = Children(h, c) /\ g[c].child = h[c].child
  <2>1. c \in Cells /\ Children(g, c) = Children(h, c)
    BY <1>1 DEF Kids, Live
  <2>2. Lists(h, c, Children(h, c)) /\ Lists(g, c, Children(g, c))
    BY <2>1, ListIsOne
  <2> QED  BY <2>1, <2>2 DEF Lists
<1>2. ASSUME NEW c \in S, h[c].ref, h[c].child # NULL PROVE Children(g, c) = Children(h, c)
  <2>1. PICK q \in Live(h, gone) : /\ Kid(h, q, h[c].child) /\ home[h[c].child] = q
                                   /\ Children(h, q) = Children(h, c)
    BY <1>2, ChildrenBelong
  <2>2. q \in S /\ ~h[q].ref /\ h[q].child = h[c].child /\ g[c].child = h[c].child
    BY <1>2, <2>1 DEF Kid
  <2>3. Children(g, q) = Children(h, q) /\ g[q].child = h[q].child
    BY <1>1, <2>2
  <2>4. Children(g, c) = Children(g, q)
    BY <2>2, <2>3 DEF Children
  <2> QED  BY <2>1, <2>3, <2>4
<1>3. ASSUME NEW c \in S, h[c].ref, h[c].child = NULL PROVE Children(g, c) = Children(h, c)
  <2>1. Chain(h, NULL) = <<>> /\ Chain(g, NULL) = <<>>
    BY ChainIsList
  <2> QED  BY <1>3, <2>1 DEF Children
<1> QED  BY <1>1, <1>2, <1>3

-----------------------------------------------------------------------------
(* Nothing leads back to itself, whatever the calls do.                      *)

\* Fewer children
LEMMA GroundedWithLess ==
    ASSUME NEW h, NEW D, Grounded(h, D), NEW g, NEW E, E \subseteq D,
           \A c \in E : \A x : Leads(g, c, x) => Leads(h, c, x)
    PROVE  Grounded(g, E)
<1> SUFFICES ASSUME NEW W \in SUBSET E, W # {} PROVE \E p \in W : \A x \in W : ~Leads(g, p, x)
  BY DEF Grounded
<1>1. PICK p \in W : \A x \in W : ~Leads(h, p, x)
  BY DEF Grounded
<1> QED  BY <1>1

\* p gets the child x, which does not lead to p.
LEMMA GroundedWithMore ==
    ASSUME NEW h, NEW D, Grounded(h, D), NEW g, NEW p, NEW x, NEW R, x \in R, p \notin R,
           \A c \in D : c # p => \A y : Leads(g, c, y) => Leads(h, c, y),
           \A y : Leads(g, p, y) => Leads(h, p, y) \/ y = x,
           \A c \in D : \A y : c \in R /\ Leads(h, c, y) => y \in R
    PROVE  Grounded(g, D)
<1> SUFFICES ASSUME NEW W \in SUBSET D, W # {} PROVE \E c \in W : \A y \in W : ~Leads(g, c, y)
  BY DEF Grounded
<1>1. CASE W \cap R # {}
  <2>1. PICK c \in W \cap R : \A y \in W \cap R : ~Leads(h, c, y)
    <3> DEFINE V == W \cap R
    <3>1. V \in SUBSET D /\ V # {}
      BY <1>1
    <3> HIDE DEF V
    <3>2. \E c \in V : \A y \in V : ~Leads(h, c, y)
      BY <3>1 DEF Grounded
    <3> QED  BY <3>2 DEF V
  <2>2. c \in D /\ c \in R /\ c # p
    OBVIOUS
  <2>3. \A y \in W : ~Leads(g, c, y)
    BY <2>1, <2>2
  <2> QED  BY <2>3
<1>2. CASE W \cap R = {}
  <2>1. PICK c \in W : \A y \in W : ~Leads(h, c, y)
    BY DEF Grounded
  <2>2. \A y \in W : ~Leads(g, c, y)
    BY <1>2, <2>1
  <2> QED  BY <2>2
<1> QED  BY <1>1, <1>2

\* A new item that nothing leads to
LEMMA GroundedWithNew ==
    ASSUME NEW h, NEW D, Grounded(h, D), NEW g, NEW n,
           \A c \in D : \A y : Leads(g, c, y) => Leads(h, c, y),
           \A c \in D \cup {n} : ~Leads(g, c, n)
    PROVE  Grounded(g, D \cup {n})
<1> SUFFICES ASSUME NEW W \in SUBSET (D \cup {n}), W # {} PROVE \E c \in W : \A y \in W : ~Leads(g, c, y)
  BY DEF Grounded
<1>1. CASE W = {n}
  BY <1>1
<1>2. CASE W # {n}
  <2> DEFINE V == W \ {n}
  <2>1. V \in SUBSET D /\ V # {}
    BY <1>2
  <2> HIDE DEF V
  <2>2. PICK c \in V : \A y \in V : ~Leads(h, c, y)
    BY <2>1 DEF Grounded
  <2>3. c \in W /\ c \in D
    BY <2>1 DEF V
  <2>4. \A y \in W : ~Leads(g, c, y)
    BY <2>1, <2>2, <2>3 DEF V
  <2> QED  BY <2>3, <2>4
<1> QED  BY <1>1, <1>2

\* What is closed, through references too, has the children of its items.
LEMMA ClosedHasChildren ==
    ASSUME CellsAssumption, NEW h, NEW gone, NEW home, NEW fresh, NEW tops, NEW open,
           Sound(h, gone, home, fresh, tops, open), NEW R \in SUBSET Cells, ClosedAs(h, R, TRUE),
           NEW c \in Live(h, gone), c \in R, open = {}, NEW y, Leads(h, c, y)
    PROVE  y \in R
<1>1. h[c].child # NULL
  BY ChildrenBelong DEF Leads
<1>2. PICK q \in Live(h, gone) : /\ Kid(h, q, h[c].child) /\ home[h[c].child] = q
                                 /\ \A j \in 1 .. Len(Children(h, c)) : home[Children(h, c)[j]] = q
  BY <1>1, ChildrenBelong
<1> DEFINE N == {z \in Cells : home[z] = q /\ z \notin R}
<1>3. /\ q # NULL /\ q \in Cells /\ h \in [Cells -> Items] /\ tops \subseteq Cells /\ NULL \notin Cells
      /\ h[c].child \in R
  BY <1>1 DEF CellsAssumption, Sound, Shape, Live, ClosedAs
<1>4. \A z \in N : z \notin tops
  BY <1>3 DEF TopsInv, Sound
<1>5. ASSUME NEW z \in N, NEW w \in Cells, Owns(h, w, z) PROVE w \in N
  <2>1. CASE h[w].next = z
    BY <1>3, <2>1 DEF HomeInv, ClosedAs, Sound
  <2>2. CASE Kid(h, w, z)
    <3>1. w = q
      BY <2>2 DEF HomeInv, Sound
    <3> QED  BY <1>2, <1>3, <2>2, <3>1 DEF Kid
  <2> QED  BY <1>5, <2>1, <2>2 DEF Owns
<1>6. \A z \in N : z \notin Live(h, gone)
  <2> HIDE DEF N
  <2>1. N \in SUBSET Cells /\ Founded(h, gone, tops)
    BY DEF N, Sound
  <2> QED  BY <1>3, <1>4, <1>5, <2>1, Backward
<1>7. home[y] = q /\ y \in Live(h, gone)
  BY <1>2, ChildrenBelong DEF Leads
<1>8. y \in Cells
  BY <1>7 DEF Live
<1> QED  BY <1>6, <1>7, <1>8

\* Items without references that have children do not go in a circle.
LEMMA ForestIsGrounded ==
    ASSUME CellsAssumption, NEW h, NEW gone, NEW home, NEW fresh, NEW tops, NEW open,
           Sound(h, gone, home, fresh, tops, open), open = {},
           NEW W \in SUBSET Live(h, gone), W # {}, \A p \in W : h[p].ref => h[p].child = NULL
    PROVE  \E p \in W : \A x \in W : ~Leads(h, p, x)
<1> SUFFICES ASSUME \A p \in W : \E x \in W : Leads(h, p, x) PROVE FALSE
  OBVIOUS
<1>1. /\ h \in [Cells -> Items] /\ tops \subseteq Cells /\ NULL \notin Cells /\ W \in SUBSET Cells
      /\ IsFiniteSet(W) /\ HomeInv(h, gone, home) /\ Founded(h, gone, tops)
  BY FS_Subset DEF Sound, Shape, Live, CellsAssumption
<1>2. ASSUME NEW p \in W, NEW x \in W, Leads(h, p, x) PROVE home[x] = p
  <2>0. p \in Live(h, gone)
    OBVIOUS
  <2>1. h[p].child # NULL
    <3>1. Children(h, p) # <<>>
      BY <1>2 DEF Leads
    <3> QED  BY <2>0, <3>1, ChildrenBelong
  <2>2. ~h[p].ref /\ p \in Cells
    BY <1>1, <1>2, <2>1
  <2>3. \A j \in 1 .. Len(Children(h, p)) : home[Children(h, p)[j]] = p
    BY <2>2, ChildrenAreList
  <2> QED  BY <1>2, <2>3 DEF Leads
<1> DEFINE k == [p \in W |-> CHOOSE x \in W : Leads(h, p, x)]
<1>3. \A p \in W : k[p] \in W /\ home[k[p]] = p
  <2>1. \A p \in W : k[p] \in W /\ Leads(h, p, k[p])
    OBVIOUS
  <2> HIDE DEF k
  <2> QED  BY <1>2, <2>1
<1>4. k \in [W -> W]
  OBVIOUS
<1> HIDE DEF k
<1>5. ASSUME NEW z \in W PROVE home[z] \in W
  <2> SUFFICES ASSUME home[z] \notin W PROVE FALSE
    OBVIOUS
  <2> DEFINE M == W \ {z}
  <2>1. IsFiniteSet(M) /\ Cardinality(M) = Cardinality(W) - 1 /\ Cardinality(W) \in Nat
    BY <1>1, FS_RemoveElement, FS_CardinalityType
  <2>2. k \in [W -> M]
    BY <1>3, <1>4
  <2>3. \A x, y \in W : k[x] = k[y] => x = y
    BY <1>3
  <2> HIDE DEF M
  <2>4. Cardinality(M) < Cardinality(W)
    BY <2>1
  <2> QED  BY <1>1, <2>1, <2>2, <2>3, <2>4, FS_PigeonHole
<1> DEFINE N == {y \in Cells : home[y] \in W}
<1>6. W \subseteq N
  BY <1>1, <1>5
<1>7. \A y \in N : y \notin tops
  BY <1>1 DEF TopsInv, Sound
<1>8. \A y \in N, z \in Cells : Owns(h, z, y) => z \in N
  BY <1>1, <1>5 DEF Owns, HomeInv
<1>9. \A y \in N : y \notin Live(h, gone)
  <2> HIDE DEF N
  <2>1. N \in SUBSET Cells
    BY DEF N
  <2> QED  BY <1>1, <1>7, <1>8, <2>1, Backward
<1> QED  BY <1>6, <1>9

\* The live items of a heap do not lead back to themselves, and all of them have a type.
Fine(h, gone) == Grounded(h, Live(h, gone)) /\ \A c \in Cells : h[c].type # "invalid"

\* The children of all items, when the list of p is now t and no reference leads to it.
LEMMA RelistedChildren ==
    ASSUME CellsAssumption, NEW h, NEW gone, NEW home, NEW hand, Ready(h, gone, home, hand),
           NEW g, NEW house, NEW hands, Ready(g, gone, house, hands),
           NEW p \in Live(h, gone), ~h[p].ref, NEW t, Relists(h, home, g, p, t),
           h[p].child # NULL => Unreferenced(h, gone, h[p].child)
    PROVE  /\ Live(g, gone) = Live(h, gone) /\ \A c \in Cells : g[c].type = h[c].type
           /\ Children(g, p) = t /\ \A c \in Live(h, gone) : c # p => Children(g, c) = Children(h, c)
<1> DEFINE none == {}
           S == Live(h, gone) \ {p}
<1>1. /\ Sound(h, gone, home, none, hand, none) /\ Sound(g, gone, house, none, hands, none)
      /\ Live(h, gone) \subseteq Cells
  BY ReadyFacts
<1> HIDE DEF none
<1>2. /\ Family(g, gone) = [Family(h, gone) EXCEPT ![p] = t]
      /\ Live(g, gone) = Live(h, gone)
  BY FamilyRelisted
<1>3. /\ Lists(g, p, t)
      /\ \A c \in Cells : g[c].type = h[c].type /\ g[c].ref = h[c].ref /\ (c # p => g[c].child = h[c].child)
  BY DEF Relists, Elsewhere
<1>4. p \in Cells /\ Children(g, p) = t
  BY <1>1, <1>3, ListIsOne
<1>5. ASSUME NEW c \in S PROVE Kids(g, c) = Kids(h, c)
  <2>1. Family(g, gone)[c] = Family(h, gone)[c]
    BY <1>2 DEF Family
  <2> QED  BY <1>2, <2>1 DEF Family
<1>6. ASSUME NEW c \in S, h[c].ref, h[c].child # NULL PROVE home[h[c].child] \in S
  <2>1. PICK q \in Live(h, gone) : Kid(h, q, h[c].child) /\ home[h[c].child] = q
    BY <1>1, <1>6, ChildrenBelong
  <2>2. q # p
    BY <1>6, <2>1 DEF Kid, Unreferenced
  <2> QED  BY <2>1, <2>2
<1>7. \A c \in S : c \in Cells /\ c # p
  BY <1>1
<1>8. S \in SUBSET Live(h, gone)
  OBVIOUS
<1> HIDE DEF S
<1>9. \A c \in S : Children(g, c) = Children(h, c)
  BY <1>1, <1>3, <1>5, <1>6, <1>7, <1>8, ListsStay
<1> QED  BY <1>2, <1>3, <1>4, <1>9 DEF S

\* An item is put into the list of p, which it does not lead to.
LEMMA FineWhenPut ==
    ASSUME CellsAssumption, NEW h, NEW gone, NEW home, NEW hand, Ready(h, gone, home, hand),
           NEW g, NEW house, NEW hands, Ready(g, gone, house, hands), Fine(h, gone),
           NEW p \in Live(h, gone), ~h[p].ref, NEW x \in Cells,
           NEW i \in 1 .. Len(Children(h, p)) + 1,
           Relists(h, home, g, p, Forest!InsertAt(Children(h, p), i, x)),
           h[p].child # NULL => Unreferenced(h, gone, h[p].child),
           NEW R \in SUBSET Cells, ClosedAs(h, R, TRUE), x \in R, p \notin R
    PROVE  Fine(g, gone)
<1> DEFINE none == {}
           s == Children(h, p)
           t == Forest!InsertAt(s, i, x)
<1>1. Sound(h, gone, home, none, hand, none) /\ none = {} /\ Live(h, gone) \subseteq Cells
  BY ReadyFacts
<1> HIDE DEF none
<1>2. /\ Live(g, gone) = Live(h, gone) /\ \A c \in Cells : g[c].type = h[c].type
      /\ Children(g, p) = t /\ \A c \in Live(h, gone) : c # p => Children(g, c) = Children(h, c)
  BY RelistedChildren
<1>3. s \in Seq(Cells)
  BY <1>1, ChildrenBelong
<1>4. /\ Len(t) = Len(s) + 1
      /\ \A j \in 1 .. Len(s) + 1 : t[j] = IF j < i THEN s[j] ELSE IF j = i THEN x ELSE s[j - 1]
  <2>1. Inserted(Cells, s, i, x, t)
    BY <1>3, InsertFacts
  <2> QED  BY <1>3, <2>1 DEF Inserted
<1>5. Len(s) \in Nat
  BY <1>3
<1> HIDE DEF s, t
<1>6. \A y : Leads(g, p, y) => Leads(h, p, y) \/ y = x
  <2> SUFFICES ASSUME NEW y, Leads(g, p, y), y # x PROVE \E j \in 1 .. Len(s) : s[j] = y
    BY DEF Leads, s
  <2>1. PICK j \in 1 .. Len(t) : t[j] = y
    BY <1>2 DEF Leads
  <2>2. CASE j < i
    <3>1. j \in 1 .. Len(s) /\ t[j] = s[j]
      BY <1>4, <1>5, <2>2 DEF s
    <3> QED  BY <2>1, <3>1
  <2>3. CASE j > i
    <3>1. j - 1 \in 1 .. Len(s) /\ t[j] = s[j - 1]
      BY <1>4, <1>5, <2>3 DEF s
    <3> QED  BY <2>1, <3>1
  <2>4. CASE j = i
    BY <1>4, <1>5, <2>1, <2>4
  <2> QED  BY <1>4, <1>5, <2>2, <2>3, <2>4 DEF s
<1>7. \A c \in Live(h, gone) : c # p => \A y : Leads(g, c, y) => Leads(h, c, y)
  BY <1>2 DEF Leads
<1>8. \A c \in Live(h, gone) : \A y : c \in R /\ Leads(h, c, y) => y \in R
  BY <1>1, ClosedHasChildren
<1>9. Grounded(h, Live(h, gone)) /\ \A c \in Cells : h[c].type # "invalid"
  BY DEF Fine
<1>10. Grounded(g, Live(h, gone))
  BY <1>6, <1>7, <1>8, <1>9, GroundedWithMore
<1> QED  BY <1>2, <1>9, <1>10 DEF Fine

\* An item is taken out of the list of p.
LEMMA FineWhenTaken ==
    ASSUME CellsAssumption, NEW h, NEW gone, NEW home, NEW hand, Ready(h, gone, home, hand),
           NEW g, NEW house, NEW hands, Ready(g, gone, house, hands), Fine(h, gone),
           NEW p \in Live(h, gone), ~h[p].ref, NEW i \in 1 .. Len(Children(h, p)),
           Relists(h, home, g, p, Forest!RemoveAt(Children(h, p), i)),
           h[p].child # NULL => Unreferenced(h, gone, h[p].child)
    PROVE  Fine(g, gone)
<1> DEFINE none == {}
           s == Children(h, p)
           t == Forest!RemoveAt(s, i)
<1>1. Sound(h, gone, home, none, hand, none)
  BY ReadyFacts
<1> HIDE DEF none
<1>2. /\ Live(g, gone) = Live(h, gone) /\ \A c \in Cells : g[c].type = h[c].type
      /\ Children(g, p) = t /\ \A c \in Live(h, gone) : c # p => Children(g, c) = Children(h, c)
  BY RelistedChildren
<1>3. s \in Seq(Live(h, gone))
  BY <1>1, ChildrenBelong
<1>4. Len(t) = Len(s) - 1 /\ \A j \in 1 .. Len(s) - 1 : t[j] = IF j < i THEN s[j] ELSE s[j + 1]
  <2>1. Removed(Live(h, gone), s, i, t)
    BY <1>3, RemoveFacts
  <2> QED  BY <1>3, <2>1 DEF Removed
<1>5. Len(s) \in Nat
  BY <1>3
<1> HIDE DEF s, t
<1>6. \A y : Leads(g, p, y) => Leads(h, p, y)
  <2> SUFFICES ASSUME NEW y, Leads(g, p, y) PROVE \E j \in 1 .. Len(s) : s[j] = y
    BY DEF Leads, s
  <2>1. PICK j \in 1 .. Len(t) : t[j] = y
    BY <1>2 DEF Leads
  <2>2. j \in 1 .. Len(s) /\ j + 1 \in 1 .. Len(s) /\ j \in 1 .. Len(s) - 1
    BY <1>4, <1>5
  <2>3. t[j] = s[j] \/ t[j] = s[j + 1]
    BY <1>4, <2>2
  <2> QED  BY <2>1, <2>2, <2>3
<1>7. \A c \in Live(h, gone) : \A y : Leads(g, c, y) => Leads(h, c, y)
  BY <1>2, <1>6 DEF Leads
<1>8. Grounded(h, Live(h, gone)) /\ \A c \in Cells : h[c].type # "invalid"
  BY DEF Fine
<1>9. Grounded(g, Live(h, gone))
  BY <1>7, <1>8, GroundedWithLess
<1> QED  BY <1>2, <1>8, <1>9 DEF Fine

\* Only names change, and the last items that first ones know.
LEMMA FineStays ==
    ASSUME CellsAssumption, NEW h, NEW gone, NEW home, NEW hand, Ready(h, gone, home, hand),
           NEW g, NEW house, NEW hands, Ready(g, gone, house, hands), Fine(h, gone),
           \A c \in Cells : /\ g[c].type = h[c].type /\ g[c].ref = h[c].ref
                            /\ g[c].child = h[c].child /\ g[c].next = h[c].next
    PROVE  Fine(g, gone)
<1> DEFINE none == {}
           S == Live(h, gone)
<1>1. /\ Sound(h, gone, home, none, hand, none) /\ Sound(g, gone, house, none, hands, none)
      /\ S \subseteq Cells
  BY ReadyFacts
<1> HIDE DEF none
<1>2. Family(g, gone) = Family(h, gone) /\ Live(g, gone) = S
  BY FamilyStays
<1>3. ASSUME NEW c \in S PROVE Kids(g, c) = Kids(h, c)
  <2>1. Family(g, gone)[c] = Family(h, gone)[c]
    BY <1>2
  <2> QED  BY <1>2, <2>1 DEF Family
<1>4. ASSUME NEW c \in S, h[c].child # NULL PROVE home[h[c].child] \in S
  BY <1>1, <1>4, ChildrenBelong
<1>5. S \in SUBSET Live(h, gone) /\ \A c \in S : c \in Cells
  BY <1>1
<1>6. Grounded(h, S) /\ \A c \in Cells : h[c].type # "invalid"
  BY DEF Fine
<1> HIDE DEF S
<1>7. \A c \in S : Children(g, c) = Children(h, c)
  BY <1>1, <1>3, <1>4, <1>5, ListsStay
<1>8. Grounded(g, S)
  <2>1. \A c \in S : \A y : Leads(g, c, y) => Leads(h, c, y)
    BY <1>7 DEF Leads
  <2> QED  BY <1>6, <2>1, GroundedWithLess
<1> QED  BY <1>2, <1>6, <1>8 DEF Fine

\* The children of what was there before n is allocated.
LEMMA NewLeavesChildren ==
    ASSUME CellsAssumption, NEW h, NEW gone, NEW home, NEW hand, Ready(h, gone, home, hand),
           NEW n \in Cells, n \notin Live(h, gone), NEW g, \A c \in Cells : c # n => g[c] = h[c],
           NEW away, NEW house, NEW hands, Ready(g, away, house, hands)
    PROVE  \A c \in Live(h, gone) :
               Children(g, c) = Children(h, c) /\ Children(h, c) \in Seq(Live(h, gone))
<1> DEFINE none == {}
<1>1. /\ Sound(h, gone, home, none, hand, none) /\ Sound(g, away, house, none, hands, none)
      /\ Live(h, gone) \subseteq Cells
  BY ReadyFacts
<1> HIDE DEF none
<1>2. ASSUME NEW c \in Live(h, gone) PROVE Children(g, c) = Children(h, c) /\ Children(h, c) \in Seq(Live(h, gone))
  <2>1. Children(h, c) \in Seq(Live(h, gone))
    BY <1>1, ChildrenBelong
  <2>2. c \in Cells /\ c # n /\ g[c].child = h[c].child
    BY <1>1
  <2>3. \A j \in 1 .. Len(Children(h, c)) : Children(h, c)[j] \in Cells /\ Children(h, c)[j] # n
    BY <1>1, <2>1
  <2>4. \A j \in 1 .. Len(Children(h, c)) : g[Children(h, c)[j]].next = h[Children(h, c)[j]].next
    BY <2>3
  <2>5. Children(g, c) = Children(h, c)
    BY <1>1, <2>2, <2>4, ChildrenStay
  <2> QED  BY <2>1, <2>5
<1> QED  BY <1>2

\* A new item, without children or a reference to those of another one
LEMMA FineWithNew ==
    ASSUME CellsAssumption, NEW h, NEW gone, NEW home, NEW hand, Ready(h, gone, home, hand),
           NEW n \in Cells, h[n].type = "free", NEW r \in Items, r.type # "free", r.type # "invalid",
           r.child = NULL \/ r.ref, NEW g, g[n] = r, \A c \in Cells : c # n => g[c] = h[c],
           NEW house, NEW hands, Ready(g, gone, house, hands), n \notin gone, Fine(h, gone)
    PROVE  Fine(g, gone)
<1> DEFINE none == {}
           D == Live(h, gone)
<1>1. Sound(g, gone, house, none, hands, none) /\ Live(h, gone) \subseteq Cells
  BY ReadyFacts
<1> HIDE DEF none
<1>2. Live(g, gone) = D \cup {n} /\ n \notin D
  BY <1>1 DEF Live
<1>3. \A c \in D : Children(g, c) = Children(h, c) /\ Children(h, c) \in Seq(D)
  BY <1>2, NewLeavesChildren
<1>4. Children(g, n) \in Seq(D)
  <2>1. n \in Live(g, gone)
    BY <1>2
  <2>2. CASE r.child = NULL
    <3>1. Children(g, n) = <<>>
      BY <1>1, <2>1, <2>2, ChildrenBelong
    <3>2. <<>> \in Seq(D)
      OBVIOUS
    <3> QED  BY <3>1, <3>2
  <2>3. CASE r.child # NULL
    <3>1. PICK q \in Live(g, gone) : Kid(g, q, g[n].child) /\ Children(g, q) = Children(g, n)
      BY <1>1, <2>1, <2>3, ChildrenBelong
    <3>2. q # n
      BY <2>3, <3>1 DEF Kid
    <3> HIDE DEF D
    <3>3. q \in D
      BY <1>2, <3>1, <3>2
    <3> QED  BY <1>3, <3>1, <3>3
  <2> QED  BY <2>2, <2>3
<1>5. Grounded(h, D) /\ \A c \in Cells : h[c].type # "invalid"
  BY DEF Fine
<1> HIDE DEF D
<1>6. \A c \in D : \A y : Leads(g, c, y) => Leads(h, c, y)
  BY <1>3 DEF Leads
<1>7. \A c \in D \cup {n} : ~Leads(g, c, n)
  <2>1. \A c \in D \cup {n} : Children(g, c) \in Seq(D)
    BY <1>3, <1>4
  <2>2. ASSUME NEW c \in D \cup {n} PROVE ~Leads(g, c, n)
    <3>1. \A j \in 1 .. Len(Children(g, c)) : Children(g, c)[j] \in D
      BY <2>1
    <3> QED  BY <1>2, <3>1 DEF Leads
  <2> QED  BY <2>2
<1>8. Grounded(g, D \cup {n})
  BY <1>5, <1>6, <1>7, GroundedWithNew
<1>9. \A c \in Cells : g[c].type # "invalid"
  BY <1>5
<1> QED  BY <1>2, <1>8, <1>9 DEF Fine

\* A reference that is made and forgotten
LEMMA FineWithLost ==
    ASSUME CellsAssumption, NEW h, NEW gone, NEW home, NEW hand, Ready(h, gone, home, hand),
           NEW n \in Cells, h[n].type = "free", NEW g, \A c \in Cells : c # n => g[c] = h[c],
           g[n].type # "invalid",
           NEW house, NEW hands, Ready(g, gone \cup {n}, house, hands), Fine(h, gone)
    PROVE  Fine(g, gone \cup {n})
<1> DEFINE D == Live(h, gone)
           away == gone \cup {n}
<1>1. n \notin D /\ Live(g, away) = D
  BY DEF Live
<1>2. \A c \in D : Children(g, c) = Children(h, c)
  <2> HIDE DEF away
  <2>1. Ready(g, away, house, hands)
    BY DEF away
  <2> QED  BY <1>1, <2>1, NewLeavesChildren
<1>3. Grounded(h, D) /\ \A c \in Cells : h[c].type # "invalid"
  BY DEF Fine
<1> HIDE DEF D
<1>4. Grounded(g, D)
  <2>1. \A c \in D : \A y : Leads(g, c, y) => Leads(h, c, y)
    BY <1>2 DEF Leads
  <2> QED  BY <1>3, <2>1, GroundedWithLess
<1> QED  BY <1>1, <1>3, <1>4 DEF Fine

\* A tree is deleted that no reference outside leads to.
LEMMA FineWhenDeleted ==
    ASSUME CellsAssumption, NEW h, NEW gone, NEW home, NEW hand, Ready(h, gone, home, hand),
           NEW x \in hand, NEW house, NEW hands, Ready(Delete(h, x), gone, house, hands),
           Alone(h, gone, x), Fine(h, gone)
    PROVE  Fine(Delete(h, x), gone)
<1> DEFINE none == {}
           g == Delete(h, x)
           F == Freed(h, x)
           D == Live(h, gone) \ F
<1>1. /\ Sound(h, gone, home, none, hand, none) /\ Sound(g, gone, house, none, hands, none)
      /\ Live(h, gone) \subseteq Cells /\ h \in [Cells -> Items] /\ HomeInv(h, gone, home)
      /\ NULL \notin Cells /\ home[x] = NULL /\ x \in Cells
  BY ReadyFacts DEF Sound
<1>2. \A c \in Cells : g[c] = IF c \in F THEN Unused ELSE h[c]
  BY DEF Delete, Freed
<1>3. Live(g, gone) = D
  BY FamilyWhenDeleted
<1>4. Closed(h, F)
  BY <1>1, FreshIsClosed
<1> HIDE DEF none, g, F
<1>5. ASSUME NEW c \in D PROVE Children(g, c) = Children(h, c)
  <2> DEFINE s == Children(h, c)
  <2>1. c \in Cells /\ c \notin F /\ c \in Live(h, gone) /\ g[c].child = h[c].child
    BY <1>1, <1>2
  <2>2. ASSUME NEW j \in 1 .. Len(s) PROVE g[s[j]].next = h[s[j]].next
    <3>1. h[c].child # NULL
      <4>1. s # <<>>
        OBVIOUS
      <4> QED  BY <1>1, <2>1, <4>1, ChildrenBelong
    <3>0. Sound(h, gone, home, none, hand, none) /\ c \in Live(h, gone)
      BY <1>1, <2>1
    <3>2. PICK q \in Live(h, gone) :
              /\ Kid(h, q, h[c].child) /\ (q # c => h[c].ref)
              /\ \A i \in 1 .. Len(Children(h, c)) : home[Children(h, c)[i]] = q
      BY <3>0, <3>1, ChildrenBelong
    <3>3. s \in Seq(Live(h, gone))
      BY <1>1, <2>1, ChildrenBelong
    <3>4. home[s[j]] = q /\ s[j] \in Live(h, gone)
      BY <3>2, <3>3
    <3>5. q \notin F
      <4>1. CASE q = c
        BY <2>1, <4>1
      <4>2. CASE q # c
        <5>1. h[c].child \notin F /\ h[q].child = h[c].child /\ ~h[q].ref
          BY <2>1, <3>2, <4>2 DEF F, Kid, Alone
        <5> QED  BY <1>4, <3>1, <5>1 DEF Closed
      <4> QED  BY <4>1, <4>2
    <3> HIDE DEF s
    <3>6. home[x] # q
      BY <1>1, <3>2
    <3>7. s[j] \notin F
      BY <1>1, <3>4, <3>5, <3>6, ListStaysOut DEF F
    <3> QED  BY <1>1, <1>2, <3>4, <3>7
  <2>3. Children(g, c) = s
    BY <1>1, <2>1, <2>2, ChildrenStay
  <2> QED  BY <2>3
<1>6. Grounded(h, Live(h, gone)) /\ \A c \in Cells : h[c].type # "invalid"
  BY DEF Fine
<1>7. \A c \in D : \A y : Leads(g, c, y) => Leads(h, c, y)
  BY <1>5 DEF Leads
<1>8. Grounded(g, D)
  <2>1. D \subseteq Live(h, gone)
    OBVIOUS
  <2> HIDE DEF D
  <2> QED  BY <1>6, <1>7, <2>1, GroundedWithLess
<1>9. \A c \in Cells : g[c].type # "invalid"
  BY <1>2, <1>6 DEF Unused, Blank
<1> QED  BY <1>3, <1>8, <1>9 DEF Fine, g
-----------------------------------------------------------------------------
(* What an operation does to a list.                                         *)

\* Sequences with the same items are the same.
LEMMA SameSequence ==
    ASSUME NEW S, NEW s \in Seq(S), NEW t \in Seq(S), Len(s) = Len(t),
           \A j \in 1 .. Len(s) : s[j] = t[j]
    PROVE  s = t
  OBVIOUS

\* Inserting behind the last item is appending.
LEMMA InsertAtEnd ==
    ASSUME NEW S, NEW s \in Seq(S), NEW x \in S
    PROVE  Forest!InsertAt(s, Len(s) + 1, x) = Append(s, x)
<1> DEFINE i == Len(s) + 1
           a == Forest!InsertAt(s, i, x)
           b == Append(s, x)
<1>0. i = Len(s) + 1
  OBVIOUS
<1>1. i \in 1 .. Len(s) + 1 /\ Len(s) \in Nat
  OBVIOUS
<1> HIDE DEF i
<1>2. /\ a \in Seq(S) /\ Len(a) = Len(s) + 1
      /\ \A j \in 1 .. Len(s) + 1 : a[j] = IF j < i THEN s[j] ELSE IF j = i THEN x ELSE s[j - 1]
  <2>1. Inserted(S, s, i, x, a)
    BY <1>1, InsertFacts
  <2> QED  BY <1>1, <2>1 DEF Inserted
<1>3. b \in Seq(S) /\ Len(b) = Len(s) + 1 /\ b[Len(s) + 1] = x
      /\ \A j \in 1 .. Len(s) : b[j] = s[j]
  BY AppendProperties
<1> HIDE DEF a, b
<1>4. \A j \in 1 .. Len(a) : a[j] = b[j]
  <2> SUFFICES ASSUME NEW j \in 1 .. Len(s) + 1 PROVE a[j] = b[j]
    BY <1>2
  <2>1. CASE j = i
    BY <1>0, <1>1, <1>2, <1>3, <2>1
  <2>2. CASE j # i
    <3>1. j \in 1 .. Len(s) /\ j < i
      BY <1>0, <1>1, <2>2
    <3> QED  BY <1>2, <1>3, <3>1
  <2> QED  BY <2>1, <2>2
<1>5. a = b
  BY <1>2, <1>3, <1>4, SameSequence
<1> QED  BY <1>5 DEF a, b, i

\* Inserting an item before another one, and removing that, is replacing it.
LEMMA InsertThenRemove ==
    ASSUME NEW S, NEW s \in Seq(S), NEW x \in S, NEW i \in 1 .. Len(s)
    PROVE  /\ i + 1 \in 1 .. Len(Forest!InsertAt(s, i, x)) /\ Forest!InsertAt(s, i, x)[i + 1] = s[i]
           /\ Forest!RemoveAt(Forest!InsertAt(s, i, x), i + 1) = [s EXCEPT ![i] = x]
<1> DEFINE a == Forest!InsertAt(s, i, x)
           b == Forest!RemoveAt(a, i + 1)
           c == [s EXCEPT ![i] = x]
<1>1. Len(s) \in Nat /\ i \in Nat /\ i \in 1 .. Len(s) + 1 /\ i + 1 \in 1 .. Len(s) + 1
  OBVIOUS
<1>2. /\ a \in Seq(S) /\ Len(a) = Len(s) + 1
      /\ \A j \in 1 .. Len(s) + 1 :
             a[j] = IF j < i THEN s[j] ELSE IF j = i THEN x ELSE s[j - 1]
  <2>1. Inserted(S, s, i, x, a)
    BY <1>1, InsertFacts
  <2> QED  BY <1>1, <2>1 DEF Inserted
<1> HIDE DEF a
<1>3. i + 1 \in 1 .. Len(a) /\ a[i + 1] = s[i]
  <2>1. a[i + 1] = s[(i + 1) - 1] /\ (i + 1) - 1 = i
    BY <1>1, <1>2
  <2> QED  BY <1>1, <1>2, <2>1
<1>4. /\ b \in Seq(S) /\ Len(b) = Len(a) - 1
      /\ \A j \in 1 .. Len(a) - 1 : b[j] = IF j < i + 1 THEN a[j] ELSE a[j + 1]
  <2>1. Removed(S, a, i + 1, b)
    BY <1>2, <1>3, RemoveFacts
  <2> QED  BY <1>2, <1>3, <2>1 DEF Removed
<1>5. c \in Seq(S) /\ Len(c) = Len(s) /\ \A j \in 1 .. Len(s) : c[j] = IF j = i THEN x ELSE s[j]
  BY <1>1
<1> HIDE DEF b, c
<1>6. Len(b) = Len(c)
  BY <1>1, <1>2, <1>4, <1>5
<1>7. \A j \in 1 .. Len(b) : b[j] = c[j]
  <2> SUFFICES ASSUME NEW j \in 1 .. Len(s) PROVE b[j] = c[j]
    BY <1>5, <1>6
  <2>1. j \in Nat /\ j \in 1 .. Len(a) - 1 /\ j \in 1 .. Len(s) + 1 /\ j + 1 \in 1 .. Len(s) + 1
    BY <1>1, <1>2
  <2>2. CASE j < i + 1
    BY <1>1, <1>2, <1>4, <1>5, <2>1, <2>2
  <2>3. CASE ~(j < i + 1)
    <3>1. b[j] = a[j + 1]
      BY <1>2, <1>4, <2>1, <2>3
    <3>2. ~(j + 1 < i) /\ j + 1 # i /\ (j + 1) - 1 = j /\ j # i
      BY <1>1, <2>1, <2>3
    <3>3. a[j + 1] = s[(j + 1) - 1]
      BY <1>2, <2>1, <3>2
    <3>4. c[j] = s[j]
      BY <1>5, <3>2
    <3> QED  BY <3>1, <3>2, <3>3, <3>4
  <2> QED  BY <2>2, <2>3
<1>8. b = c
  BY <1>4, <1>5, <1>6, <1>7, SameSequence
<1> QED  BY <1>3, <1>8 DEF a, b, c

\* What add_item_to_array does to the list of the parent.
LEMMA AddingRelists ==
    ASSUME CellsAssumption, NEW h, NEW gone, NEW home, NEW hand, Ready(h, gone, home, hand),
           NEW p, Parent(h, gone, p), NEW x, Joins(h, home, {}, hand, p, x)
    PROVE  /\ p \in Live(h, gone) /\ ~h[p].ref /\ x \in Cells
           /\ Children(h, p) \in Seq(Cells)
           /\ Len(Children(h, p)) + 1 \in 1 .. Len(Children(h, p)) + 1
           /\ Relists(h, home, AddToArray(h, p, x), p,
                      Forest!InsertAt(Children(h, p), Len(Children(h, p)) + 1, x))
<1> DEFINE none == {}
<1>1. Sound(h, gone, home, none, hand, none) /\ p \notin none /\ hand \subseteq Cells
  BY ReadyFacts
<1>2. /\ p \in Live(h, gone) /\ p \in Cells /\ ~h[p].ref
      /\ x \in Cells /\ home[x] = NULL /\ x # p /\ h[x].next = NULL
  BY <1>1 DEF Parent, Joins, Live
<1> HIDE DEF none
<1>3. Children(h, p) \in Seq(Cells) /\ Len(Children(h, p)) \in Nat
  BY <1>1, <1>2, ChildrenFacts
<1>4. Relists(h, home, AddToArray(h, p, x), p,
              Forest!InsertAt(Children(h, p), Len(Children(h, p)) + 1, x))
  BY <1>1, <1>2, AddedIsLast
<1>5. Len(Children(h, p)) + 1 \in 1 .. Len(Children(h, p)) + 1
  BY <1>3
<1> QED  BY <1>2, <1>3, <1>4, <1>5

\* A child and its place in the list.
LEMMA PlaceOfChild ==
    ASSUME CellsAssumption, NEW h, NEW gone, NEW home, NEW hand, Ready(h, gone, home, hand),
           NEW p \in Cells, ~h[p].ref, NEW a \in Cells, home[a] = p
    PROVE  /\ p \in Live(h, gone)
           /\ Children(h, p) \in Seq(Cells) /\ Len(Children(h, p)) \in Nat
           /\ \E i \in 1 .. Len(Children(h, p)) : Children(h, p)[i] = a
<1> DEFINE none == {}
<1>1. Sound(h, gone, home, none, hand, none) /\ p \notin none /\ HomeInv(h, gone, home)
      /\ NULL \notin Cells
  BY ReadyFacts DEF Sound
<1> HIDE DEF none
<1>2. p \in Live(h, gone)
  BY <1>1 DEF HomeInv
<1>3. Children(h, p) \in Seq(Cells) /\ Len(Children(h, p)) \in Nat
  BY <1>1, ChildrenFacts
<1>4. \E i \in 1 .. Len(Children(h, p)) : Children(h, p)[i] = a
  BY <1>1, ListIsAll
<1> QED  BY <1>2, <1>3, <1>4

\* What putting an item before another one does to the list.
LEMMA PuttingRelists ==
    ASSUME CellsAssumption, NEW h, NEW gone, NEW home, NEW hand, Ready(h, gone, home, hand),
           NEW p, Parent(h, gone, p), NEW x, Joins(h, home, {}, hand, p, x),
           NEW a \in Cells, home[a] = p
    PROVE  /\ p \in Live(h, gone) /\ ~h[p].ref /\ x \in Cells
           /\ Children(h, p) \in Seq(Cells) /\ Len(Children(h, p)) \in Nat
           /\ Before(h, PutBefore(h, p, x, a), p, x, a)
           /\ \E i \in 1 .. Len(Children(h, p)) :
                  /\ Children(h, p)[i] = a
                  /\ Relists(h, home, PutBefore(h, p, x, a), p, Forest!InsertAt(Children(h, p), i, x))
<1> DEFINE none == {}
<1>1. Sound(h, gone, home, none, hand, none) /\ p \notin none /\ hand \subseteq Cells /\ NULL \notin Cells
  BY ReadyFacts
<1>2. /\ p \in Live(h, gone) /\ p \in Cells /\ ~h[p].ref
      /\ x \in Cells /\ home[x] = NULL /\ x # p /\ home[x] # p
  BY <1>1 DEF Parent, Joins, Live
<1>3. PICK i \in 1 .. Len(Children(h, p)) : Children(h, p)[i] = a
  BY <1>2, PlaceOfChild
<1> HIDE DEF none
<1>4. Before(h, PutBefore(h, p, x, a), p, x, a)
  BY <1>1, <1>2, PutIsBefore
<1>5. Before(h, PutBefore(h, p, x, a), p, x, Children(h, p)[i])
  BY <1>3, <1>4
<1> DEFINE g == PutBefore(h, p, x, a)
<1> HIDE DEF g
<1>6. Relists(h, home, g, p, Forest!InsertAt(Children(h, p), i, x))
  BY <1>1, <1>2, <1>5, PutIsInserted DEF g
<1> QED  BY <1>2, <1>3, <1>4, <1>6, PlaceOfChild DEF g

\* What cJSON_InsertItemInArray does to the list.
LEMMA InsertingRelists ==
    ASSUME CellsAssumption, NEW h, NEW gone, NEW home, NEW hand, Ready(h, gone, home, hand),
           NEW p, Parent(h, gone, p), NEW x, Joins(h, home, {}, hand, p, x), NEW index \in Nat
    PROVE  /\ p \in Live(h, gone) /\ ~h[p].ref
           /\ \E i \in 1 .. Len(Children(h, p)) + 1 :
                  Relists(h, home, Insert(h, p, index, x), p, Forest!InsertAt(Children(h, p), i, x))
<1>1. p \in Cells /\ ~h[p].ref /\ p \in Live(h, gone) /\ Sound(h, gone, home, {}, hand, {})
  BY ReadyFacts DEF Parent, Live
<1> DEFINE a == ArrayItem(h, p, index)
<1>2. CASE a = NULL
  <2>1. Insert(h, p, index, x) = AddToArray(h, p, x)
    BY <1>2 DEF Insert
  <2> HIDE DEF a
  <2>2. /\ Len(Children(h, p)) + 1 \in 1 .. Len(Children(h, p)) + 1
        /\ Relists(h, home, AddToArray(h, p, x), p,
                   Forest!InsertAt(Children(h, p), Len(Children(h, p)) + 1, x))
    BY AddingRelists
  <2> QED  BY <1>1, <2>1, <2>2
<1>3. CASE a # NULL
  <2>1. a \in Cells /\ home[a] = p
    BY <1>1, <1>3, ItemsAreFound
  <2>2. Insert(h, p, index, x) = PutBefore(h, p, x, a)
    BY <1>3 DEF Insert, PutBefore
  <2> HIDE DEF a
  <2>3. Len(Children(h, p)) \in Nat
        /\ \E i \in 1 .. Len(Children(h, p)) :
               Relists(h, home, PutBefore(h, p, x, a), p, Forest!InsertAt(Children(h, p), i, x))
    BY <2>1, PuttingRelists
  <2>4. \A i \in 1 .. Len(Children(h, p)) : i \in 1 .. Len(Children(h, p)) + 1
    BY <2>3
  <2> QED  BY <1>1, <2>2, <2>3, <2>4
<1> QED  BY <1>2, <1>3

\* Names are no links.
LEMMA NamedTree ==
    ASSUME NEW h, NEW g, NEW gone,
           \A c \in Cells : /\ g[c].type = h[c].type /\ g[c].ref = h[c].ref
                            /\ g[c].child = h[c].child /\ g[c].next = h[c].next
    PROVE  /\ \A R \in SUBSET Cells : ClosedAs(h, R, TRUE) => ClosedAs(g, R, TRUE)
           /\ \A p \in Cells : (h[p].child # NULL => Unreferenced(h, gone, h[p].child)) =>
                  (g[p].child # NULL => Unreferenced(g, gone, g[p].child))
<1>1. \A R \in SUBSET Cells : ClosedAs(h, R, TRUE) => ClosedAs(g, R, TRUE)
  BY DEF ClosedAs
<1>2. Live(g, gone) = Live(h, gone) /\ Live(h, gone) \subseteq Cells
  BY DEF Live
<1>3. \A y : Unreferenced(h, gone, y) => Unreferenced(g, gone, y)
  BY <1>2 DEF Unreferenced
<1> QED  BY <1>1, <1>3

\* What cJSON_DetachItemViaPointer does to the list.
LEMMA DetachingRelists ==
    ASSUME CellsAssumption, NEW h, NEW gone, NEW home, NEW hand, Ready(h, gone, home, hand),
           NEW p \in Cells, ~h[p].ref, NEW x \in Cells, home[x] = p
    PROVE  /\ p \in Live(h, gone) /\ Out(h, Detach(h, p, x), p, x)
           /\ \E i \in 1 .. Len(Children(h, p)) :
                  /\ Children(h, p)[i] = x
                  /\ Relists(h, home, Detach(h, p, x), p, Forest!RemoveAt(Children(h, p), i))
<1> DEFINE none == {}
           g == Detach(h, p, x)
<1>1. Sound(h, gone, home, none, hand, none) /\ p \notin none
  BY ReadyFacts
<1> HIDE DEF none
<1>2. PICK i \in 1 .. Len(Children(h, p)) : Children(h, p)[i] = x
  BY PlaceOfChild
<1>3. Out(h, g, p, x)
  BY <1>1, DetachTakesOut
<1> HIDE DEF g
<1>4. Out(h, g, p, Children(h, p)[i])
  BY <1>2, <1>3
<1>5. Relists(h, home, g, p, Forest!RemoveAt(Children(h, p), i))
  BY <1>1, <1>4, OutIsRemoved
<1> QED  BY <1>2, <1>3, <1>5, PlaceOfChild DEF g

\* What cJSON_ReplaceItemViaPointer does to the list, before it deletes the old item.
Exchanged(h, g, gone, p, x, new) ==
    \E i \in 1 .. Len(Children(h, p)) : \E away, hands :
        /\ Children(h, p)[i] = x /\ x \in hands /\ Ready(g, gone, away, hands)
        /\ Family(g, gone) = [Family(h, gone) EXCEPT ![p] = [Children(h, p) EXCEPT ![i] = new]]
LEMMA SwappingRelists ==
    ASSUME CellsAssumption, NEW h, NEW gone, NEW home, NEW hand, Ready(h, gone, home, hand),
           NEW p, Parent(h, gone, p), NEW new, Joins(h, home, {}, hand, p, new),
           h[p].child # NULL => Unreferenced(h, gone, h[p].child),
           NEW x \in Cells, home[x] = p,
           NEW R \in SUBSET Cells, ClosedAs(h, R, TRUE), new \in R, p \notin R
    PROVE  /\ p \in Live(h, gone) /\ ~h[p].ref /\ Children(h, p) \in Seq(Cells)
           /\ Exchanged(h, Swapped(h, p, x, new), gone, p, x, new)
           /\ Fine(h, gone) => Fine(Swapped(h, p, x, new), gone)
<1> DEFINE k == PutBefore(h, p, new, x)
           g == Swapped(h, p, x, new)
           home2 == [home EXCEPT ![new] = p]
           rest == hand \ {new}
           none == {}
<1>1. /\ Sound(h, gone, home, none, hand, none) /\ hand \subseteq Cells
      /\ NULL \notin Cells /\ p \notin none /\ home \in [Cells -> Pointers]
  BY ReadyFacts DEF Ready
<1>2. /\ p \in Cells /\ p \in Live(h, gone) /\ ~h[p].ref /\ new \in Cells /\ home[new] = NULL
      /\ new # p /\ new # x
  BY <1>1 DEF Parent, Joins, Live
<1>3. Kid(h, p, x) => Unreferenced(h, gone, x)
  BY DEF Kid
<1>4. PICK i \in 1 .. Len(Children(h, p)) :
          /\ Children(h, p)[i] = x /\ Before(h, k, p, new, x)
          /\ Relists(h, home, k, p, Forest!InsertAt(Children(h, p), i, new))
  BY PuttingRelists
<1> HIDE DEF none
<1>5. Out(k, g, p, x)
  BY <1>1, <1>2, SwappedIsOut
<1> HIDE DEF g, k
<1>6. Ready(k, gone, home2, rest)
  BY <1>3, <1>4, ReadyWhenBefore
<1>7. home2[x] = p
  BY <1>1, <1>2
<1> HIDE DEF home2, rest
<1> DEFINE s == Children(h, p)
           t == Forest!InsertAt(s, i, new)
<1>8. s \in Seq(Cells)
  BY <1>2, PlaceOfChild
<1>9. /\ i + 1 \in 1 .. Len(t) /\ t[i + 1] = x
      /\ Forest!RemoveAt(t, i + 1) = [s EXCEPT ![i] = new]
  BY <1>2, <1>4, <1>8, InsertThenRemove
<1> HIDE DEF t, s
<1>10. Relists(h, home, k, p, t)
  BY <1>4 DEF t, s
<1>11. ~k[p].ref
  BY <1>2, <1>10 DEF Relists, Elsewhere
<1>12. Sound(k, gone, home2, none, rest, none)
  BY <1>6, ReadyFacts DEF none
<1>13. Children(k, p) = t
  BY <1>2, <1>10, <1>12, ListIsOne DEF Relists
<1>14. ~Kid(k, p, x)
  <2>1. CASE Kid(h, p, x)
    <3>1. k[p].child = new
      BY <1>2, <1>4, <2>1 DEF Before, PutFirst
    <3> QED  BY <1>2, <3>1 DEF Kid
  <2>2. CASE ~Kid(h, p, x)
    BY <1>2, <1>4, <2>2 DEF Before, PutBetween, Kid
  <2> QED  BY <2>1, <2>2
<1>15. Ready(g, gone, [home2 EXCEPT ![x] = NULL], rest \cup {x})
  BY <1>2, <1>5, <1>6, <1>7, <1>11, <1>14, ReadyWithout
<1>16. Relists(k, home2, g, p, [s EXCEPT ![i] = new])
  <2>1. Out(k, g, p, Children(k, p)[i + 1]) /\ i + 1 \in 1 .. Len(Children(k, p))
    BY <1>5, <1>9, <1>13
  <2> DEFINE j == i + 1
  <2>2. Out(k, g, p, Children(k, p)[j]) /\ j \in 1 .. Len(Children(k, p))
    BY <2>1
  <2> HIDE DEF j
  <2>3. Relists(k, home2, g, p, Forest!RemoveAt(Children(k, p), j))
    BY <1>1, <1>2, <1>11, <1>12, <2>2, OutIsRemoved
  <2> QED  BY <1>9, <1>13, <2>3 DEF j
<1>17. k[p].child # NULL => Unreferenced(k, gone, k[p].child)
  <2>1. /\ k[p].child = h[p].child \/ k[p].child = new
        /\ \A c \in Cells : k[c].type = h[c].type /\ k[c].ref = h[c].ref /\ (c # p => k[c].child = h[c].child)
    <3>1. \A c \in Cells : k[c].type = h[c].type /\ k[c].ref = h[c].ref /\ (c # p => k[c].child = h[c].child)
      BY <1>10 DEF Relists, Elsewhere
    <3>2. k[p].child = h[p].child \/ k[p].child = new
      BY <1>2, <1>4 DEF Before, PutFirst, PutBetween
    <3> QED  BY <3>1, <3>2
  <2>2. \A r \in Live(h, gone) : h[r].ref => h[r].child # new
    BY <1>1, <1>2 DEF Sound, RefsInv, HomeInv
  <2> QED  BY <1>2, <2>1, <2>2 DEF Unreferenced, Live
<1>18. Family(k, gone) = [Family(h, gone) EXCEPT ![p] = t] /\ Live(k, gone) = Live(h, gone)
  BY <1>2, <1>6, <1>10, FamilyRelisted
<1> DEFINE away == [home2 EXCEPT ![x] = NULL]
           hands == rest \cup {x}
           swap == [s EXCEPT ![i] = new]
<1>19. Ready(g, gone, away, hands) /\ x \in hands /\ Relists(k, home2, g, p, swap)
  BY <1>15, <1>16
<1> HIDE DEF away, hands, swap
<1>20. Family(g, gone) = [Family(k, gone) EXCEPT ![p] = swap]
  <2>1. p \in Live(k, gone)
    BY <1>2, <1>18
  <2> QED  BY <1>6, <1>11, <1>19, <2>1, FamilyRelisted
<1>21. Family(g, gone) = [Family(h, gone) EXCEPT ![p] = swap]
  BY <1>18, <1>20
<1>22. /\ Children(h, p)[i] = x /\ x \in hands /\ Ready(g, gone, away, hands)
       /\ Family(g, gone) = [Family(h, gone) EXCEPT ![p] = [Children(h, p) EXCEPT ![i] = new]]
  BY <1>4, <1>19, <1>21 DEF swap, s
<1>23. p \in Live(h, gone) /\ ~h[p].ref /\ Children(h, p) \in Seq(Cells)
  BY <1>2, <1>8 DEF s
<1>24. ASSUME Fine(h, gone) PROVE Fine(g, gone)
  <2>1. /\ Relists(h, home, k, p, Forest!InsertAt(Children(h, p), i, new))
        /\ i \in 1 .. Len(Children(h, p)) + 1
    BY <1>4, <1>8 DEF s
  <2>2. Fine(k, gone)
    BY <1>2, <1>6, <1>24, <2>1, FineWhenPut
  <2> DEFINE j == i + 1
  <2>3. /\ j \in 1 .. Len(Children(k, p)) /\ p \in Live(k, gone)
        /\ Relists(k, home2, g, p, Forest!RemoveAt(Children(k, p), j))
    BY <1>2, <1>9, <1>13, <1>16, <1>18
  <2> HIDE DEF j
  <2> QED  BY <1>6, <1>11, <1>19, <1>17, <2>2, <2>3, FineWhenTaken
<1>25. Exchanged(h, g, gone, p, x, new)
  BY <1>22 DEF Exchanged
<1> QED  BY <1>23, <1>24, <1>25 DEF g

\* The type of an item is none of its links.
WithNext(g, p, v) == [g EXCEPT ![p].next = v]
WithPrev(g, p, v) == [g EXCEPT ![p].prev = v]
WithChild(g, p, v) == [g EXCEPT ![p].child = v]
SameTypes(g, h) == h \in [Cells -> Items] /\ \A c \in Cells : h[c].type = g[c].type
LEMMA LinksAreNoTypes ==
    ASSUME NEW g \in [Cells -> Items], NEW p, NEW v \in Pointers
    PROVE  /\ SameTypes(g, WithNext(g, p, v)) /\ SameTypes(g, WithPrev(g, p, v))
           /\ SameTypes(g, WithChild(g, p, v))
<1>1. ASSUME NEW c \in Cells
      PROVE  /\ [g[c] EXCEPT !.next = v] \in Items /\ [g[c] EXCEPT !.next = v].type = g[c].type
             /\ [g[c] EXCEPT !.prev = v] \in Items /\ [g[c] EXCEPT !.prev = v].type = g[c].type
             /\ [g[c] EXCEPT !.child = v] \in Items /\ [g[c] EXCEPT !.child = v].type = g[c].type
  <2>1. g[c] \in Items
    OBVIOUS
  <2> QED  BY <2>1 DEF Items
<1>2. CASE p \in Cells
  BY <1>1, <1>2 DEF SameTypes, WithNext, WithPrev, WithChild
<1>3. CASE p \notin Cells
  <2>1. WithNext(g, p, v) = g /\ WithPrev(g, p, v) = g /\ WithChild(g, p, v) = g
    BY <1>3 DEF WithNext, WithPrev, WithChild
  <2> QED  BY <2>1 DEF SameTypes
<1> QED  BY <1>2, <1>3

\* suffix_object
LEMMA SuffixHasNoTypes ==
    ASSUME NEW g \in [Cells -> Items], NEW l \in Pointers, NEW x \in Pointers
    PROVE  SameTypes(g, Suffix(g, l, x))
<1> DEFINE h == WithNext(g, l, x)
<1>1. SameTypes(g, h)
  BY LinksAreNoTypes
<1>2. Suffix(g, l, x) = WithPrev(h, x, l)
  BY DEF Suffix, WithNext, WithPrev
<1> HIDE DEF h
<1>3. SameTypes(h, WithPrev(h, x, l))
  BY <1>1, LinksAreNoTypes DEF SameTypes
<1> QED  BY <1>1, <1>2, <1>3 DEF SameTypes

\* cJSON_Compare is the solution of its recursion.
LEMMA CompareComputes ==
    ASSUME NEW h, \A c \in Cells : Children(h, c) \in Seq(Cells), NEW sensitive
    PROVE  \E f : /\ Sames(h, sensitive, f)
                  /\ \A x, y \in Cells : Compare(h, x, y, sensitive) = f[<<x, y>>]
<1> DEFINE step(f) == [pair \in Cells \X Cells |-> SameBy(h, sensitive, f, pair[1], pair[2])]
           same == CHOOSE f : f = step(f)
<1>1. PICK f : f = step(f)
  BY SamesExist DEF Sames
<1>2. same = step(same)
  BY <1>1
<1>3. \A x, y : Compare(h, x, y, sensitive) = same[<<x, y>>]
  BY DEF Compare, SameBy, FindsAll
<1> HIDE DEF same
<1>4. Sames(h, sensitive, same)
  BY <1>2 DEF Sames
<1> QED  BY <1>3, <1>4
================================================================================
