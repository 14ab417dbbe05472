------------------------------ MODULE CJsonProofs ------------------------------
(* The heap of cJSON.c is sound in every behaviour, for any depth and any history *)
(* of calls that succeed or fail: lists stay lists, and nothing leaks.  To the    *)
(* caller the calls are those of JsonForest, and cJSON_Compare compares values.   *)
EXTENDS CJsonHeapProofs

-----------------------------------------------------------------------------
(* The call at work.                                                         *)

Frames == [item : Cells, type : Types, head : Pointers, last : Pointers, source : Pointers]
Filling == {call.stack[k].item : k \in DOMAIN call.stack}
CallTops ==
    IF call.op = "parse"
    THEN {call.root} \cup ({call.stack[k].head : k \in DOMAIN call.stack} \ {NULL})
    ELSE Filling

CallType ==
    /\ call \in [op : {"none", "parse", "duplicate", "array"}, stack : Seq(Frames),
                 root : Pointers, todo : Pointers, failing : BOOLEAN]
    /\ call.op = "none" => call = NoCall
    /\ call.op = "parse" => call.root # NULL
    /\ call.op # "parse" => call.root = NULL

\* What is in the hands of the caller, and no work of the call.
HeldInv(home, fresh) ==
    \A x \in held : heap[x].next = NULL /\ home[x] = NULL /\ x \notin fresh

\* Each item is filled by one frame.
Apart(stack) == \A j, k \in DOMAIN stack : stack[j].item = stack[k].item => j = k

\* A container whose text is being read: its list is not yet hung under it.
OpenText(h, home, fresh, f) ==
    /\ f.item \in fresh /\ h[f.item].child = NULL /\ ~h[f.item].ref
    /\ h[f.item].type = "invalid" /\ f.type \in Containers
    /\ f.head = NULL <=> f.last = NULL
    /\ f.head # NULL => /\ {f.head, f.last} \subseteq fresh
                        /\ home[f.head] = f.item /\ home[f.last] = f.item
                        /\ h[f.last].next = NULL
    /\ \A x \in Cells : home[x] = f.item =>
           f.head # NULL /\ (f.type = "object" => h[x].key # NULL)

\* A text: each container that is being filled is the last child of the one below.
ParseInv(home, fresh) ==
    call.op = "parse" =>
        /\ heap[call.root].next = NULL /\ home[call.root] = NULL /\ call.root \in fresh
        /\ Apart(call.stack)
        /\ \A k \in DOMAIN call.stack : OpenText(heap, home, fresh, call.stack[k])
        /\ \A k \in DOMAIN call.stack :
             call.stack[k].item = IF k = 1 THEN call.root ELSE call.stack[k - 1].last
        /\ call.todo # NULL /\ ~call.failing =>
             /\ heap[call.todo].type = "invalid" /\ heap[call.todo].child = NULL
             /\ ~heap[call.todo].ref
             /\ call.todo = IF call.stack = <<>> THEN call.root ELSE Top.last
             /\ \A x \in Cells : home[x] # call.todo
             /\ call.todo \notin Filling /\ call.todo \in fresh

\* An item that is being filled with a copy, or with numbers: its own tree.
OpenCopy(h, home, fresh, f) ==
    /\ f.item \in fresh /\ ~h[f.item].ref /\ h[f.item].type = f.type
    /\ h[f.item].next = NULL /\ home[f.item] = NULL
    /\ h[f.item].child = NULL <=> f.last = NULL
    /\ f.last # NULL => /\ f.last \in fresh /\ home[f.last] = f.item
                        /\ h[f.last].next = NULL
    /\ \A x \in Cells : h[f.item].child = x => h[x].prev = NULL

CopyInv(home, fresh) ==
    call.op \in {"duplicate", "array"} =>
        /\ ~call.failing => call.stack # <<>>
        /\ Apart(call.stack)
        /\ \A k \in DOMAIN call.stack : OpenCopy(heap, home, fresh, call.stack[k])

\* A copy follows the list of an item of the same type.
SourceInv(home) ==
    /\ call.op = "duplicate" /\ ~call.failing =>
         \A k \in DOMAIN call.stack :
             LET f == call.stack[k] IN
             /\ f.source # NULL => /\ home[f.source] # NULL
                                   /\ heap[home[f.source]].type = f.type
             /\ k > 1 => LET below == call.stack[k - 1] IN
                         /\ below.source # NULL
                         /\ heap[f.item].key = heap[below.source].key
    /\ call.op = "array" /\ ~call.failing => Len(call.stack) = 1 /\ Top.type = "array"

CallInv(home, fresh) ==
    /\ CallType
    /\ call.op = "none" => fresh = {}
    /\ HeldInv(home, fresh) /\ ParseInv(home, fresh) /\ CopyInv(home, fresh) /\ SourceInv(home)

CJsonInv ==
    \E home \in [Cells -> Pointers], fresh \in SUBSET Cells :
        /\ Sound(heap, lost, home, fresh, held \cup CallTops, Filling)
        /\ CallInv(home, fresh)

-----------------------------------------------------------------------------
(* The calls that are done at once.                                          *)

\* Between two calls there is no unfinished work.
LEMMA IdleIsReady ==
    ASSUME CJsonInv, Idle
    PROVE  call = NoCall /\ \E home : Ready(heap, lost, home, held)
<1>1. PICK home \in [Cells -> Pointers], fresh \in SUBSET Cells :
          /\ Sound(heap, lost, home, fresh, held \cup CallTops, Filling)
          /\ CallInv(home, fresh)
  BY DEF CJsonInv
<1>2. call = NoCall /\ fresh = {}
  BY <1>1 DEF CallInv, CallType, Idle
<1>3. call.op = "none" /\ call.stack = <<>>
  BY <1>2 DEF NoCall
<1>4. Filling = {}
  BY <1>3 DEF Filling
<1>5. CallTops = {}
  BY <1>3, <1>4 DEF CallTops
<1>6. held \cup CallTops = held
  BY <1>5
<1>7. Sound(heap, lost, home, {}, held, {})
  BY <1>1, <1>2, <1>4, <1>6
<1>8. \A x \in held : heap[x].next = NULL
  BY <1>1 DEF CallInv, HeldInv
<1>9. Ready(heap, lost, home, held)
  BY <1>7, <1>8 DEF Ready
<1> QED  BY <1>2, <1>9

\* A call that leaves no unfinished work keeps the invariant.
LEMMA ReadyIsEnough ==
    ASSUME CellsAssumption, NEW home, Ready(heap', lost', home, held'), call' = NoCall
    PROVE  CJsonInv'
<1>1. call'.op = "none" /\ call'.stack = <<>> /\ call'.root = NULL
  BY DEF NoCall
<1>2. Filling' = {}
  BY <1>1 DEF Filling
<1>3. CallTops' = {}
  BY <1>1, <1>2 DEF CallTops
<1>4. held' \cup CallTops' = held'
  BY <1>3
<1>5. /\ home \in [Cells -> Pointers] /\ Sound(heap', lost', home, {}, held', {})
      /\ \A x \in held' : heap'[x].next = NULL /\ home[x] = NULL
  BY ReadyFacts DEF Ready
<1>6. Sound(heap', lost', home, {}, held' \cup CallTops', Filling')
  BY <1>2, <1>4, <1>5
<1>7. CallInv(home, {})'
  <2>1. CallType'
    <3>1. <<>> \in Seq(Frames) /\ NULL \in Pointers
      BY DEF Pointers
    <3> QED  BY <1>1, <3>1 DEF CallType, NoCall
  <2>2. HeldInv(home, {})'
    BY <1>5 DEF HeldInv
  <2>3. ParseInv(home, {})' /\ CopyInv(home, {})' /\ SourceInv(home)'
    BY <1>1 DEF ParseInv, CopyInv, SourceInv
  <2> QED  BY <2>1, <2>2, <2>3 DEF CallInv
<1>8. {} \in SUBSET Cells
  OBVIOUS
<1> DEFINE none == {}
<1>9. /\ none \in SUBSET Cells /\ CallInv(home, none)'
      /\ Sound(heap', lost', home, none, held' \cup CallTops', Filling')
  BY <1>6, <1>7, <1>8
<1> HIDE DEF none
<1> QED  BY <1>5, <1>9 DEF CJsonInv

\* What the caller passes.
LEMMA CallersItems ==
    ASSUME CellsAssumption, ScalarsAssumption, NEW home, Ready(heap, lost, home, held)
    PROVE  /\ Owned \subseteq Live(heap, lost)
           /\ \A type \in Containers : \A p \in Parents(type) :
                  /\ Parent(heap, lost, p) /\ heap[p].type = type
                  /\ heap[p].child # NULL => Unreferenced(heap, lost, heap[p].child)
<1>1. heap \in [Cells -> Items] /\ held \subseteq Live(heap, lost) /\ CellsInv(heap, lost)
      /\ held \in SUBSET Pointers
  BY ReadyFacts DEF Ready, Sound, Shape, Pointers, Live
<1>2. Owned \subseteq Live(heap, lost)
  BY <1>1, ReachIsLive DEF Owned
<1>3. Live(heap, lost) \subseteq Cells \ lost
  BY DEF Live
<1>4. ASSUME NEW type \in Containers, NEW p \in Parents(type)
      PROVE  /\ Parent(heap, lost, p) /\ heap[p].type = type
             /\ heap[p].child # NULL => Unreferenced(heap, lost, heap[p].child)
  <2>1. p \in Owned /\ heap[p].type = type /\ ~heap[p].ref /\ Unshared(p)
    BY DEF Parents
  <2>2. Parent(heap, lost, p)
    BY <1>2, <2>1 DEF Parent, ScalarsAssumption
  <2> QED  BY <1>3, <2>1, <2>2 DEF Unshared, References, Unreferenced
<1> QED  BY <1>2, <1>4

\* A tree leads only to itself, even through its references.
LEMMA TreeIsClosed ==
    ASSUME CellsAssumption, NEW h \in [Cells -> Items], NEW x \in Cells, h[x].next = NULL
    PROVE  /\ Tree(h, x, TRUE) \in SUBSET Cells /\ Closed(h, Tree(h, x, TRUE))
           /\ ClosedAs(h, Tree(h, x, TRUE), TRUE) /\ x \in Tree(h, x, TRUE)
<1> DEFINE S == {h[x].child}
           R == Reach(h, S, TRUE)
           C == {x} \cup R
<1>1. S \in SUBSET Pointers /\ TRUE \in BOOLEAN
  BY FieldTypes
<1>2. R \in SUBSET Cells /\ S \ {NULL} \subseteq R /\ ClosedAs(h, R, TRUE)
  BY <1>1, ReachFacts
<1>3. Tree(h, x, TRUE) = C
  BY DEF Tree
<1> HIDE DEF R
<1>4. Closed(h, C) /\ ClosedAs(h, C, TRUE)
  BY <1>2 DEF Closed, ClosedAs
<1> QED  BY <1>2, <1>3, <1>4

\* What a caller may add is a whole tree of its own that the parent is no part of.
LEMMA MayAddJoins ==
    ASSUME CellsAssumption, NEW home, Ready(heap, lost, home, held), NEW p \in Cells,
           NEW x, MayAdd(p, x), heap[p].type = "object" => heap[x].key # NULL
    PROVE  Joins(heap, home, {}, held, p, x)
<1>1. /\ heap \in [Cells -> Items] /\ x \in Cells /\ x \in held
      /\ heap[x].next = NULL /\ home[x] = NULL /\ p \notin Tree(heap, x, TRUE)
  <2>1. x \in held /\ p \notin Tree(heap, x, TRUE)
    BY DEF MayAdd
  <2>2. /\ heap \in [Cells -> Items] /\ held \subseteq Cells
        /\ \A t \in held : home[t] = NULL /\ heap[t].next = NULL
    BY ReadyFacts DEF Ready
  <2> QED  BY <2>1, <2>2
<1>2. /\ Tree(heap, x, TRUE) \in SUBSET Cells /\ Closed(heap, Tree(heap, x, TRUE))
      /\ x \in Tree(heap, x, TRUE)
  BY <1>1, TreeIsClosed
<1> QED  BY <1>1, <1>2 DEF Joins

\* cJSON_CreateNull and its like
LEMMA CreateKeeps ==
    ASSUME CellsAssumption, NamesAssumption, ScalarsAssumption, CJsonInv, Create
    PROVE CJsonInv'
<1>1. PICK n \in Free, t \in Scalars \cup Containers :
          /\ heap' = [heap EXCEPT ![n] = [Blank EXCEPT !.type = t]]
          /\ held' = held \cup {n} /\ lost' = lost /\ call' = call
  BY DEF Create
<1>2. PICK home : Ready(heap, lost, home, held)
  BY IdleIsReady DEF Create
<1> DEFINE r == [Blank EXCEPT !.type = t]
<1>3. n \in Cells /\ heap[n].type = "free" /\ r \in Items /\ r.type = t /\ r.next = NULL /\ r.prev = NULL
      /\ r.child = NULL /\ r.type # "free"
  BY DEF Free, Blank, Items, Pointers, Types, Containers, ScalarsAssumption
<1> HIDE DEF r
<1>4. Ready([heap EXCEPT ![n] = r], lost, home, held \cup {n})
  BY <1>2, <1>3, ReadyWithNew
<1>5. Ready(heap', lost', home, held') /\ call' = NoCall
  BY <1>1, <1>4, IdleIsReady DEF r, Create
<1> QED  BY <1>5, ReadyIsEnough

\* cJSON_Delete of an item of the caller
LEMMA DeleteItemKeeps == ASSUME CellsAssumption, CJsonInv, DeleteItem PROVE CJsonInv'
<1>1. PICK x \in held :
          /\ NoRefInto(Tree(heap, x, FALSE)) /\ heap' = Delete(heap, x)
          /\ held' = held \ {x} /\ lost' = lost /\ call' = call
  BY DEF DeleteItem
<1>2. PICK home : Ready(heap, lost, home, held)
  BY IdleIsReady DEF DeleteItem
<1> DEFINE F == Tree(heap, x, FALSE)
<1>3. Reach(heap, {x}, FALSE) = F
  BY <1>2, WholeTree
<1>4. \A r \in Live(heap, lost) : heap[r].ref /\ r \notin F => heap[r].child \notin F
  BY <1>1 DEF NoRefInto, References, Live
<1> HIDE DEF F
<1>5. \E house : Ready(Delete(heap, x), lost, house, held \ {x})
  BY <1>2, <1>3, <1>4, ReadyWhenDeleted
<1>6. call' = NoCall
  BY <1>1, IdleIsReady DEF DeleteItem
<1> QED  BY <1>1, <1>5, <1>6, ReadyIsEnough

\* cJSON_AddItemToArray
LEMMA AddItemToArrayKeeps ==
    ASSUME CellsAssumption, ScalarsAssumption, CJsonInv, AddItemToArray PROVE CJsonInv'
<1>1. PICK p \in Parents("array"), x \in held :
          /\ MayAdd(p, x) /\ heap' = AddToArray(heap, p, x)
          /\ held' = held \ {x} /\ lost' = lost /\ call' = call
  BY DEF AddItemToArray
<1>2. PICK home : Ready(heap, lost, home, held)
  BY IdleIsReady DEF AddItemToArray
<1>3. Parent(heap, lost, p) /\ heap[p].type = "array" /\ p \in Cells
  BY <1>2, CallersItems DEF Containers, Parent, Live
<1>4. Joins(heap, home, {}, held, p, x)
  BY <1>1, <1>2, <1>3, MayAddJoins
<1>5. Ready(AddToArray(heap, p, x), lost, [home EXCEPT ![x] = p], held \ {x})
  BY <1>2, <1>3, <1>4, ReadyWhenAdded
<1>6. call' = NoCall
  BY <1>1, IdleIsReady DEF AddItemToArray
<1> QED  BY <1>1, <1>5, <1>6, ReadyIsEnough

\* A name is written into the item, which then becomes a member.
LEMMA NamedJoins ==
    ASSUME CellsAssumption, NamesAssumption, NEW home, NEW h, NEW gone, NEW hand,
           Ready(h, gone, home, hand), NEW p, Parent(h, gone, p), NEW x \in hand, NEW key \in Keys,
           NEW C \in SUBSET Cells, Closed(h, C), x \in C, p \notin C
    PROVE  /\ Parent(Named(h, x, key), gone, p)
           /\ Joins(Named(h, x, key), home, {}, hand, p, x)
<1> DEFINE g == Named(h, x, key)
<1>1. Ready(g, gone, home, hand) /\ \A c \in Cells : /\ c # x => g[c] = h[c]
                                  /\ g[c].type = h[c].type /\ g[c].ref = h[c].ref
                                  /\ g[c].next = h[c].next /\ g[c].child = h[c].child
                                  /\ g[x].key = key
  BY ReadyWhenNamed
<1>2. home[x] = NULL /\ x \in Cells /\ h[x].next = NULL
  BY ReadyFacts DEF Ready
<1> HIDE DEF g
<1>3. Closed(g, C)
  BY <1>1 DEF Closed
<1>4. Parent(g, gone, p)
  BY <1>1 DEF Parent, Live
<1>5. key # NULL
  BY DEF NamesAssumption
<1>6. Joins(g, home, {}, hand, p, x)
  BY <1>1, <1>2, <1>3, <1>5 DEF Joins, Parent, Live
<1> QED  BY <1>4, <1>6 DEF g

\* cJSON_AddItemToObject, with a name that is copied, constant or cannot be allocated
LEMMA AddItemToObjectKeeps ==
    ASSUME CellsAssumption, NamesAssumption, ScalarsAssumption, CJsonInv, AddItemToObject
    PROVE  CJsonInv'
<1>1. PICK p \in Parents("object"), x \in held, key \in Keys :
          /\ MayAdd(p, x) /\ heap' = AddToArray(Named(heap, x, key), p, x)
          /\ held' = held \ {x} /\ lost' = lost /\ call' = call
  BY DEF AddItemToObject
<1>2. PICK home : Ready(heap, lost, home, held)
  BY IdleIsReady DEF AddItemToObject
<1>3. Parent(heap, lost, p) /\ p \in Cells
  BY <1>2, CallersItems DEF Containers, Parent, Live
<1> DEFINE C == Tree(heap, x, TRUE)
<1>4. C \in SUBSET Cells /\ Closed(heap, C) /\ x \in C
  <2>1. heap \in [Cells -> Items] /\ x \in Cells /\ heap[x].next = NULL
    BY <1>2, ReadyFacts DEF Ready
  <2> QED  BY <2>1, TreeIsClosed
<1>5. p \notin C
  BY <1>1 DEF MayAdd
<1> HIDE DEF C
<1> DEFINE g == Named(heap, x, key)
<1>6. Parent(g, lost, p) /\ Joins(g, home, {}, held, p, x)
  BY <1>2, <1>3, <1>4, <1>5, NamedJoins
<1>7. Ready(g, lost, home, held)
  BY <1>2, ReadyWhenNamed
<1> HIDE DEF g
<1>8. Ready(AddToArray(g, p, x), lost, [home EXCEPT ![x] = p], held \ {x})
  BY <1>6, <1>7, ReadyWhenAdded
<1>9. call' = NoCall
  BY <1>1, IdleIsReady DEF AddItemToObject
<1> QED  BY <1>1, <1>8, <1>9, ReadyIsEnough DEF g

\* A new item, or a new reference, becomes a child.
LEMMA NewJoins ==
    ASSUME CellsAssumption, NEW h, NEW gone, NEW home, NEW hand, Ready(h, gone, home, hand),
           NEW p, Parent(h, gone, p), NEW n \in Cells, h[n].type = "free", NEW r \in Items,
           r.type # "free", r.next = NULL, r.prev = NULL, r.child = NULL \/ r.ref,
           Unknown(h, gone, home, n)
    PROVE  /\ Parent([h EXCEPT ![n] = r], gone, p)
           /\ {n} \in SUBSET Cells /\ Closed([h EXCEPT ![n] = r], {n}) /\ p \notin {n}
           /\ (h[p].type = "object" => r.key # NULL) =>
                  Joins([h EXCEPT ![n] = r], home, {}, hand \cup {n}, p, n)
<1> DEFINE g == [h EXCEPT ![n] = r]
<1>1. h \in [Cells -> Items] /\ NULL \notin Cells
  BY ReadyFacts
<1>2. g[n] = r /\ \A c \in Cells : c # n => g[c] = h[c]
  BY <1>1
<1>3. n # p /\ p \in Cells
  BY DEF Parent, Live
<1> HIDE DEF g
<1> DEFINE C == {n}
<1>4. C \in SUBSET Cells /\ Closed(g, C) /\ p \notin C /\ n \in C
  BY <1>1, <1>2, <1>3 DEF Closed
<1>5. Parent(g, gone, p)
  BY <1>2, <1>3 DEF Parent, Live
<1> HIDE DEF C
<1>6. (h[p].type = "object" => r.key # NULL) => Joins(g, home, {}, hand \cup {n}, p, n)
  <2>1. home[n] = NULL
    BY DEF Unknown
  <2> QED  BY <1>2, <1>3, <1>4, <2>1 DEF Joins
<1> QED  BY <1>4, <1>5, <1>6 DEF g, C

\* cJSON_AddNullToObject and its like: the new item is freed when it cannot be added.
LEMMA AddNewToObjectKeeps ==
    ASSUME CellsAssumption, NamesAssumption, ScalarsAssumption, CJsonInv, AddNewToObject
    PROVE  CJsonInv'
<1>1. PICK p \in Parents("object"), n \in Free, key \in Keys, t \in Scalars \cup Containers :
          heap' = AddToArray([heap EXCEPT ![n] = [Blank EXCEPT !.type = t, !.key = key]], p, n)
  BY DEF AddNewToObject
<1>2. PICK home : Ready(heap, lost, home, held)
  BY IdleIsReady DEF AddNewToObject
<1>3. Parent(heap, lost, p)
  BY <1>2, CallersItems DEF Containers
<1> DEFINE r == [Blank EXCEPT !.type = t, !.key = key]
           g == [heap EXCEPT ![n] = r]
           more == held \cup {n}
<1>4. /\ n \in Cells /\ heap[n].type = "free" /\ r \in Items /\ r.type # "free"
      /\ r.next = NULL /\ r.prev = NULL /\ r.child = NULL /\ r.key # NULL
  BY DEF Free, Blank, Items, Pointers, Types, Containers, ScalarsAssumption, NamesAssumption
<1> HIDE DEF r
<1>5. Ready(g, lost, home, more) /\ Unknown(heap, lost, home, n) /\ n \notin held
  BY <1>2, <1>4, ReadyWithNew
<1>6. Parent(g, lost, p) /\ Joins(g, home, {}, more, p, n)
  BY <1>2, <1>3, <1>4, <1>5, NewJoins
<1>7. more \ {n} = held
  BY <1>5
<1> HIDE DEF g, more
<1>8. Ready(AddToArray(g, p, n), lost, [home EXCEPT ![n] = p], more \ {n})
  BY <1>5, <1>6, ReadyWhenAdded
<1>9. call' = NoCall /\ held' = held /\ lost' = lost
  BY IdleIsReady DEF AddNewToObject
<1> QED  BY <1>1, <1>7, <1>8, <1>9, ReadyIsEnough DEF g, r

\* What a reference to an item or to its children may hold.
LEMMA ReferenceIsOne ==
    ASSUME CellsAssumption, NEW home, Ready(heap, lost, home, held), NEW x \in Owned
    PROVE  /\ x \in Cells /\ heap[x] \in Items /\ heap[x].type # "free"
           /\ heap[x].type \in Scalars => heap[x].child = NULL
           /\ heap[x].child # NULL =>
                  \E q \in Cells : Kid(heap, q, heap[x].child) /\ heap[q].type = heap[x].type
<1>1. heap \in [Cells -> Items] /\ x \in Live(heap, lost)
  <2>1. /\ heap \in [Cells -> Items] /\ held \subseteq Live(heap, lost) /\ CellsInv(heap, lost)
        /\ held \in SUBSET Pointers
    BY ReadyFacts DEF Ready, Sound, Shape, Pointers, Live
  <2>2. Owned \subseteq Live(heap, lost)
    BY <2>1, ReachIsLive DEF Owned
  <2> QED  BY <2>1, <2>2
<1>2. x \in Cells /\ heap[x].type # "free" /\ heap[x] \in Items
  BY <1>1 DEF Live
<1>3. heap[x].type \in Scalars => heap[x].child = NULL
  BY <1>2 DEF Ready, Sound, NamesInv
<1>4. ASSUME heap[x].child # NULL
      PROVE  \E q \in Cells : Kid(heap, q, heap[x].child) /\ heap[q].type = heap[x].type
  <2>1. CASE heap[x].ref
    BY <1>1, <1>4, <2>1 DEF Ready, Sound, RefsInv
  <2>2. CASE ~heap[x].ref
    BY <1>2, <2>2 DEF Kid
  <2> QED  BY <2>1, <2>2
<1> QED  BY <1>2, <1>3, <1>4

\* cJSON_AddItemReferenceToArray and cJSON_AddItemReferenceToObject
LEMMA AddReferenceKeeps ==
    ASSUME CellsAssumption, NamesAssumption, ScalarsAssumption, CJsonInv, AddReference
    PROVE  CJsonInv'
<1>1. PICK p \in Parents("array") \cup Parents("object"), x \in Owned, n \in Free, key \in Keys :
          LET h == Referring(heap, n, x) IN
          IF heap[p].type = "array" THEN heap' = AddToArray(h, p, n) /\ UNCHANGED lost
          ELSE \/ heap' = AddToArray(Named(h, n, key), p, n) /\ UNCHANGED lost
               \/ heap' = h /\ lost' = lost \cup {n}
  BY DEF AddReference
<1>2. PICK home : Ready(heap, lost, home, held)
  BY IdleIsReady DEF AddReference
<1>3. Parent(heap, lost, p)
  BY <1>2, CallersItems DEF Containers
<1> DEFINE r == [heap[x] EXCEPT !.ref = TRUE, !.key = NULL, !.next = NULL, !.prev = NULL]
           g == [heap EXCEPT ![n] = r]
           more == held \cup {n}
<1>4. /\ x \in Cells /\ heap[x] \in Items /\ heap[x].type # "free"
      /\ heap[x].type \in Scalars => heap[x].child = NULL
      /\ heap[x].child # NULL =>
             \E q \in Cells : Kid(heap, q, heap[x].child) /\ heap[q].type = heap[x].type
  BY <1>2, ReferenceIsOne
<1>5. /\ r \in Items /\ r.type = heap[x].type /\ r.child = heap[x].child
      /\ r.ref /\ r.next = NULL /\ r.prev = NULL
  BY <1>4 DEF Items, Pointers
<1>6. g = Referring(heap, n, x)
  BY DEF Referring
<1>7. n \in Cells /\ heap[n].type = "free"
  BY DEF Free
<1> HIDE DEF r
<1>8. Ready(g, lost, home, more) /\ Unknown(heap, lost, home, n) /\ n \notin held
  BY <1>2, <1>4, <1>5, <1>7, ReadyWithNew
<1>9. /\ Parent(g, lost, p) /\ {n} \in SUBSET Cells /\ Closed(g, {n}) /\ p \notin {n}
      /\ (heap[p].type = "object" => r.key # NULL) => Joins(g, home, {}, more, p, n)
  BY <1>2, <1>3, <1>4, <1>5, <1>7, <1>8, NewJoins
<1>10. more \ {n} = held /\ call' = NoCall /\ held' = held
  BY <1>8, IdleIsReady DEF AddReference
<1>11. ASSUME heap[p].type = "array", heap' = AddToArray(g, p, n), lost' = lost PROVE CJsonInv'
  <2>1. Joins(g, home, {}, more, p, n)
    BY <1>9, <1>11
  <2> HIDE DEF g, more
  <2>2. Ready(AddToArray(g, p, n), lost, [home EXCEPT ![n] = p], more \ {n})
    BY <1>8, <1>9, <2>1, ReadyWhenAdded
  <2> QED  BY <1>10, <1>11, <2>2, ReadyIsEnough
<1>12. ASSUME heap' = AddToArray(Named(g, n, key), p, n), lost' = lost PROVE CJsonInv'
  <2> DEFINE k == Named(g, n, key)
             C == {n}
  <2>1. Ready(k, lost, home, more) /\ n \in more
    <3>1. n \in more
      OBVIOUS
    <3> HIDE DEF g, more
    <3> QED  BY <1>8, <3>1, ReadyWhenNamed
  <2>2. C \in SUBSET Cells /\ Closed(g, C) /\ n \in C /\ p \notin C
    BY <1>9
  <2> HIDE DEF g, more, C
  <2>3. Parent(k, lost, p) /\ Joins(k, home, {}, more, p, n)
    BY <1>8, <1>9, <2>1, <2>2, NamedJoins
  <2>4. heap' = AddToArray(k, p, n)
    BY <1>12
  <2> HIDE DEF k
  <2>5. Ready(AddToArray(k, p, n), lost, [home EXCEPT ![n] = p], more \ {n})
    BY <2>1, <2>3, ReadyWhenAdded
  <2> QED  BY <1>10, <1>12, <2>4, <2>5, ReadyIsEnough
<1>13. ASSUME heap' = g, lost' = lost \cup {n} PROVE CJsonInv'
  <2> DEFINE none == {}
  <2>1. Sound(heap, lost, home, none, held, none) /\ (r.type \in Scalars => r.child = NULL) /\ r.type # "free"
    BY <1>2, <1>4, <1>5, ReadyFacts
  <2> HIDE DEF none
  <2>2. Sound(g, lost \cup {n}, home, none, held, none)
    BY <1>5, <1>7, <2>1, SoundWithLost
  <2>3. \A t \in held : g[t].next = NULL
    BY <1>2, <1>5, <1>8, ReadyFacts DEF Ready
  <2>4. Ready(g, lost \cup {n}, home, held)
    BY <2>2, <2>3 DEF Ready, none
  <2> HIDE DEF g
  <2> QED  BY <1>10, <1>13, <2>4, ReadyIsEnough
<1>14. \/ heap[p].type = "array" /\ heap' = AddToArray(g, p, n) /\ lost' = lost
       \/ heap' = AddToArray(Named(g, n, key), p, n) /\ lost' = lost
       \/ heap' = g /\ lost' = lost \cup {n}
  <2> HIDE DEF g
  <2> QED  BY <1>1, <1>6
<1> QED  BY <1>11, <1>12, <1>13, <1>14

\* cJSON_CreateObjectReference and cJSON_CreateArrayReference
LEMMA CreateReferenceKeeps ==
    ASSUME CellsAssumption, NamesAssumption, CJsonInv, CreateReference
    PROVE  CJsonInv'
<1>1. PICK p \in Owned, n \in Free :
          /\ heap[p].child # NULL
          /\ heap' = [heap EXCEPT ![n] = [Blank EXCEPT !.type = heap[p].type, !.ref = TRUE,
                                                       !.child = heap[p].child]]
          /\ held' = held \cup {n} /\ lost' = lost /\ call' = call
  BY DEF CreateReference
<1>2. PICK home : Ready(heap, lost, home, held)
  BY IdleIsReady DEF CreateReference
<1> DEFINE r == [Blank EXCEPT !.type = heap[p].type, !.ref = TRUE, !.child = heap[p].child]
<1>3. /\ p \in Cells /\ heap[p] \in Items /\ heap[p].type # "free"
      /\ heap[p].type \in Scalars => heap[p].child = NULL
      /\ heap[p].child # NULL =>
             \E q \in Cells : Kid(heap, q, heap[p].child) /\ heap[q].type = heap[p].type
  BY <1>2, ReferenceIsOne
<1>4. /\ r \in Items /\ r.type = heap[p].type /\ r.child = heap[p].child
      /\ r.ref /\ r.next = NULL /\ r.prev = NULL
  BY <1>3 DEF Items, Pointers, Blank
<1>5. n \in Cells /\ heap[n].type = "free"
  BY DEF Free
<1> HIDE DEF r
<1>6. Ready([heap EXCEPT ![n] = r], lost, home, held \cup {n})
  BY <1>2, <1>3, <1>4, <1>5, ReadyWithNew
<1>7. call' = NoCall
  BY <1>1, IdleIsReady DEF CreateReference
<1> QED  BY <1>1, <1>6, <1>7, ReadyIsEnough DEF r

\* A child found by its index.
LEMMA FoundChild ==
    ASSUME CellsAssumption, ScalarsAssumption, NEW home, Ready(heap, lost, home, held),
           NEW p \in Parents("array") \cup Parents("object"), NEW x,
           \/ \E index \in Nat : x = ArrayItem(heap, p, index)
           \/ \E key, sensitive : x = ObjectItem(heap, p, key, sensitive),
           x # NULL
    PROVE  /\ p \in Cells /\ Parent(heap, lost, p) /\ ~heap[p].ref
           /\ x \in Cells /\ home[x] = p
           /\ Kid(heap, p, x) => Unreferenced(heap, lost, x)
           /\ heap[p].child # NULL => Unreferenced(heap, lost, heap[p].child)
<1>1. Parent(heap, lost, p) /\ (heap[p].child # NULL => Unreferenced(heap, lost, heap[p].child))
  BY CallersItems DEF Containers
<1>2. p \in Cells /\ ~heap[p].ref
  BY <1>1 DEF Parent, Live
<1>3. x \in Cells /\ home[x] = p
  <2>1. Sound(heap, lost, home, {}, held, {})
    BY ReadyFacts
  <2>2. /\ \A index \in Nat : LET y == ArrayItem(heap, p, index) IN
               y # NULL => y \in Cells /\ home[y] = p /\ heap[p].child # NULL
        /\ \A key, sensitive : LET y == ObjectItem(heap, p, key, sensitive) IN
               y # NULL => y \in Cells /\ home[y] = p /\ heap[p].child # NULL
    BY <1>2, <2>1, ItemsAreFound
  <2> QED  BY <2>2
<1>4. Kid(heap, p, x) => Unreferenced(heap, lost, x)
  BY <1>1, <1>3 DEF Kid, CellsAssumption
<1> QED  BY <1>1, <1>2, <1>3, <1>4

\* cJSON_DetachItemFromArray and cJSON_DetachItemFromObject
LEMMA DetachItemKeeps ==
    ASSUME CellsAssumption, ScalarsAssumption, CJsonInv, DetachItem PROVE CJsonInv'
<1>1. PICK p \in Parents("array") \cup Parents("object"), index \in 0 .. Cardinality(Cells) :
          LET x == ArrayItem(heap, p, index) IN
          /\ x # NULL /\ heap' = Detach(heap, p, x)
          /\ held' = held \cup {x} /\ lost' = lost /\ call' = call
  BY DEF DetachItem
<1>2. PICK home : Ready(heap, lost, home, held)
  BY IdleIsReady DEF DetachItem
<1> DEFINE x == ArrayItem(heap, p, index)
           g == Detach(heap, p, x)
<1>3. /\ x # NULL /\ heap' = g /\ held' = held \cup {x} /\ lost' = lost /\ call' = call
      /\ \E i \in Nat : x = ArrayItem(heap, p, i)
  BY <1>1
<1> HIDE DEF x
<1>4. /\ p \in Cells /\ ~heap[p].ref /\ x \in Cells /\ home[x] = p
      /\ Kid(heap, p, x) => Unreferenced(heap, lost, x)
  BY <1>2, <1>3, FoundChild
<1>5. Out(heap, g, p, x)
  <2> DEFINE none == {}
  <2>1. Sound(heap, lost, home, none, held, none) /\ p \notin none
    BY <1>2, ReadyFacts
  <2> HIDE DEF none
  <2> QED  BY <1>4, <2>1, DetachTakesOut
<1> HIDE DEF g
<1>6. Ready(g, lost, [home EXCEPT ![x] = NULL], held \cup {x})
  BY <1>2, <1>4, <1>5, ReadyWithout
<1>7. call' = NoCall
  BY <1>3, IdleIsReady DEF DetachItem
<1> QED  BY <1>3, <1>6, <1>7, ReadyIsEnough

\* A reference into a tree is in it.
LEMMA NoneInto ==
    ASSUME NEW S, NoRefInto(S)
    PROVE  \A r \in Live(heap, lost) : heap[r].ref /\ r \notin S => heap[r].child \notin S
  BY DEF NoRefInto, References, Live

\* cJSON_DeleteItemFromArray and cJSON_DeleteItemFromObject
LEMMA DeleteChildKeeps ==
    ASSUME CellsAssumption, ScalarsAssumption, CJsonInv, DeleteChild PROVE CJsonInv'
<1>1. PICK p \in Parents("array") \cup Parents("object"), index \in 0 .. Cardinality(Cells) :
          LET x == ArrayItem(heap, p, index) IN
          /\ x # NULL /\ NoRefInto(Tree(heap, x, FALSE)) /\ heap' = Delete(Detach(heap, p, x), x)
  BY DEF DeleteChild
<1>2. PICK home : Ready(heap, lost, home, held)
  BY IdleIsReady DEF DeleteChild
<1> DEFINE x == ArrayItem(heap, p, index)
<1>3. /\ x # NULL /\ NoRefInto(Tree(heap, x, FALSE)) /\ heap' = Delete(Detach(heap, p, x), x)
      /\ \E i \in Nat : x = ArrayItem(heap, p, i)
  <2>1. x # NULL /\ NoRefInto(Tree(heap, x, FALSE)) /\ heap' = Delete(Detach(heap, p, x), x)
    BY <1>1
  <2>2. \E i \in Nat : x = ArrayItem(heap, p, i)
    OBVIOUS
  <2> HIDE DEF x
  <2> QED  BY <2>1, <2>2
<1> HIDE DEF x
<1>4. /\ p \in Cells /\ ~heap[p].ref /\ x \in Cells /\ home[x] = p
      /\ Kid(heap, p, x) => Unreferenced(heap, lost, x)
  BY <1>2, <1>3, FoundChild
<1>5. \A r \in Live(heap, lost) :
          heap[r].ref /\ r \notin Tree(heap, x, FALSE) => heap[r].child \notin Tree(heap, x, FALSE)
  BY <1>3, NoneInto
<1>6. \E house : Ready(Delete(Detach(heap, p, x), x), lost, house, held)
  BY <1>2, <1>4, <1>5, ReadyWhenChildDeleted
<1>7. call' = NoCall /\ held' = held /\ lost' = lost
  BY IdleIsReady DEF DeleteChild
<1> QED  BY <1>3, <1>6, <1>7, ReadyIsEnough

\* cJSON_InsertItemInArray
LEMMA InsertItemInArrayKeeps ==
    ASSUME CellsAssumption, ScalarsAssumption, CJsonInv, InsertItemInArray PROVE CJsonInv'
<1>1. PICK p \in Parents("array"), x \in held, index \in 0 .. Cardinality(Cells) :
          /\ MayAdd(p, x) /\ heap' = Insert(heap, p, index, x)
          /\ held' = held \ {x} /\ lost' = lost /\ call' = call
  BY DEF InsertItemInArray
<1>2. PICK home : Ready(heap, lost, home, held)
  BY IdleIsReady DEF InsertItemInArray
<1>3. /\ Parent(heap, lost, p) /\ heap[p].type = "array" /\ p \in Cells /\ index \in Nat
      /\ heap[p].child # NULL => Unreferenced(heap, lost, heap[p].child)
  BY <1>2, CallersItems DEF Containers, Parent, Live
<1>4. Joins(heap, home, {}, held, p, x)
  BY <1>1, <1>2, <1>3, MayAddJoins
<1>5. Ready(Insert(heap, p, index, x), lost, [home EXCEPT ![x] = p], held \ {x})
  BY <1>2, <1>3, <1>4, ReadyWhenInserted
<1>6. call' = NoCall
  BY <1>1, IdleIsReady DEF InsertItemInArray
<1> QED  BY <1>1, <1>5, <1>6, ReadyIsEnough

\* cJSON_ReplaceItemInArray
LEMMA ReplaceItemInArrayKeeps ==
    ASSUME CellsAssumption, ScalarsAssumption, CJsonInv, ReplaceItemInArray PROVE CJsonInv'
<1>1. PICK p \in Parents("array"), new \in held, index \in 0 .. Cardinality(Cells) :
          LET x == ArrayItem(heap, p, index) IN
          /\ MayAdd(p, new) /\ x # NULL /\ NoRefInto(Tree(heap, x, FALSE))
          /\ heap' = Replace(heap, p, x, new) /\ held' = held \ {new}
  BY DEF ReplaceItemInArray
<1>2. PICK home : Ready(heap, lost, home, held)
  BY IdleIsReady DEF ReplaceItemInArray
<1> DEFINE x == ArrayItem(heap, p, index)
<1>3. /\ MayAdd(p, new) /\ x # NULL /\ NoRefInto(Tree(heap, x, FALSE))
      /\ heap' = Replace(heap, p, x, new) /\ held' = held \ {new}
      /\ \E i \in Nat : x = ArrayItem(heap, p, i)
  <2>1. /\ MayAdd(p, new) /\ x # NULL /\ NoRefInto(Tree(heap, x, FALSE))
        /\ heap' = Replace(heap, p, x, new) /\ held' = held \ {new}
    BY <1>1
  <2>2. \E i \in Nat : x = ArrayItem(heap, p, i)
    OBVIOUS
  <2> HIDE DEF x
  <2> QED  BY <2>1, <2>2
<1> HIDE DEF x
<1>4. /\ p \in Cells /\ Parent(heap, lost, p) /\ x \in Cells /\ home[x] = p
      /\ heap[p].child # NULL => Unreferenced(heap, lost, heap[p].child)
  BY <1>2, <1>3, FoundChild
<1>5. heap[p].type = "array"
  BY DEF Parents
<1>6. Joins(heap, home, {}, held, p, new)
  BY <1>2, <1>3, <1>4, <1>5, MayAddJoins
<1>7. \A r \in Live(heap, lost) :
          heap[r].ref /\ r \notin Tree(heap, x, FALSE) => heap[r].child \notin Tree(heap, x, FALSE)
  BY <1>3, NoneInto
<1>8. \E house : Ready(Replace(heap, p, x, new), lost, house, held \ {new})
  BY <1>2, <1>4, <1>6, <1>7, ReadyWhenReplaced
<1>9. call' = NoCall /\ lost' = lost
  BY IdleIsReady DEF ReplaceItemInArray
<1> QED  BY <1>3, <1>8, <1>9, ReadyIsEnough

\* Names are no links.
LEMMA SameTree ==
    ASSUME CellsAssumption, NEW h \in [Cells -> Items], NEW g \in [Cells -> Items], NEW x \in Cells,
           \A c \in Cells : g[c].next = h[c].next /\ g[c].child = h[c].child /\ g[c].ref = h[c].ref
    PROVE  OwnTree(g, x) = OwnTree(h, x)
<1>1. \A Q \in SUBSET Cells : Closed(g, Q) <=> Closed(h, Q)
  BY DEF Closed
<1> DEFINE S == {h[x].child}
           A == Reach(g, S, FALSE)
           B == Reach(h, S, FALSE)
<1>2. S \in SUBSET Pointers
  BY FieldTypes
<1>3. A = B
  <2> HIDE DEF S
  <2>1. /\ A \in SUBSET Cells /\ S \ {NULL} \subseteq A /\ Closed(g, A)
        /\ \A Q \in SUBSET Cells : S \ {NULL} \subseteq Q /\ Closed(g, Q) => A \subseteq Q
    BY <1>2, OwnedFacts
  <2>2. /\ B \in SUBSET Cells /\ S \ {NULL} \subseteq B /\ Closed(h, B)
        /\ \A Q \in SUBSET Cells : S \ {NULL} \subseteq Q /\ Closed(h, Q) => B \subseteq Q
    BY <1>2, OwnedFacts
  <2> HIDE DEF A, B
  <2> QED  BY <1>1, <2>1, <2>2
<1>4. Tree(g, x, FALSE) = {x} \cup (IF h[x].ref THEN {} ELSE A)
  BY DEF Tree
<1>5. Tree(h, x, FALSE) = {x} \cup (IF h[x].ref THEN {} ELSE B)
  BY DEF Tree
<1> HIDE DEF A, B
<1> QED  BY <1>3, <1>4, <1>5 DEF OwnTree

\* replace_item_in_object: the new item gets the name even when there is nothing to replace.
LEMMA ReplaceItemInObjectKeeps ==
    ASSUME CellsAssumption, NamesAssumption, ScalarsAssumption, CJsonInv, ReplaceItemInObject
    PROVE  CJsonInv'
<1>1. PICK p \in Parents("object"), new \in held, key \in Keys, sensitive \in BOOLEAN :
          LET h == Named(heap, new, key)
              x == ObjectItem(heap, p, key, sensitive)
          IN /\ MayAdd(p, new)
             /\ \/ heap' = Named(heap, new, NULL) /\ UNCHANGED held
                \/ x = NULL /\ heap' = h /\ UNCHANGED held
                \/ /\ x # NULL /\ NoRefInto(Tree(heap, x, FALSE))
                   /\ heap' = Replace(h, p, x, new)
                   /\ held' = held \ {new}
  BY DEF ReplaceItemInObject
<1>2. PICK home : Ready(heap, lost, home, held)
  BY IdleIsReady DEF ReplaceItemInObject
<1>3. call' = NoCall /\ lost' = lost
  BY IdleIsReady DEF ReplaceItemInObject
<1> DEFINE h == Named(heap, new, key)
           x == ObjectItem(heap, p, key, sensitive)
<1>4. Ready(h, lost, home, held)
      /\ \A c \in Cells : /\ c # new => h[c] = heap[c]
                          /\ h[c].type = heap[c].type /\ h[c].ref = heap[c].ref
                          /\ h[c].next = heap[c].next /\ h[c].child = heap[c].child
                          /\ h[new].key = key
  BY <1>2, ReadyWhenNamed
<1>5. ASSUME heap' = Named(heap, new, NULL), held' = held PROVE CJsonInv'
  <2> DEFINE nothing == NULL
  <2>1. nothing \in Keys \cup {NULL}
    OBVIOUS
  <2> HIDE DEF nothing
  <2>2. Ready(Named(heap, new, nothing), lost, home, held)
    BY <1>2, <2>1, ReadyWhenNamed
  <2> QED  BY <1>3, <1>5, <2>2, ReadyIsEnough DEF nothing
<1>6. ASSUME heap' = h, held' = held PROVE CJsonInv'
  <2> HIDE DEF h
  <2> QED  BY <1>3, <1>4, <1>6, ReadyIsEnough
<1>7. ASSUME MayAdd(p, new), x # NULL, NoRefInto(Tree(heap, x, FALSE)), heap' = Replace(h, p, x, new),
             held' = held \ {new}
      PROVE  CJsonInv'
  <2>1. \E k, s : x = ObjectItem(heap, p, k, s)
    OBVIOUS
  <2> HIDE DEF x
  <2>2. /\ p \in Cells /\ Parent(heap, lost, p) /\ x \in Cells /\ home[x] = p
        /\ heap[p].child # NULL => Unreferenced(heap, lost, heap[p].child)
    BY <1>2, <1>7, <2>1, FoundChild
  <2> DEFINE C == Tree(heap, new, TRUE)
  <2>3. C \in SUBSET Cells /\ Closed(heap, C) /\ new \in C
    <3>1. heap \in [Cells -> Items] /\ new \in Cells /\ heap[new].next = NULL
      BY <1>2, ReadyFacts DEF Ready
    <3> QED  BY <3>1, TreeIsClosed
  <2>4. p \notin C
    BY <1>7 DEF MayAdd
  <2> HIDE DEF C
  <2>5. Parent(h, lost, p) /\ Joins(h, home, {}, held, p, new)
    BY <1>2, <2>2, <2>3, <2>4, NamedJoins
  <2> HIDE DEF h
  <2>6. h[p].child # NULL => Unreferenced(h, lost, h[p].child)
    BY <1>4, <2>2 DEF Unreferenced, Live
  <2>7. OwnTree(h, x) = OwnTree(heap, x)
    <3>1. heap \in [Cells -> Items] /\ h \in [Cells -> Items]
      BY <1>2, <1>4, ReadyFacts
    <3> QED  BY <1>4, <2>2, <3>1, SameTree
  <2>8. \A r \in Live(heap, lost) :
            heap[r].ref /\ r \notin OwnTree(heap, x) => heap[r].child \notin OwnTree(heap, x)
    BY <1>7, NoneInto DEF OwnTree
  <2>9. \A r \in Live(h, lost) : h[r].ref /\ r \notin OwnTree(h, x) => h[r].child \notin OwnTree(h, x)
    BY <1>4, <2>7, <2>8 DEF Live
  <2>10. \A r \in Live(h, lost) :
             h[r].ref /\ r \notin Tree(h, x, FALSE) => h[r].child \notin Tree(h, x, FALSE)
    BY <2>9 DEF OwnTree
  <2>11. \E house : Ready(Replace(h, p, x, new), lost, house, held \ {new})
    BY <1>4, <2>2, <2>5, <2>6, <2>10, ReadyWhenReplaced
  <2> QED  BY <1>3, <1>7, <2>11, ReadyIsEnough
<1>8. /\ MayAdd(p, new)
      /\ \/ heap' = Named(heap, new, NULL) /\ held' = held
         \/ heap' = h /\ held' = held
         \/ /\ x # NULL /\ NoRefInto(Tree(heap, x, FALSE))
            /\ heap' = Replace(h, p, x, new) /\ held' = held \ {new}
  BY <1>1
<1> HIDE DEF h, x
<1> QED  BY <1>5, <1>6, <1>7, <1>8

-----------------------------------------------------------------------------
(* Reading a text.                                                           *)

\* The stack of the call at work, and its top.
LEMMA StackFacts ==
    ASSUME CallType
    PROVE  /\ call.stack \in Seq(Frames) /\ Len(call.stack) \in Nat
           /\ DOMAIN call.stack = 1 .. Len(call.stack)
           /\ \A k \in DOMAIN call.stack : call.stack[k] \in Frames /\ call.stack[k].item \in Cells
           /\ call.stack # <<>> =>
                /\ Len(call.stack) > 0 /\ Len(call.stack) \in DOMAIN call.stack /\ Top \in Frames
                /\ Below \in Seq(Frames) /\ Len(Below) = Len(call.stack) - 1
                /\ DOMAIN Below = 1 .. Len(call.stack) - 1
                /\ \A k \in DOMAIN Below : Below[k] = call.stack[k] /\ k \in DOMAIN call.stack
<1>1. call.stack \in Seq(Frames)
  BY DEF CallType
<1>2. /\ Len(call.stack) \in Nat /\ DOMAIN call.stack = 1 .. Len(call.stack)
      /\ \A k \in DOMAIN call.stack : call.stack[k] \in Frames
  BY <1>1
<1>3. \A k \in DOMAIN call.stack : call.stack[k].item \in Cells
  BY <1>2 DEF Frames
<1>4. ASSUME call.stack # <<>>
      PROVE  /\ Len(call.stack) > 0 /\ Len(call.stack) \in DOMAIN call.stack /\ Top \in Frames
             /\ Below \in Seq(Frames) /\ Len(Below) = Len(call.stack) - 1
             /\ DOMAIN Below = 1 .. Len(call.stack) - 1
             /\ \A k \in DOMAIN Below : Below[k] = call.stack[k] /\ k \in DOMAIN call.stack
  <2>1. Len(call.stack) > 0
    BY <1>1, <1>4
  <2>2. Len(call.stack) \in DOMAIN call.stack /\ Top \in Frames
    BY <1>2, <2>1 DEF Top
  <2>3. /\ Below \in Seq(Frames) /\ Len(Below) = Len(call.stack) - 1
        /\ DOMAIN Below = 1 .. Len(call.stack) - 1
        /\ \A k \in 1 .. Len(call.stack) - 1 : Below[k] = call.stack[k]
    BY <1>1, <1>2, <2>1 DEF Below
  <2> QED  BY <1>2, <2>1, <2>2, <2>3
<1> QED  BY <1>1, <1>2, <1>3, <1>4

\* What is known while a text is read.
LEMMA TextFacts ==
    ASSUME CellsAssumption, NEW home, NEW fresh,
           Sound(heap, lost, home, fresh, held \cup CallTops, Filling),
           CallInv(home, fresh), call.op = "parse"
    PROVE  /\ heap \in [Cells -> Items] /\ home \in [Cells -> Pointers] /\ NULL \notin Cells
           /\ fresh \subseteq Live(heap, lost) /\ Live(heap, lost) \subseteq Cells
           /\ call.root \in Cells /\ call.root \in fresh /\ home[call.root] = NULL
           /\ Filling \subseteq fresh
           /\ \A t \in held \cup CallTops :
                \/ home[t] = NULL
                \/ \E k \in DOMAIN call.stack : t = call.stack[k].head /\ home[t] = call.stack[k].item
<1>1. /\ heap \in [Cells -> Items] /\ home \in [Cells -> Pointers] /\ NULL \notin Cells
      /\ fresh \subseteq Live(heap, lost) /\ Live(heap, lost) \subseteq Cells
  BY DEF Sound, Shape, CellsAssumption, Live
<1>2. /\ CallType /\ HeldInv(home, fresh) /\ home[call.root] = NULL /\ call.root \in fresh
      /\ \A k \in DOMAIN call.stack : OpenText(heap, home, fresh, call.stack[k])
  BY DEF CallInv, ParseInv
<1>3. Filling \subseteq fresh
  BY <1>2 DEF Filling, OpenText
<1>4. ASSUME NEW t \in held \cup CallTops
      PROVE  \/ home[t] = NULL
             \/ \E k \in DOMAIN call.stack : t = call.stack[k].head /\ home[t] = call.stack[k].item
  <2>1. t \in held \/ t = call.root \/ \E k \in DOMAIN call.stack : t = call.stack[k].head /\ t # NULL
    BY DEF CallTops
  <2> QED  BY <1>2, <2>1 DEF HeldInv, OpenText
<1> QED  BY <1>1, <1>2, <1>3, <1>4

\* cJSON_Parse allocates the root.
LEMMA ParseStartKeeps ==
    ASSUME CellsAssumption, NamesAssumption, CJsonInv, ParseStart
    PROVE CJsonInv'
<1>1. PICK n \in Free :
          /\ heap' = [heap EXCEPT ![n] = Blank]
          /\ call' = [NoCall EXCEPT !.op = "parse", !.root = n, !.todo = n]
          /\ held' = held /\ lost' = lost
  BY DEF ParseStart
<1>2. PICK home : Ready(heap, lost, home, held)
  BY IdleIsReady DEF ParseStart
<1> DEFINE fresh == {n}
<1>3. n \in Cells /\ heap[n].type = "free" /\ NULL \notin Cells
      /\ heap \in [Cells -> Items] /\ home \in [Cells -> Pointers]
  BY <1>2, ReadyFacts DEF Free
<1>4. Blank \in Items /\ Blank.type = "invalid" /\ Blank.next = NULL /\ Blank.prev = NULL
      /\ Blank.child = NULL /\ Blank.ref = FALSE
  BY DEF Blank, Items, Types, Pointers
<1>5. \A x \in held : heap[x].next = NULL /\ home[x] = NULL
  BY <1>2, ReadyFacts DEF Ready
<1>6. /\ Sound([heap EXCEPT ![n] = Blank], lost, home, fresh, held \cup {n}, {})
      /\ Unknown(heap, lost, home, n) /\ n \notin held
  BY <1>2, <1>3, <1>4, SoundWithStart
<1>7. /\ call'.op = "parse" /\ call'.root = n /\ call'.todo = n /\ call'.stack = <<>>
      /\ call'.failing = FALSE
  BY <1>1 DEF NoCall
<1>8. Filling' = {} /\ DOMAIN call'.stack = {}
  BY <1>7 DEF Filling
<1>9. CallTops' = {n}
  BY <1>7, <1>8 DEF CallTops
<1>10. Sound(heap', lost', home, fresh, held' \cup CallTops', Filling')
  BY <1>1, <1>6, <1>8, <1>9
<1>11. heap'[n] = Blank /\ \A c \in Cells : c # n => heap'[c] = heap[c]
  BY <1>1, <1>3
<1>12. CallType'
  <2>1. <<>> \in Seq(Frames) /\ NULL \in Pointers /\ n \in Pointers
    BY <1>3 DEF Pointers
  <2> QED  BY <1>1, <1>3, <1>7, <2>1 DEF CallType, NoCall
<1>13. HeldInv(home, fresh)'
  BY <1>1, <1>2, <1>5, <1>6, <1>11, ReadyFacts DEF HeldInv
<1>14. ParseInv(home, fresh)'
  BY <1>3, <1>4, <1>6, <1>7, <1>8, <1>11 DEF ParseInv, Apart, Unknown
<1>15. CopyInv(home, fresh)' /\ SourceInv(home)'
  BY <1>7 DEF CopyInv, SourceInv
<1>16. CallInv(home, fresh)'
  BY <1>7, <1>12, <1>13, <1>14, <1>15 DEF CallInv
<1>17. fresh \in SUBSET Cells
  BY <1>3
<1> HIDE DEF fresh
<1> QED  BY <1>3, <1>10, <1>16, <1>17 DEF CJsonInv

\* cJSON_Parse returns what it has read.
LEMMA ParseReturnKeeps == ASSUME CellsAssumption, CJsonInv, ParseReturn PROVE CJsonInv'
<1>1. PICK home \in [Cells -> Pointers], fresh \in SUBSET Cells :
          /\ Sound(heap, lost, home, fresh, held \cup CallTops, Filling)
          /\ CallInv(home, fresh)
  BY DEF CJsonInv
<1>2. /\ call.op = "parse" /\ call.stack = <<>> /\ heap' = heap /\ lost' = lost
      /\ held' = held \cup {call.root} /\ call' = NoCall
  BY DEF ParseReturn, Working, Return
<1>3. Filling = {}
  BY <1>2 DEF Filling
<1>4. CallTops = {call.root}
  BY <1>2 DEF CallTops
<1>5. \A x \in held \cup {call.root} : heap[x].next = NULL
  BY <1>1, <1>2 DEF CallInv, HeldInv, ParseInv
<1>6. Ready(heap, lost, home, held \cup {call.root})
  BY <1>1, <1>3, <1>4, <1>5, ReadyWhenHandedOver
<1> QED  BY <1>2, <1>6, ReadyIsEnough

\* An allocation fails, or the text is no JSON: from now on the call unwinds.
LEMMA FailKeeps == ASSUME CJsonInv, Fail PROVE CJsonInv'
<1>1. PICK home \in [Cells -> Pointers], fresh \in SUBSET Cells :
          /\ Sound(heap, lost, home, fresh, held \cup CallTops, Filling)
          /\ CallInv(home, fresh)
  BY DEF CJsonInv
<1>2. /\ call.op # "none" /\ call' = [call EXCEPT !.failing = TRUE]
      /\ heap' = heap /\ held' = held /\ lost' = lost
  BY DEF Fail, Idle
<1>3. /\ call' \in [op : {"none", "parse", "duplicate", "array"}, stack : Seq(Frames),
                    root : Pointers, todo : Pointers, failing : BOOLEAN]
      /\ call'.op = call.op /\ call'.stack = call.stack /\ call'.root = call.root
      /\ call'.todo = call.todo /\ call'.failing = TRUE
  BY <1>1, <1>2 DEF CallInv, CallType
<1>4. Filling' = Filling
  BY <1>3 DEF Filling
<1>5. CallTops' = CallTops
  BY <1>3, <1>4 DEF CallTops
<1>6. Sound(heap', lost', home, fresh, held' \cup CallTops', Filling')
  BY <1>1, <1>2, <1>4, <1>5
<1>7. CallType' /\ HeldInv(home, fresh)'
  BY <1>1, <1>2, <1>3 DEF CallInv, CallType, HeldInv
<1>8. ParseInv(home, fresh)' /\ CopyInv(home, fresh)' /\ SourceInv(home)'
  BY <1>1, <1>2, <1>3 DEF CallInv, ParseInv, CopyInv, SourceInv
<1>9. CallInv(home, fresh)'
  BY <1>2, <1>3, <1>7, <1>8 DEF CallInv
<1> QED  BY <1>1, <1>6, <1>9 DEF CJsonInv

\* A frame looks the same while its item and its list do.
LEMMA OpenTextStays ==
    ASSUME NEW h, NEW g, NEW home, NEW house, NEW fresh, NEW more, NEW f,
           OpenText(h, home, fresh, f), fresh \subseteq more,
           g[f.item].child = h[f.item].child, g[f.item].ref = h[f.item].ref,
           g[f.item].type = h[f.item].type,
           f.head # NULL => /\ house[f.head] = home[f.head] /\ house[f.last] = home[f.last]
                            /\ g[f.last].next = h[f.last].next,
           \A x \in Cells : house[x] = f.item => home[x] = f.item /\ g[x].key = h[x].key
    PROVE  OpenText(g, house, more, f)
  BY DEF OpenText

\* parse_value reads a value that is no container.
LEMMA ParseScalarKeeps ==
    ASSUME CellsAssumption, ScalarsAssumption, CJsonInv, ParseScalar
    PROVE  CJsonInv'
<1>1. PICK home \in [Cells -> Pointers], fresh \in SUBSET Cells :
          /\ Sound(heap, lost, home, fresh, held \cup CallTops, Filling)
          /\ CallInv(home, fresh)
  BY DEF CJsonInv
<1> DEFINE n == call.todo
<1>2. PICK t \in Scalars : heap' = [heap EXCEPT ![n].type = t]
  BY DEF ParseScalar
<1>3. /\ call.op = "parse" /\ ~call.failing /\ n # NULL /\ call' = [call EXCEPT !.todo = NULL]
      /\ held' = held /\ lost' = lost
  BY DEF ParseScalar, Working
<1>4. /\ CallType /\ HeldInv(home, fresh) /\ ParseInv(home, fresh)
      /\ heap[n].type = "invalid" /\ heap[n].child = NULL /\ n \notin Filling /\ n \in fresh
      /\ \A x \in Cells : home[x] # n
  BY <1>1, <1>3 DEF CallInv, ParseInv
<1>5. /\ heap \in [Cells -> Items] /\ n \in Cells /\ NULL \notin Cells
      /\ t \in Types /\ t \notin {"free", "invalid"}
  BY <1>1, <1>3, <1>4, TextFacts DEF Types, ScalarsAssumption
<1>6. /\ heap' \in [Cells -> Items]
      /\ \A c \in Cells : /\ heap'[c].ref = heap[c].ref /\ heap'[c].next = heap[c].next
                          /\ heap'[c].prev = heap[c].prev /\ heap'[c].child = heap[c].child
                          /\ heap'[c].key = heap[c].key
                          /\ c # n => heap'[c] = heap[c]
      /\ heap'[n].type = t
  <2> HIDE DEF n
  <2> QED  BY <1>2, <1>5 DEF Items
<1> HIDE DEF n
<1>7. NamesInv(heap, home)
  BY <1>1 DEF Sound
<1>8. NamesInv(heap', home)
  <2>1. \A x \in Cells : home[x] # NULL => home[x] \in Cells /\ home[x] # n
    BY <1>1, <1>4 DEF Pointers
  <2> QED  BY <1>4, <1>5, <1>6, <1>7, <2>1 DEF NamesInv
<1>9. Sound(heap', lost, home, fresh, held \cup CallTops, Filling)
  <2>1. \A c \in Cells : /\ heap'[c].ref = heap[c].ref /\ heap'[c].next = heap[c].next
                         /\ heap'[c].prev = heap[c].prev /\ heap'[c].child = heap[c].child
                         /\ heap'[c].type = "free" <=> heap[c].type = "free"
                         /\ heap'[c].type = "free" => heap'[c] = heap[c]
                         /\ heap'[c].type # heap[c].type => heap[c].child = NULL
    BY <1>4, <1>5, <1>6
  <2> QED  BY <1>1, <1>6, <1>8, <2>1, SoundWhenLinksStay
<1>10. /\ call' \in [op : {"none", "parse", "duplicate", "array"}, stack : Seq(Frames),
                     root : Pointers, todo : Pointers, failing : BOOLEAN]
       /\ call'.op = "parse" /\ call'.stack = call.stack /\ call'.root = call.root
       /\ call'.todo = NULL /\ call'.failing = call.failing
  <2>1. NULL \in Pointers
    BY DEF Pointers
  <2> QED  BY <1>3, <1>4, <2>1 DEF CallType
<1>11. Filling' = Filling
  BY <1>10 DEF Filling
<1>12. CallTops' = CallTops
  BY <1>3, <1>10, <1>11 DEF CallTops
<1>13. Sound(heap', lost', home, fresh, held' \cup CallTops', Filling')
  BY <1>3, <1>9, <1>11, <1>12
<1>14. CallType' /\ HeldInv(home, fresh)'
  <2>1. held \subseteq Cells
    BY <1>1 DEF Sound, Shape, Live
  <2> QED  BY <1>3, <1>4, <1>6, <1>10, <2>1 DEF CallType, HeldInv
<1>15. ParseInv(home, fresh)'
  <2>1. /\ heap[call.root].next = NULL /\ home[call.root] = NULL /\ call.root \in fresh
        /\ Apart(call.stack)
        /\ \A k \in DOMAIN call.stack : OpenText(heap, home, fresh, call.stack[k])
        /\ \A k \in DOMAIN call.stack :
             call.stack[k].item = IF k = 1 THEN call.root ELSE call.stack[k - 1].last
    BY <1>3, <1>4 DEF ParseInv
  <2>2. heap'[call.root].next = NULL
    BY <1>6, <2>1
  <2>3. \A k \in DOMAIN call.stack : OpenText(heap', home, fresh, call.stack[k])
    <3> SUFFICES ASSUME NEW k \in DOMAIN call.stack PROVE OpenText(heap', home, fresh, call.stack[k])
      OBVIOUS
    <3> DEFINE f == call.stack[k]
    <3>1. OpenText(heap, home, fresh, f) /\ f.item \in Filling
      BY <2>1 DEF Filling
    <3> HIDE DEF f
    <3>2. f.item \in Cells /\ f.item # n /\ (f.head # NULL => f.last \in Cells)
      BY <1>4, <3>1 DEF OpenText
    <3>3. OpenText(heap', home, fresh, f)
      BY <1>6, <3>1, <3>2, OpenTextStays
    <3> QED  BY <3>3 DEF f
  <2> QED  BY <1>10, <2>1, <2>2, <2>3 DEF ParseInv
<1>16. CopyInv(home, fresh)' /\ SourceInv(home)'
  BY <1>10 DEF CopyInv, SourceInv
<1>17. CallInv(home, fresh)'
  BY <1>10, <1>14, <1>15, <1>16 DEF CallInv
<1> QED  BY <1>1, <1>13, <1>17 DEF CJsonInv

\* parse_array or parse_object begins.
LEMMA ParseOpenKeeps ==
    ASSUME CellsAssumption, CJsonInv, ParseOpen
    PROVE  CJsonInv'
<1>1. PICK home \in [Cells -> Pointers], fresh \in SUBSET Cells :
          /\ Sound(heap, lost, home, fresh, held \cup CallTops, Filling)
          /\ CallInv(home, fresh)
  BY DEF CJsonInv
<1> DEFINE n == call.todo
           s == call.stack
           m == Len(s) + 1
<1>2. PICK t \in Containers :
          call' = [call EXCEPT !.stack = Append(@, Frame(n, t, NULL)), !.todo = NULL]
  BY DEF ParseOpen
<1>3. /\ call.op = "parse" /\ ~call.failing /\ n # NULL
      /\ heap' = heap /\ held' = held /\ lost' = lost
  BY DEF ParseOpen, Working
<1>4. /\ CallType /\ HeldInv(home, fresh) /\ ParseInv(home, fresh)
      /\ heap[n].type = "invalid" /\ heap[n].child = NULL /\ ~heap[n].ref /\ n \notin Filling /\ n \in fresh
      /\ n = IF s = <<>> THEN call.root ELSE Top.last
      /\ \A x \in Cells : home[x] # n
  BY <1>1, <1>3 DEF CallInv, ParseInv
<1> DEFINE f == Frame(n, t, NULL)
           S == Append(s, f)
<1>5. /\ f \in Frames /\ f.item = n /\ f.type = t /\ f.head = NULL /\ f.last = NULL
      /\ n \in Cells
  BY <1>4 DEF Frame, Frames, Pointers, Types
<1>6. s \in Seq(Frames) /\ Len(s) \in Nat /\ DOMAIN s = 1 .. Len(s)
  BY <1>4, StackFacts
<1>7. /\ call' \in [op : {"none", "parse", "duplicate", "array"}, stack : Seq(Frames),
                     root : Pointers, todo : Pointers, failing : BOOLEAN]
      /\ call'.op = "parse" /\ call'.stack = S /\ call'.root = call.root
      /\ call'.todo = NULL /\ call'.failing = call.failing
  <2>1. NULL \in Pointers /\ S \in Seq(Frames)
    BY <1>5, <1>6 DEF Pointers
  <2> HIDE DEF f
  <2> QED  BY <1>2, <1>3, <1>4, <2>1 DEF CallType, f
<1> HIDE DEF f
<1>8. /\ DOMAIN S = DOMAIN s \cup {m} /\ m \notin DOMAIN s /\ S[m] = f
      /\ \A k \in DOMAIN s : S[k] = s[k]
  BY <1>5, <1>6
<1> HIDE DEF S, m, s
<1>9. Filling' = Filling \cup {n}
  BY <1>5, <1>7, <1>8 DEF Filling, s
<1>10. CallTops' = CallTops
  BY <1>3, <1>5, <1>7, <1>8 DEF CallTops, s
<1>11. Sound(heap', lost', home, fresh, held' \cup CallTops', Filling')
  <2>1. Sound(heap, lost, home, fresh, held \cup CallTops, Filling \cup {n})
    BY <1>1, SoundWhenOpened
  <2> QED  BY <1>3, <1>9, <1>10, <2>1
<1>12. CallType' /\ HeldInv(home, fresh)'
  BY <1>3, <1>4, <1>7 DEF CallType, HeldInv
<1>13. ParseInv(home, fresh)'
  <2>1. /\ heap[call.root].next = NULL /\ home[call.root] = NULL /\ call.root \in fresh
        /\ Apart(s)
        /\ \A k \in DOMAIN s : OpenText(heap, home, fresh, s[k])
        /\ \A k \in DOMAIN s : s[k].item = IF k = 1 THEN call.root ELSE s[k - 1].last
    BY <1>3, <1>4 DEF ParseInv, s
  <2>2. \A k \in DOMAIN s : s[k].item # n
    BY <1>4 DEF Filling, s
  <2>3. Apart(S)
    BY <1>5, <1>8, <2>1, <2>2 DEF Apart
  <2>4. OpenText(heap, home, fresh, f)
    BY <1>2, <1>4, <1>5 DEF OpenText
  <2>5. \A k \in DOMAIN S : OpenText(heap, home, fresh, S[k])
    BY <1>8, <2>1, <2>4
  <2>6. ASSUME NEW k \in DOMAIN S
        PROVE  S[k].item = IF k = 1 THEN call.root ELSE S[k - 1].last
    <3>1. CASE k \in DOMAIN s
      <4>1. k # 1 => k - 1 \in DOMAIN s
        BY <1>6, <3>1 DEF s
      <4> QED  BY <1>8, <2>1, <3>1, <4>1
    <3>2. CASE k = m
      <4>1. s = <<>> <=> m = 1
        BY <1>6 DEF s, m
      <4>2. s # <<>> => m - 1 \in DOMAIN s /\ Top = s[m - 1]
        BY <1>6 DEF s, m, Top
      <4> QED  BY <1>4, <1>5, <1>8, <3>2, <4>1, <4>2 DEF s
    <3> QED  BY <1>8, <3>1, <3>2
  <2> QED  BY <1>3, <1>7, <2>1, <2>3, <2>5, <2>6 DEF ParseInv
<1>14. CopyInv(home, fresh)' /\ SourceInv(home)'
  BY <1>7 DEF CopyInv, SourceInv
<1>15. CallInv(home, fresh)'
  BY <1>7, <1>12, <1>13, <1>14 DEF CallInv
<1> QED  BY <1>1, <1>11, <1>15 DEF CJsonInv

\* The loop of parse_array or parse_object allocates the next element.
LEMMA ParseElementKeeps ==
    ASSUME CellsAssumption, NamesAssumption, ScalarsAssumption, CJsonInv, ParseElement
    PROVE  CJsonInv'
<1>1. PICK home \in [Cells -> Pointers], fresh \in SUBSET Cells :
          /\ Sound(heap, lost, home, fresh, held \cup CallTops, Filling)
          /\ CallInv(home, fresh)
  BY DEF CJsonInv
<1> DEFINE s == call.stack
           m == Len(s)
           i == Top.item
           l == Top.last
           tops == held \cup CallTops
<1>2. /\ call.op = "parse" /\ ~call.failing /\ s # <<>>
      /\ held' = held /\ lost' = lost
  BY DEF ParseElement, Working
<1>3. PICK n \in Free, key \in IF Top.type = "object" THEN Keys ELSE {NULL} :
          LET h == [heap EXCEPT ![n] = [Blank EXCEPT !.key = key]] IN
          /\ heap' = IF Top.head = NULL THEN h ELSE Suffix(h, Top.last, n)
          /\ call' = [call EXCEPT !.todo = n, !.stack[Len(call.stack)] =
                           [Top EXCEPT !.head = IF @ = NULL THEN n ELSE @, !.last = n]]
  BY DEF ParseElement
<1> DEFINE r == [Blank EXCEPT !.key = key]
           g == [heap EXCEPT ![n] = r]
           f == [Top EXCEPT !.head = IF @ = NULL THEN n ELSE @, !.last = n]
           S == [s EXCEPT ![m] = f]
           more == fresh \cup {n}
<1>4. /\ CallType /\ HeldInv(home, fresh) /\ Apart(s)
      /\ \A k \in DOMAIN s : OpenText(heap, home, fresh, s[k])
      /\ \A k \in DOMAIN s : s[k].item = IF k = 1 THEN call.root ELSE s[k - 1].last
      /\ heap[call.root].next = NULL /\ home[call.root] = NULL /\ call.root \in fresh
  BY <1>1, <1>2 DEF CallInv, ParseInv
<1>5. /\ s \in Seq(Frames) /\ m \in Nat /\ DOMAIN s = 1 .. m /\ m > 0 /\ m \in DOMAIN s
      /\ Top = s[m] /\ Top \in Frames
  BY <1>2, <1>4, StackFacts DEF Top
<1>6. /\ heap \in [Cells -> Items] /\ NULL \notin Cells /\ fresh \subseteq Live(heap, lost)
      /\ Live(heap, lost) \subseteq Cells /\ call.root \in Cells /\ tops \subseteq Cells
      /\ held \subseteq Cells
  <2>1. tops \subseteq Live(heap, lost)
    BY <1>1 DEF Sound, Shape
  <2> QED  BY <1>1, <1>2, <2>1, TextFacts
<1>7. /\ OpenText(heap, home, fresh, Top) /\ i \in Cells /\ i \in fresh /\ i \in Filling
      /\ (Top.head # NULL => l \in fresh /\ l \in Cells /\ home[l] = i /\ heap[l].next = NULL)
      /\ heap[i].type = "invalid"
  <2>1. OpenText(heap, home, fresh, Top) /\ i \in Filling
    BY <1>4, <1>5 DEF Filling
  <2> QED  BY <1>6, <2>1 DEF OpenText
<1>8. /\ n \in Cells /\ heap[n].type = "free" /\ key \in Keys \cup {NULL}
      /\ (Top.type = "object" => key # NULL)
  BY <1>3 DEF Free, NamesAssumption
<1>9. /\ r \in Items /\ r.type = "invalid" /\ r.next = NULL /\ r.prev = NULL /\ r.child = NULL
      /\ r.ref = FALSE /\ r.key = key
  BY <1>8 DEF Blank, Items, Types, Pointers
<1>10. /\ f.item = i /\ f.type = Top.type /\ f.last = n /\ f \in Frames
       /\ f.head = IF Top.head = NULL THEN n ELSE Top.head
  BY <1>5, <1>8 DEF Frames, Pointers
<1> HIDE DEF r, f
<1>11. /\ S \in Seq(Frames) /\ DOMAIN S = DOMAIN s /\ Len(S) = m /\ S[m] = f
       /\ \A k \in DOMAIN s : k # m => S[k] = s[k]
  BY <1>5, <1>10
<1>12. /\ call' \in [op : {"none", "parse", "duplicate", "array"}, stack : Seq(Frames),
                     root : Pointers, todo : Pointers, failing : BOOLEAN]
       /\ call'.op = "parse" /\ call'.stack = S /\ call'.root = call.root
       /\ call'.todo = n /\ call'.failing = call.failing
  <2>1. n \in Pointers
    BY <1>8 DEF Pointers
  <2>2. call' = [call EXCEPT !.todo = n, !.stack = S]
    BY <1>3, <1>4 DEF CallType, f
  <2> HIDE DEF S
  <2> QED  BY <1>2, <1>4, <1>11, <2>1, <2>2 DEF CallType
<1> HIDE DEF S, m, s
<1>13. /\ Sound(g, lost, home, more, tops \cup {n}, Filling)
       /\ Unknown(heap, lost, home, n) /\ n \notin fresh /\ n \notin tops
  <2>1. /\ Sound([heap EXCEPT ![n] = r], lost, home, fresh \cup {n}, tops \cup {n}, Filling)
        /\ Unknown(heap, lost, home, n) /\ n \notin fresh /\ n \notin tops
    <3>1. r.type # "free"
      BY <1>9
    <3> HIDE DEF tops
    <3> QED  BY <1>1, <1>8, <1>9, <3>1, SoundWithFresh, SMTT(30) DEF tops
  <2> QED  BY <2>1
<1>14. /\ g \in [Cells -> Items] /\ g[n] = r /\ \A c \in Cells : c # n => g[c] = heap[c]
  BY <1>6, <1>8, <1>9
<1>15. PICK house : house = [home EXCEPT ![n] = i]
  OBVIOUS
<1>16. /\ house \in [Cells -> Pointers] /\ house[n] = i
       /\ \A c \in Cells : c # n => house[c] = home[c]
       /\ home[n] = NULL /\ \A c \in Cells : home[c] # n
  BY <1>7, <1>8, <1>13, <1>15 DEF Pointers, Unknown
<1>17. more \in SUBSET Cells /\ n \in more /\ fresh \subseteq more
  BY <1>8
<1> HIDE DEF g, more
<1>18. n # i /\ n # call.root /\ i \in Live(g, lost) /\ i \in more
  <2>1. n # i /\ n # call.root
    BY <1>4, <1>7, <1>13
  <2>2. i \in Live(heap, lost)
    BY <1>6, <1>7
  <2> QED  BY <1>7, <1>14, <1>17, <2>1, <2>2 DEF Live
<1>19. Sound(heap', lost, house, more, tops \cup (IF Top.head = NULL THEN {n} ELSE {}), Filling)
  <2>1. CASE Top.head = NULL
    <3>1. n \in tops \cup {n} /\ home[n] = NULL /\ g[n].next = NULL /\ g[i].type # "object"
      BY <1>7, <1>9, <1>14, <1>16, <1>18
    <3> DEFINE all == tops \cup {n}
    <3> HIDE DEF tops, all
    <3>2. Sound(g, lost, [home EXCEPT ![n] = i], more, all, Filling)
      BY <1>7, <1>13, <1>18, <3>1, SoundWithHome DEF all
    <3> QED  BY <1>3, <1>15, <2>1, <3>2 DEF g, r, all
  <2>2. CASE Top.head # NULL
    <3> DEFINE C == {n}
               all == tops \cup {n}
    <3>1. /\ C \in SUBSET Cells /\ n \in C /\ l \notin C /\ Closed(g, C)
          /\ l \in Cells /\ home[l] = i /\ g[l].next = NULL /\ n \in all /\ g[n].next = NULL
          /\ (g[i].type = "object" => g[n].key # NULL) /\ (n \in more <=> l \in more)
          /\ i # NULL
      BY <1>6, <1>7, <1>8, <1>9, <1>13, <1>14, <1>17, <1>18, <2>2 DEF Closed
    <3>2. all \ {n} = tops
      BY <1>13
    <3> HIDE DEF C, all, tops, l
    <3>3. Sound(Suffix(g, l, n), lost, [home EXCEPT ![n] = home[l]], more, all \ {n}, Filling)
      BY <1>7, <1>13, <1>16, <3>1, SoundWithLast DEF all
    <3>4. heap' = Suffix(g, l, n)
      BY <1>3, <2>2 DEF g, r, l
    <3>5. tops \cup (IF Top.head = NULL THEN {n} ELSE {}) = tops
      BY <2>2
    <3> QED  BY <1>15, <3>1, <3>2, <3>3, <3>4, <3>5
  <2> QED  BY <2>1, <2>2
<1>20. /\ heap'[n].type = "invalid" /\ heap'[n].child = NULL /\ heap'[n].ref = FALSE
       /\ heap'[n].next = NULL /\ heap'[n].key = key
       /\ \A c \in Cells \ {n} :
            /\ heap'[c].type = heap[c].type /\ heap'[c].ref = heap[c].ref
            /\ heap'[c].child = heap[c].child /\ heap'[c].key = heap[c].key
            /\ Top.head = NULL \/ c # l => heap'[c].next = heap[c].next
  <2>1. CASE Top.head = NULL
    <3>1. heap' = g
      BY <1>3, <2>1 DEF g, r
    <3> QED  BY <1>9, <1>14, <2>1, <3>1
  <2>2. CASE Top.head # NULL
    <3>1. heap' = [g EXCEPT ![l].next = n, ![n].prev = l]
      BY <1>3, <2>2 DEF g, r, Suffix
    <3>2. n # l /\ l \in Cells
      BY <1>7, <1>13, <2>2
    <3> HIDE DEF l
    <3>3. /\ heap'[n] = [g[n] EXCEPT !.prev = l] /\ heap'[l] = [g[l] EXCEPT !.next = n]
          /\ \A c \in Cells : c # n /\ c # l => heap'[c] = g[c]
      BY <1>8, <1>14, <3>1, <3>2
    <3>4. g[n] \in Items /\ g[l] \in Items
      BY <1>8, <1>14, <3>2
    <3>5. /\ heap'[n].type = r.type /\ heap'[n].child = r.child /\ heap'[n].ref = r.ref
          /\ heap'[n].next = r.next /\ heap'[n].key = r.key
      BY <1>14, <3>3, <3>4 DEF Items
    <3>6. /\ heap'[l].type = heap[l].type /\ heap'[l].child = heap[l].child
          /\ heap'[l].ref = heap[l].ref /\ heap'[l].key = heap[l].key
      BY <1>14, <3>2, <3>3, <3>4 DEF Items
    <3>7. \A c \in Cells \ {n} :
              /\ heap'[c].type = heap[c].type /\ heap'[c].ref = heap[c].ref
              /\ heap'[c].child = heap[c].child /\ heap'[c].key = heap[c].key
              /\ c # l => heap'[c].next = heap[c].next
      BY <1>14, <3>3, <3>6
    <3> QED  BY <1>9, <2>2, <3>5, <3>7
  <2> QED  BY <2>1, <2>2
<1>21. Filling' = Filling
  BY <1>5, <1>10, <1>11, <1>12 DEF Filling, s
<1>22. CallTops' = CallTops \cup (IF Top.head = NULL THEN {n} ELSE {})
  <2>1. CallTops = {call.root} \cup ({s[k].head : k \in DOMAIN s} \ {NULL})
    BY <1>2 DEF CallTops, s
  <2>2. CallTops' = {call.root} \cup ({S[k].head : k \in DOMAIN S} \ {NULL})
    BY <1>12 DEF CallTops
  <2>3. n # NULL
    BY <1>6, <1>8
  <2> QED  BY <1>5, <1>10, <1>11, <2>1, <2>2, <2>3
<1>23. Sound(heap', lost', house, more, held' \cup CallTops', Filling')
  BY <1>2, <1>19, <1>21, <1>22
<1>24. CallType' /\ HeldInv(house, more)'
  <2>1. CallType'
    BY <1>4, <1>12 DEF CallType
  <2>2. ASSUME NEW x \in held PROVE heap'[x].next = NULL /\ house[x] = NULL /\ x \notin more
    <3>1. x \in Cells /\ x # n /\ heap[x].next = NULL /\ home[x] = NULL /\ x \notin fresh
      BY <1>4, <1>6, <1>13 DEF HeldInv
    <3>2. Top.head # NULL => x # l
      BY <1>7, <3>1
    <3> QED  BY <1>16, <1>20, <3>1, <3>2 DEF more
  <2> QED  BY <1>2, <2>1, <2>2 DEF HeldInv
<1>25. ParseInv(house, more)'
  <2>1. heap'[call.root].next = NULL /\ house[call.root] = NULL /\ call.root \in more
    <3>1. Top.head # NULL => call.root # l
      BY <1>4, <1>6, <1>7
    <3> QED  BY <1>4, <1>6, <1>16, <1>17, <1>18, <1>20, <3>1
  <2>2. \A k \in DOMAIN s : S[k].item = s[k].item
    BY <1>5, <1>10, <1>11
  <2>3. Apart(S)
    BY <1>4, <1>11, <2>2 DEF Apart
  <2>4. ASSUME NEW k \in DOMAIN s, k # m PROVE OpenText(heap', house, more, s[k])
    <3> DEFINE e == s[k]
    <3>1. OpenText(heap, home, fresh, e) /\ e.item # i /\ e.item \in fresh /\ e.item \in Cells
      BY <1>4, <1>5, <1>6, <2>4 DEF OpenText, Apart
    <3> HIDE DEF e
    <3>2. e.item # n
      BY <1>13, <3>1
    <3>3. e.head # NULL => /\ e.head \in Cells /\ e.last \in Cells /\ e.head # n /\ e.last # n
                           /\ (Top.head # NULL => e.last # l)
      BY <1>6, <1>7, <1>13, <3>1 DEF OpenText
    <3>4. \A x \in Cells : house[x] = e.item => home[x] = e.item /\ heap'[x].key = heap[x].key
      BY <1>16, <1>20, <3>1
    <3>5. OpenText(heap', house, more, e)
      BY <1>16, <1>17, <1>20, <3>1, <3>2, <3>3, <3>4, OpenTextStays
    <3> QED  BY <3>5 DEF e
  <2>5. OpenText(heap', house, more, f)
    <3>1. /\ f.item \in more /\ heap'[f.item].child = NULL /\ ~heap'[f.item].ref
          /\ heap'[f.item].type = "invalid" /\ f.type \in Containers
      BY <1>7, <1>10, <1>18, <1>20 DEF OpenText
    <3>2. /\ f.head # NULL /\ f.last # NULL /\ {f.head, f.last} \subseteq more
          /\ house[f.head] = f.item /\ house[f.last] = f.item /\ heap'[f.last].next = NULL
      BY <1>6, <1>7, <1>8, <1>10, <1>13, <1>16, <1>17, <1>20 DEF OpenText
    <3>3. \A x \in Cells : house[x] = f.item => (f.type = "object" => heap'[x].key # NULL)
      BY <1>7, <1>8, <1>10, <1>16, <1>20 DEF OpenText
    <3> QED  BY <3>1, <3>2, <3>3 DEF OpenText
  <2>6. \A k \in DOMAIN S : OpenText(heap', house, more, S[k])
    BY <1>5, <1>11, <2>4, <2>5
  <2>7. \A k \in DOMAIN S : S[k].item = IF k = 1 THEN call.root ELSE S[k - 1].last
    <3> SUFFICES ASSUME NEW k \in DOMAIN s
                 PROVE  S[k].item = IF k = 1 THEN call.root ELSE S[k - 1].last
      BY <1>11
    <3>1. k # 1 => k - 1 \in DOMAIN s /\ k - 1 # m
      BY <1>5
    <3> QED  BY <1>4, <1>11, <2>2, <3>1
  <2>8. S # <<>> /\ Top' = f
    BY <1>5, <1>11, <1>12 DEF Top
  <2>9. /\ heap'[n].type = "invalid" /\ heap'[n].child = NULL /\ ~heap'[n].ref
        /\ n = Top'.last /\ n \in more /\ n \notin Filling'
        /\ \A x \in Cells : house[x] # n
    <3>1. Filling \subseteq fresh
      BY <1>1, <1>2, TextFacts
    <3> QED  BY <1>10, <1>13, <1>16, <1>17, <1>18, <1>20, <1>21, <2>8, <3>1
  <2> QED  BY <1>12, <2>1, <2>3, <2>6, <2>7, <2>8, <2>9 DEF ParseInv
<1>26. CopyInv(house, more)' /\ SourceInv(house)'
  BY <1>12 DEF CopyInv, SourceInv
<1>27. CallInv(house, more)'
  BY <1>12, <1>24, <1>25, <1>26 DEF CallInv
<1> QED  BY <1>16, <1>17, <1>23, <1>27 DEF CJsonInv

\* A list that is not yet hung under its container leads to none of the containers
\* that are being filled.
LEMMA TextStaysOut ==
    ASSUME CellsAssumption, NEW home, NEW fresh,
           Sound(heap, lost, home, fresh, held \cup CallTops, Filling),
           CallInv(home, fresh), call.op = "parse", call.stack # <<>>, Top.head # NULL
    PROVE  /\ Top.head \in CallTops /\ Top.head \in Cells /\ Top.head \in fresh
           /\ call.root \notin Freed(heap, Top.head)
           /\ \A k \in DOMAIN call.stack : call.stack[k].item \notin Freed(heap, Top.head)
           /\ \A k \in DOMAIN call.stack :
                  k # Len(call.stack) /\ call.stack[k].head # NULL =>
                      /\ call.stack[k].last \notin Freed(heap, Top.head)
                      /\ call.stack[k].head \notin Freed(heap, Top.head)
<1> DEFINE s == call.stack
           m == Len(s)
           tops == held \cup CallTops
<1>1. PICK x : x = Top.head
  OBVIOUS
<1>2. /\ CallType /\ Apart(s)
      /\ \A k \in DOMAIN s : OpenText(heap, home, fresh, s[k])
      /\ \A k \in DOMAIN s : s[k].item = IF k = 1 THEN call.root ELSE s[k - 1].last
      /\ home[call.root] = NULL /\ call.root \in fresh
  BY DEF CallInv, ParseInv
<1>3. /\ m \in DOMAIN s /\ Top = s[m] /\ DOMAIN s = 1 .. m /\ m \in Nat
      /\ \A k \in DOMAIN s : s[k].item \in Cells
  BY <1>2, StackFacts DEF Top
<1>4. /\ fresh \subseteq Live(heap, lost) /\ Live(heap, lost) \subseteq Cells /\ NULL \notin Cells
      /\ call.root \in Cells
  BY TextFacts
<1>5. OpenText(heap, home, fresh, Top)
  BY <1>2, <1>3
<1>6. /\ x \in CallTops /\ x \in tops /\ x \in Cells /\ x \in fresh
      /\ home[x] = s[m].item /\ s[m].item \in Cells
  BY <1>1, <1>3, <1>4, <1>5 DEF OpenText, CallTops
<1>7. Freed(heap, x) \in SUBSET Cells
  BY <1>6, FreshIsClosed
<1>8. ASSUME NEW k \in DOMAIN s, k # m, s[k].head # NULL
      PROVE  s[k].last \notin Freed(heap, x) /\ s[k].head \notin Freed(heap, x)
  <2> DEFINE e == s[k]
  <2>1. OpenText(heap, home, fresh, e) /\ e.item # s[m].item /\ e.item \in Cells
    BY <1>2, <1>3, <1>8 DEF Apart
  <2>2. e.head # NULL /\ e.head \in tops
    BY <1>8 DEF CallTops
  <2> HIDE DEF e
  <2>3. /\ e.last \in Live(heap, lost) /\ home[e.last] = e.item /\ heap[e.item].child = NULL
        /\ home[x] # e.item /\ e.head # x
    BY <1>4, <1>6, <2>1, <2>2 DEF OpenText
  <2>4. e.last \notin Freed(heap, x)
    <3> HIDE DEF tops
    <3> QED  BY <1>6, <2>3, ListStaysOut DEF tops
  <2>5. e.head \notin Freed(heap, x)
    <3> HIDE DEF tops
    <3> QED  BY <1>6, <2>2, <2>3, TopsStayOut DEF tops
  <2> QED  BY <2>4, <2>5 DEF e
<1>9. call.root \notin Freed(heap, x)
  <2>1. NULL \notin Freed(heap, x) /\ home[x] # NULL /\ call.root \in Live(heap, lost)
    BY <1>2, <1>4, <1>6, <1>7
  <2> HIDE DEF tops
  <2> QED  BY <1>2, <1>6, <2>1, ListStaysOut DEF tops
<1>10. ASSUME NEW k \in DOMAIN s PROVE s[k].item \notin Freed(heap, x)
  <2>1. CASE k = 1
    BY <1>2, <1>9, <2>1
  <2>2. CASE k # 1
    <3>1. k - 1 \in DOMAIN s /\ k - 1 # m /\ s[k].item = s[k - 1].last
      BY <1>2, <1>3, <2>2
    <3>2. OpenText(heap, home, fresh, s[k - 1]) /\ s[k - 1].last # NULL
      BY <1>2, <1>3, <1>4, <3>1
    <3>3. s[k - 1].head # NULL
      BY <3>2 DEF OpenText
    <3> QED  BY <1>8, <3>1, <3>3
  <2> QED  BY <2>1, <2>2
<1> QED  BY <1>1, <1>6, <1>8, <1>9, <1>10

\* parse_array or parse_object ends, and hangs its list under its item.
LEMMA ParseCloseKeeps ==
    ASSUME CellsAssumption, ScalarsAssumption, CJsonInv, ParseClose
    PROVE  CJsonInv'
<1>1. PICK home \in [Cells -> Pointers], fresh \in SUBSET Cells :
          /\ Sound(heap, lost, home, fresh, held \cup CallTops, Filling)
          /\ CallInv(home, fresh)
  BY DEF CJsonInv
<1> DEFINE s == call.stack
           m == Len(s)
           i == Top.item
           x == Top.head
           l == Top.last
           tops == held \cup CallTops
           h0 == IF x = NULL THEN heap ELSE [heap EXCEPT ![x].prev = l]
           g == [heap EXCEPT ![i].type = Top.type]
<1>2. /\ call.op = "parse" /\ ~call.failing /\ s # <<>> /\ call.todo = NULL
      /\ held' = held /\ lost' = lost
      /\ heap' = [h0 EXCEPT ![i].type = Top.type, ![i].child = x]
      /\ call' = [call EXCEPT !.stack = Below]
  BY DEF ParseClose, Working
<1>3. /\ CallType /\ HeldInv(home, fresh) /\ Apart(s)
      /\ \A k \in DOMAIN s : OpenText(heap, home, fresh, s[k])
      /\ \A k \in DOMAIN s : s[k].item = IF k = 1 THEN call.root ELSE s[k - 1].last
      /\ heap[call.root].next = NULL /\ home[call.root] = NULL /\ call.root \in fresh
  BY <1>1, <1>2, SMTT(30) DEF CallInv, ParseInv
<1>4. /\ m \in Nat /\ DOMAIN s = 1 .. m /\ m > 0 /\ m \in DOMAIN s
      /\ Top = s[m] /\ Top \in Frames
      /\ Below \in Seq(Frames) /\ DOMAIN Below = 1 .. m - 1
      /\ \A k \in DOMAIN Below : Below[k] = s[k] /\ k \in DOMAIN s
  BY <1>2, <1>3, StackFacts, ZenonT(60) DEF Top
<1>5. /\ heap \in [Cells -> Items] /\ NULL \notin Cells /\ fresh \subseteq Live(heap, lost)
      /\ Live(heap, lost) \subseteq Cells /\ call.root \in Cells /\ held \subseteq Cells
      /\ tops \subseteq Live(heap, lost)
  <2>1. tops \subseteq Live(heap, lost)
    BY <1>1 DEF Sound, Shape
  <2> QED  BY <1>1, <1>2, <2>1, TextFacts
<1>6. /\ OpenText(heap, home, fresh, Top) /\ i \in Cells /\ i \in fresh /\ i \in Filling
      /\ i \in Live(heap, lost) /\ heap[i].child = NULL /\ ~heap[i].ref /\ heap[i].type = "invalid"
      /\ Top.type \in Containers
  <2>1. OpenText(heap, home, fresh, Top) /\ i \in Filling
    BY <1>3, <1>4 DEF Filling
  <2> QED  BY <1>5, <2>1 DEF OpenText
<1>7. x # NULL => /\ x \in Cells /\ l \in Cells /\ x # i /\ x \in fresh /\ home[x] = i /\ home[l] = i
                  /\ heap[l].next = NULL /\ x \in CallTops
  <2>1. x # NULL => x \in Cells /\ l \in Cells /\ x \in fresh /\ home[x] = i /\ home[l] = i
                    /\ heap[l].next = NULL /\ x \in CallTops
    BY <1>2, <1>4, <1>5, <1>6, ZenonT(60) DEF OpenText, CallTops
  <2>2. x # NULL => x \in Freed(heap, x) /\ i \notin Freed(heap, x)
    BY <1>1, <1>2, <1>4, <2>1, TextStaysOut, FreshIsClosed, ZenonT(60)
  <2> QED  BY <2>1, <2>2
<1>8. /\ Top.type \in Types /\ Top.type # "free" /\ Top.type \notin Scalars
  BY <1>6 DEF Types, Containers, ScalarsAssumption
<1>9. /\ g \in [Cells -> Items]
      /\ \A c \in Cells : /\ g[c].ref = heap[c].ref /\ g[c].next = heap[c].next
                          /\ g[c].prev = heap[c].prev /\ g[c].child = heap[c].child
                          /\ g[c].key = heap[c].key
                          /\ c # i => g[c] = heap[c]
      /\ g[i].type = Top.type
  <2> HIDE DEF i
  <2> QED  BY <1>5, <1>6, <1>8 DEF Items
<1> HIDE DEF g
<1>10. Sound(g, lost, home, fresh, tops, Filling)
  <2>1. NamesInv(g, home)
    <3>1. NamesInv(heap, home) /\ \A c \in Cells : home[c] # NULL => home[c] \in Cells
      BY <1>1 DEF Sound, Pointers
    <3>2. \A c \in Cells : home[c] = i => (Top.type = "object" => heap[c].key # NULL)
      BY <1>6 DEF OpenText
    <3> HIDE DEF i
    <3> QED  BY <1>6, <1>8, <1>9, <3>1, <3>2 DEF NamesInv
  <2>2. \A c \in Cells : /\ g[c].ref = heap[c].ref /\ g[c].next = heap[c].next
                         /\ g[c].prev = heap[c].prev /\ g[c].child = heap[c].child
                         /\ g[c].type = "free" <=> heap[c].type = "free"
                         /\ g[c].type = "free" => g[c] = heap[c]
                         /\ g[c].type # heap[c].type => heap[c].child = NULL
    BY <1>6, <1>8, <1>9
  <2> HIDE DEF tops
  <2> QED  BY <1>1, <1>9, <2>1, <2>2, SoundWhenLinksStay DEF tops
<1>11. \A t \in tops : t # x => home[t] # i
  <2>1. ASSUME NEW t \in tops, t # x PROVE home[t] # i
    <3>1. \/ home[t] = NULL
          \/ \E k \in DOMAIN s : t = s[k].head /\ home[t] = s[k].item
      <4>1. \A u \in held \cup CallTops :
                \/ home[u] = NULL
                \/ \E k \in DOMAIN call.stack : u = call.stack[k].head /\ home[u] = call.stack[k].item
        BY <1>1, <1>2, TextFacts
      <4> QED  BY <4>1
    <3>2. ASSUME NEW k \in DOMAIN s, t = s[k].head, home[t] = s[k].item PROVE s[k].item # i
      BY <1>3, <1>4, <2>1, <3>2 DEF Apart
    <3> QED  BY <1>5, <1>6, <3>1, <3>2
  <2> QED  BY <2>1
<1>12. /\ Sound(heap', lost, home, fresh, tops \ {x}, Filling \ {i})
       /\ heap' \in [Cells -> Items]
       /\ \A c \in Cells : /\ heap'[c].next = heap[c].next /\ heap'[c].key = heap[c].key
                           /\ c # i => /\ heap'[c].type = heap[c].type /\ heap'[c].ref = heap[c].ref
                                       /\ heap'[c].child = heap[c].child
  <2>1. CASE x = NULL
    <3>1. heap' = [heap EXCEPT ![i].type = Top.type, ![i].child = NULL]
      BY <1>2, <2>1
    <3>2. heap' = g
      <4>1. [heap[i] EXCEPT !.type = Top.type, !.child = NULL] = [heap[i] EXCEPT !.type = Top.type]
        BY <1>5, <1>6 DEF Items
      <4> HIDE DEF i
      <4> QED  BY <1>5, <1>6, <3>1, <4>1 DEF g
    <3>3. x \notin tops /\ tops \ {x} = tops
      BY <1>5, <2>1
    <3> DEFINE less == Filling \ {i}
    <3>4. (i \in Cells => g[i].child = NULL) /\ (\A t \in tops : home[t] # i) /\ Filling \ {i} \subseteq less
      BY <1>6, <1>9, <1>11, <3>3
    <3> HIDE DEF tops, less, i
    <3>5. Sound(g, lost, home, fresh, tops, less)
      BY <1>10, <3>4, SoundWhenEmpty
    <3> QED  BY <1>9, <3>2, <3>3, <3>5 DEF less
  <2>2. CASE x # NULL
    <3> DEFINE C == Freed(heap, x)
               g2 == [g EXCEPT ![i].child = x]
               g3 == [g2 EXCEPT ![x].prev = l]
    <3>1. C \in SUBSET Cells /\ Closed(heap, C) /\ x \in C /\ i \notin C
      <4>1. \A y \in Cells : Freed(heap, y) \in SUBSET Cells /\ Closed(heap, Freed(heap, y)) /\ y \in Freed(heap, y)
        BY <1>1, FreshIsClosed
      <4>2. \A k \in DOMAIN s : s[k].item \notin Freed(heap, x)
        BY <1>1, <1>2, <2>2, TextStaysOut
      <4>3. i \notin Freed(heap, x)
        BY <1>4, <4>2
      <4> QED  BY <1>7, <2>2, <4>1, <4>3
    <3> HIDE DEF C
    <3>2. Closed(g, C)
      BY <1>9, <3>1 DEF Closed
    <3>3. Live(g, lost) = Live(heap, lost)
      <4>1. \A c \in Cells : g[c].type = "free" <=> heap[c].type = "free"
        BY <1>6, <1>8, <1>9
      <4> QED  BY <4>1 DEF Live
    <3>4. /\ i \in Live(g, lost) /\ ~g[i].ref /\ g[i].child = NULL /\ g[i].type \notin Scalars
          /\ x \in tops /\ home[x] = i /\ (x \in fresh <=> i \in fresh)
          /\ (g[i].type = "object" => g[x].key # NULL)
      BY <1>6, <1>7, <1>8, <1>9, <2>2, <3>3 DEF OpenText
    <3>5. Sound(g2, lost, [home EXCEPT ![x] = i], fresh, tops \ {x}, Filling)
      <4> HIDE DEF tops, i, x, g2
      <4> QED  BY <1>6, <1>10, <3>1, <3>2, <3>4, SoundWithFirst DEF g2
    <3>6. [home EXCEPT ![x] = i] = home
      BY <1>1, <1>7, <2>2
    <3>7. /\ g2 \in [Cells -> Items] /\ g2[i] = [g[i] EXCEPT !.child = x]
          /\ \A c \in Cells : c # i => g2[c] = g[c]
      <4> HIDE DEF i, x
      <4> QED  BY <1>6, <1>7, <1>9, <2>2 DEF Items, Pointers
    <3>8. g2[i].child = x /\ g2[i].ref = g[i].ref /\ g2[i].next = g[i].next /\ g2[i].key = g[i].key
      BY <1>6, <1>9, <3>7 DEF Items
    <3>9. Kid(g2, i, x) /\ g2[l].next = NULL /\ \A t \in tops \ {x} : home[t] # i
      <4>1. g2[l].next = g[l].next
        BY <1>7, <2>2, <3>7, <3>8
      <4> QED  BY <1>6, <1>7, <1>9, <1>11, <2>2, <3>8, <4>1 DEF Kid
    <3> HIDE DEF g2
    <3>10. Sound(g3, lost, home, fresh, tops \ {x}, Filling \ {i})
      <4> DEFINE rest == tops \ {x}
                 less == Filling \ {i}
      <4>1. Filling \ {i} \subseteq less /\ Sound(g2, lost, home, fresh, rest, Filling)
        BY <3>5, <3>6
      <4> HIDE DEF rest, less, i, x, l
      <4>2. Sound([g2 EXCEPT ![x].prev = l], lost, home, fresh, rest, less)
        BY <1>6, <1>7, <2>2, <3>9, <4>1, SoundWhenClosed DEF rest
      <4> QED  BY <4>2 DEF rest, less
    <3>11. /\ g3 \in [Cells -> Items] /\ g3[x] = [heap[x] EXCEPT !.prev = l]
           /\ g3[i] = [heap[i] EXCEPT !.type = Top.type, !.child = x]
           /\ \A c \in Cells : c # x /\ c # i => g3[c] = heap[c]
      <4>1. g3 \in [Cells -> Items] /\ g3[x] = [g2[x] EXCEPT !.prev = l] /\ \A c \in Cells : c # x => g3[c] = g2[c]
        <5> HIDE DEF i, x, l
        <5> QED  BY <1>7, <2>2, <3>7 DEF Items, Pointers
      <4>2. g2[x] = heap[x]
        BY <1>7, <1>9, <2>2, <3>7
      <4>3. g[i] = [heap[i] EXCEPT !.type = Top.type]
        BY <1>5, <1>6 DEF g
      <4>4. g2[i] = [heap[i] EXCEPT !.type = Top.type, !.child = x]
        BY <1>5, <1>6, <3>7, <4>3 DEF Items
      <4> QED  BY <1>7, <1>9, <2>2, <3>7, <4>1, <4>2, <4>4
    <3> HIDE DEF g3
    <3>12. heap' = g3
      <4>1. heap' = [[heap EXCEPT ![x].prev = l] EXCEPT ![i].type = Top.type, ![i].child = x]
        BY <1>2, <2>2
      <4> HIDE DEF i, x, l
      <4>2. /\ heap' \in [Cells -> Items] /\ heap'[x] = [heap[x] EXCEPT !.prev = l]
            /\ heap'[i] = [heap[i] EXCEPT !.type = Top.type, !.child = x]
            /\ \A c \in Cells : c # x /\ c # i => heap'[c] = heap[c]
        BY <1>5, <1>6, <1>7, <1>8, <2>2, <4>1 DEF Items, Pointers
      <4> QED  BY <3>11, <4>2
    <3>13. /\ g3[x].next = heap[x].next /\ g3[x].key = heap[x].key /\ g3[x].type = heap[x].type
           /\ g3[x].ref = heap[x].ref /\ g3[x].child = heap[x].child
           /\ g3[i].next = heap[i].next /\ g3[i].key = heap[i].key
      BY <1>5, <1>6, <1>7, <2>2, <3>11, SMTT(30) DEF Items
    <3> HIDE DEF i, x, l
    <3> QED  BY <3>10, <3>11, <3>12, <3>13
  <2> QED  BY <2>1, <2>2
<1>13. /\ call' \in [op : {"none", "parse", "duplicate", "array"}, stack : Seq(Frames),
                     root : Pointers, todo : Pointers, failing : BOOLEAN]
       /\ call'.op = "parse" /\ call'.stack = Below /\ call'.root = call.root
       /\ call'.todo = NULL /\ call'.failing = call.failing
  BY <1>2, <1>3, <1>4 DEF CallType
<1>14. Filling' = Filling \ {i}
  <2>1. \A k \in DOMAIN s : k # m => s[k].item # i
    BY <1>3, <1>4 DEF Apart
  <2>2. Filling' = {s[k].item : k \in DOMAIN Below}
    BY <1>4, <1>13 DEF Filling
  <2>3. Filling = {s[k].item : k \in DOMAIN s}
    BY DEF Filling
  <2> QED  BY <1>4, <2>1, <2>2, <2>3
<1>15. held \cup CallTops' = tops \ {x}
  <2>1. CallTops = {call.root} \cup ({s[k].head : k \in DOMAIN s} \ {NULL})
    BY <1>2 DEF CallTops
  <2>2. CallTops' = {call.root} \cup ({s[k].head : k \in DOMAIN Below} \ {NULL})
    BY <1>4, <1>13 DEF CallTops
  <2>3. x \notin held /\ x # call.root
    BY <1>3, <1>5, <1>6, <1>7 DEF HeldInv
  <2>4. \A k \in DOMAIN s : k # m => s[k].head # x \/ s[k].head = NULL
    BY <1>3, <1>4, <1>7, SMTT(30) DEF OpenText, Apart
  <2> QED  BY <1>4, <2>1, <2>2, <2>3, <2>4
<1>16. Sound(heap', lost', home, fresh, held' \cup CallTops', Filling')
  BY <1>2, <1>12, <1>14, <1>15
<1>17. CallType' /\ HeldInv(home, fresh)'
  <2>1. CallType'
    BY <1>3, <1>13 DEF CallType
  <2> QED  BY <1>2, <1>3, <1>5, <1>12, <2>1 DEF HeldInv
<1>18. ParseInv(home, fresh)'
  <2>1. heap'[call.root].next = NULL
    BY <1>3, <1>5, <1>12
  <2>2. Apart(Below)
    BY <1>3, <1>4 DEF Apart
  <2>3. ASSUME NEW k \in DOMAIN Below PROVE OpenText(heap', home, fresh, Below[k])
    <3> DEFINE e == s[k]
    <3>1. OpenText(heap, home, fresh, e) /\ e.item # i /\ e.item \in Cells /\ Below[k] = e
      BY <1>3, <1>4, <1>5, <2>3 DEF OpenText, Apart
    <3> HIDE DEF e, i
    <3>2. e.head # NULL => e.last \in Cells
      BY <1>5, <3>1 DEF OpenText
    <3>3. OpenText(heap', home, fresh, e)
      BY <1>12, <3>1, <3>2, OpenTextStays
    <3> QED  BY <3>1, <3>3
  <2>4. \A k \in DOMAIN Below : Below[k].item = IF k = 1 THEN call.root ELSE Below[k - 1].last
    <3> SUFFICES ASSUME NEW k \in DOMAIN Below
                 PROVE  Below[k].item = IF k = 1 THEN call.root ELSE Below[k - 1].last
      OBVIOUS
    <3>1. k # 1 => k - 1 \in DOMAIN Below
      BY <1>4
    <3> QED  BY <1>3, <1>4, <3>1
  <2> QED  BY <1>3, <1>13, <2>1, <2>2, <2>3, <2>4 DEF ParseInv
<1>19. CopyInv(home, fresh)' /\ SourceInv(home)'
  BY <1>13 DEF CopyInv, SourceInv
<1>20. CallInv(home, fresh)'
  BY <1>13, <1>17, <1>18, <1>19 DEF CallInv
<1> QED  BY <1>1, <1>16, <1>20 DEF CJsonInv

-----------------------------------------------------------------------------
(* Copies, and arrays of numbers.                                            *)

\* A frame of a copy looks the same while its item and its last child do.
LEMMA OpenCopyStays ==
    ASSUME NEW h, NEW g, NEW home, NEW house, NEW fresh, NEW more, NEW f,
           OpenCopy(h, home, fresh, f), f.item \in more, f.last # NULL => f.last \in more,
           g[f.item].child = h[f.item].child, g[f.item].ref = h[f.item].ref,
           g[f.item].type = h[f.item].type, g[f.item].next = h[f.item].next,
           house[f.item] = home[f.item],
           f.last # NULL => house[f.last] = home[f.last] /\ g[f.last].next = h[f.last].next,
           \A x \in Cells : h[f.item].child = x => g[x].prev = h[x].prev
    PROVE  OpenCopy(g, house, more, f)
  BY DEF OpenCopy

\* What is known while a copy is made.
LEMMA CopyFacts ==
    ASSUME CellsAssumption, NEW home, NEW fresh,
           Sound(heap, lost, home, fresh, held \cup CallTops, Filling),
           CallInv(home, fresh), call.op \in {"duplicate", "array"}
    PROVE  /\ heap \in [Cells -> Items] /\ home \in [Cells -> Pointers] /\ NULL \notin Cells
           /\ fresh \subseteq Live(heap, lost) /\ Live(heap, lost) \subseteq Cells
           /\ CallTops = Filling /\ Filling \subseteq fresh /\ held \subseteq Live(heap, lost)
           /\ \A t \in held \cup Filling : home[t] = NULL /\ heap[t].next = NULL
<1>1. /\ heap \in [Cells -> Items] /\ home \in [Cells -> Pointers] /\ NULL \notin Cells
      /\ fresh \subseteq Live(heap, lost) /\ Live(heap, lost) \subseteq Cells
      /\ held \subseteq Live(heap, lost)
  BY DEF Sound, Shape, CellsAssumption, Live
<1>2. /\ HeldInv(home, fresh)
      /\ \A k \in DOMAIN call.stack : OpenCopy(heap, home, fresh, call.stack[k])
  BY DEF CallInv, CopyInv
<1>3. CallTops = Filling
  BY DEF CallTops
<1>4. Filling \subseteq fresh /\ \A t \in Filling : home[t] = NULL /\ heap[t].next = NULL
  BY <1>2 DEF Filling, OpenCopy
<1>5. \A t \in held : home[t] = NULL /\ heap[t].next = NULL
  BY <1>2 DEF HeldInv
<1> QED  BY <1>1, <1>3, <1>4, <1>5

\* The first item of a copy, or of an array of numbers, is allocated.
LEMMA CopyStarts ==
    ASSUME CellsAssumption, NEW home, Ready(heap, lost, home, held),
           NEW n \in Free, NEW r \in Items, r.type # "free", r.next = NULL, r.prev = NULL,
           r.child = NULL, r.ref = FALSE,
           NEW f \in Frames, f.item = n, f.type = r.type, f.last = NULL,
           NEW op \in {"duplicate", "array"},
           heap' = [heap EXCEPT ![n] = r], held' = held, lost' = lost,
           call' = [NoCall EXCEPT !.op = op, !.stack = <<f>>],
           SourceInv(home)'
    PROVE  CJsonInv'
<1>1. PICK fresh : fresh = {n}
  OBVIOUS
<1>2. /\ n \in Cells /\ heap[n].type = "free" /\ NULL \notin Cells
      /\ heap \in [Cells -> Items] /\ home \in [Cells -> Pointers]
  BY ReadyFacts DEF Free
<1>3. /\ Sound([heap EXCEPT ![n] = r], lost, home, fresh, held \cup {n}, {n})
      /\ Unknown(heap, lost, home, n) /\ n \notin held
  BY <1>1, <1>2, SoundWithStart, ZenonT(60)
<1>4. /\ call'.op = op /\ call'.root = NULL /\ call'.todo = NULL /\ call'.stack = <<f>>
      /\ call'.failing = FALSE
  BY DEF NoCall
<1>5. <<f>> # <<>> /\ <<f>> \in Seq(Frames) /\ DOMAIN <<f>> = {1} /\ <<f>>[1] = f
  OBVIOUS
<1>6. Filling' = {n} /\ CallTops' = {n}
  BY <1>4, <1>5 DEF Filling, CallTops
<1>7. Sound(heap', lost', home, fresh, held' \cup CallTops', Filling')
  BY <1>3, <1>6
<1>8. heap'[n] = r /\ \A c \in Cells : c # n => heap'[c] = heap[c]
  BY <1>2
<1>9. CallType'
  <2>1. NULL \in Pointers
    BY DEF Pointers
  <2>2. call' = [op |-> op, stack |-> <<f>>, root |-> NULL, todo |-> NULL, failing |-> FALSE]
    BY DEF NoCall
  <2> QED  BY <1>4, <1>5, <2>1, <2>2 DEF CallType
<1>10. HeldInv(home, fresh)'
  <2>1. \A x \in held : x \in Cells /\ heap[x].next = NULL /\ home[x] = NULL
    BY ReadyFacts DEF Ready
  <2> QED  BY <1>1, <1>3, <1>8, <2>1 DEF HeldInv
<1>11. CopyInv(home, fresh)'
  <2>1. OpenCopy(heap', home, fresh, f)
    BY <1>1, <1>2, <1>3, <1>8 DEF OpenCopy, Unknown
  <2>2. Apart(<<f>>)
    BY <1>5 DEF Apart
  <2> QED  BY <1>4, <1>5, <2>1, <2>2 DEF CopyInv
<1>12. ParseInv(home, fresh)'
  BY <1>4 DEF ParseInv
<1>13. CallInv(home, fresh)'
  BY <1>4, <1>9, <1>10, <1>11, <1>12 DEF CallInv
<1>14. fresh \in SUBSET Cells
  BY <1>1, <1>2
<1> QED  BY <1>2, <1>7, <1>13, <1>14 DEF CJsonInv

\* cJSON_CreateIntArray and its like allocate the array.
LEMMA ArrayStartKeeps ==
    ASSUME CellsAssumption, NamesAssumption, CJsonInv, ArrayStart
    PROVE  CJsonInv'
<1>1. PICK n \in Free :
          /\ heap' = [heap EXCEPT ![n] = [Blank EXCEPT !.type = "array"]]
          /\ call' = [NoCall EXCEPT !.op = "array", !.stack = <<Frame(n, "array", NULL)>>]
          /\ held' = held /\ lost' = lost
  BY DEF ArrayStart
<1>2. PICK home : Ready(heap, lost, home, held)
  BY IdleIsReady DEF ArrayStart
<1>3. PICK f : f = Frame(n, "array", NULL)
  OBVIOUS
<1>4. f \in Frames /\ f.item = n /\ f.type = "array" /\ f.last = NULL
  BY <1>3 DEF Frame, Frames, Free, Pointers, Types, Containers
<1>5. PICK r : r = [Blank EXCEPT !.type = "array"]
  OBVIOUS
<1>6. /\ r \in Items /\ r.type = "array" /\ r.type # "free"
      /\ r.next = NULL /\ r.prev = NULL /\ r.child = NULL /\ r.ref = FALSE
  BY <1>5 DEF Blank, Items, Pointers, Types, Containers
<1>7. SourceInv(home)'
  <2>1. call'.op = "array" /\ call'.stack = <<f>>
    BY <1>1, <1>3 DEF NoCall
  <2>2. Len(<<f>>) = 1 /\ <<f>>[1] = f
    OBVIOUS
  <2>3. Top' = f
    BY <2>1, <2>2 DEF Top
  <2> QED  BY <1>4, <2>1, <2>2, <2>3 DEF SourceInv
<1> QED  BY <1>1, <1>2, <1>3, <1>4, <1>5, <1>6, <1>7, CopyStarts

\* cJSON_Duplicate copies the item it is given.
LEMMA DuplicateStartKeeps ==
    ASSUME CellsAssumption, NamesAssumption, ScalarsAssumption, CJsonInv, DuplicateStart
    PROVE  CJsonInv'
<1>1. PICK x \in Owned, n \in Free, recurse \in BOOLEAN :
          /\ heap' = Copied(heap, n, x)
          /\ IF recurse
             THEN /\ call' = [NoCall EXCEPT !.op = "duplicate",
                                            !.stack = <<Frame(n, heap[x].type, heap[x].child)>>]
                  /\ held' = held
             ELSE Return(n)
          /\ lost' = lost
  BY DEF DuplicateStart
<1>2. PICK home : Ready(heap, lost, home, held)
  BY IdleIsReady DEF DuplicateStart
<1>3. /\ x \in Cells /\ heap[x] \in Items /\ heap[x].type # "free"
      /\ heap[x].child # NULL =>
             \E q \in Cells : Kid(heap, q, heap[x].child) /\ heap[q].type = heap[x].type
  BY <1>2, ReferenceIsOne
<1>4. PICK r : r = [Blank EXCEPT !.type = heap[x].type, !.key = heap[x].key]
  OBVIOUS
<1>5. /\ r \in Items /\ r.type = heap[x].type /\ r.key = heap[x].key /\ r.type # "free"
      /\ r.next = NULL /\ r.prev = NULL /\ r.child = NULL /\ r.ref = FALSE
  <2>1. heap[x].type \in Types /\ heap[x].key \in Keys \cup {NULL}
    BY <1>3 DEF Items
  <2>2. /\ r.type = heap[x].type /\ r.key = heap[x].key /\ r.next = NULL /\ r.prev = NULL
        /\ r.child = NULL /\ r.ref = FALSE
    BY <1>4 DEF Blank
  <2>3. r \in Items
    BY <1>4, <2>1 DEF Blank, Items, Pointers
  <2> QED  BY <1>3, <2>2, <2>3
<1>6. heap' = [heap EXCEPT ![n] = r]
  BY <1>1, <1>4 DEF Copied
<1>7. /\ n \in Cells /\ heap[n].type = "free" /\ heap \in [Cells -> Items] /\ NULL \notin Cells
      /\ home \in [Cells -> Pointers]
  BY <1>2, ReadyFacts DEF Free
<1>8. CASE ~recurse
  <2>1. /\ Ready([heap EXCEPT ![n] = r], lost, home, held \cup {n})
    BY <1>2, <1>5, <1>7, ReadyWithNew
  <2> QED  BY <1>1, <1>6, <1>8, <2>1, ReadyIsEnough DEF Return
<1>9. CASE recurse
  <2>1. PICK f : f = Frame(n, heap[x].type, heap[x].child)
    OBVIOUS
  <2>2. f \in Frames /\ f.item = n /\ f.type = r.type /\ f.last = NULL /\ f.source = heap[x].child
    BY <1>3, <1>5, <1>7, <2>1, FieldTypes DEF Frame, Frames, Pointers
  <2>3. SourceInv(home)'
    <3>1. call'.op = "duplicate" /\ call'.stack = <<f>>
      BY <1>1, <1>9, <2>1 DEF NoCall
    <3>2. <<f>>[1] = f /\ DOMAIN <<f>> = {1}
      OBVIOUS
    <3>3. f.source # NULL => home[f.source] # NULL /\ heap'[home[f.source]].type = f.type
      <4> SUFFICES ASSUME f.source # NULL
                   PROVE  home[f.source] # NULL /\ heap'[home[f.source]].type = f.type
        OBVIOUS
      <4>1. PICK q \in Cells : Kid(heap, q, f.source) /\ heap[q].type = f.type
        BY <1>3, <1>5, <2>2
      <4>2. f.source \in Cells
        BY <2>2 DEF Frames, Pointers
      <4>3. home[f.source] = q
        BY <1>2, <4>1, <4>2 DEF Ready, Sound, HomeInv
      <4>4. q # n
        BY <1>5, <1>7, <2>2, <4>1
      <4> QED  BY <1>6, <1>7, <4>1, <4>3, <4>4
    <3> QED  BY <3>1, <3>2, <3>3 DEF SourceInv
  <2>4. call' = [NoCall EXCEPT !.op = "duplicate", !.stack = <<f>>] /\ held' = held /\ lost' = lost
    BY <1>1, <1>9, <2>1
  <2> QED  BY <1>2, <1>5, <1>6, <2>2, <2>3, <2>4, CopyStarts
<1> QED  BY <1>8, <1>9

\* The last frame of a copy gives its item to the caller.
LEMMA CopyEnds ==
    ASSUME CellsAssumption, NEW home, NEW fresh,
           Sound(heap, lost, home, fresh, held \cup CallTops, Filling),
           CallInv(home, fresh), call.op \in {"duplicate", "array"}, Len(call.stack) = 1,
           heap' = Finished(heap, Top.item, Top.last), held' = held \cup {Top.item},
           lost' = lost, call' = NoCall
    PROVE  CJsonInv'
<1>1. PICK n, l : n = Top.item /\ l = Top.last
  OBVIOUS
<1>2. CallType /\ \A k \in DOMAIN call.stack : OpenCopy(heap, home, fresh, call.stack[k])
  BY DEF CallInv, CopyInv
<1>3. DOMAIN call.stack = {1} /\ Top = call.stack[1] /\ Top \in Frames /\ Top.item \in Cells
  BY <1>2, StackFacts DEF Top
<1>4. OpenCopy(heap, home, fresh, Top)
  BY <1>2, <1>3
<1>5. Filling = {n} /\ CallTops = {n}
  <2>1. Filling = {n}
    BY <1>1, <1>3 DEF Filling
  <2>2. CallTops = Filling
    BY CopyFacts
  <2> QED  BY <2>1, <2>2
<1>6. /\ \A t \in held \cup {n} : home[t] = NULL /\ heap[t].next = NULL
      /\ NULL \notin Cells /\ held \cup {n} \subseteq Cells
  BY <1>1, <1>3, <1>5, CopyFacts
<1>7. /\ n \in Cells /\ ~heap[n].ref /\ l \in Pointers /\ (heap[n].child = NULL <=> l = NULL)
      /\ l # NULL => home[l] = n /\ heap[l].next = NULL
  BY <1>1, <1>3, <1>4 DEF OpenCopy, Frames
<1> DEFINE less == {}
           open == {n}
           tops == held \cup {n}
<1>8. \A t \in tops : home[t] # n
  BY <1>6, <1>7
<1>9. Sound(heap, lost, home, fresh, tops, open) /\ open \ {n} \subseteq less
  BY <1>5
<1> HIDE DEF less, open, tops
<1>10. /\ Sound(Finished(heap, n, l), lost, home, fresh, tops, less)
       /\ Finishes(heap, Finished(heap, n, l), n)
  BY <1>7, <1>8, <1>9, SoundWhenFinished
<1>11. \A t \in tops : Finished(heap, n, l)[t].next = NULL
  BY <1>6, <1>10 DEF tops, Finishes
<1>12. less = {}
  BY DEF less
<1>13. Ready(Finished(heap, n, l), lost, home, tops)
  BY <1>10, <1>11, <1>12, ReadyWhenHandedOver
<1>14. Ready(heap', lost', home, held')
  BY <1>1, <1>13 DEF tops
<1> QED  BY <1>14, ReadyIsEnough

\* cJSON_CreateIntArray and its like return the array.
LEMMA ArrayReturnKeeps == ASSUME CellsAssumption, CJsonInv, ArrayReturn PROVE CJsonInv'
<1>1. PICK home \in [Cells -> Pointers], fresh \in SUBSET Cells :
          /\ Sound(heap, lost, home, fresh, held \cup CallTops, Filling)
          /\ CallInv(home, fresh)
  BY DEF CJsonInv
<1>2. /\ call.op = "array" /\ ~call.failing /\ heap' = Finished(heap, Top.item, Top.last)
      /\ held' = held \cup {Top.item} /\ call' = NoCall /\ lost' = lost
  BY DEF ArrayReturn, Working, Return, Finished
<1>3. Len(call.stack) = 1
  BY <1>1, <1>2 DEF CallInv, SourceInv
<1> QED  BY <1>1, <1>2, <1>3, CopyEnds

\* The loop of cJSON_CreateIntArray allocates the next number.
LEMMA ArrayElementKeeps ==
    ASSUME CellsAssumption, ScalarsAssumption, CJsonInv, ArrayElement
    PROVE  CJsonInv'
<1>1. PICK home \in [Cells -> Pointers], fresh \in SUBSET Cells :
          /\ Sound(heap, lost, home, fresh, held \cup CallTops, Filling)
          /\ CallInv(home, fresh)
  BY DEF CJsonInv
<1>2. PICK p, l : p = Top.item /\ l = Top.last
  OBVIOUS
<1>3. PICK n \in Free, t \in Scalars :
          LET h == [heap EXCEPT ![n] = [Blank EXCEPT !.type = t]] IN
          /\ heap' = IF l = NULL THEN [h EXCEPT ![p].child = n] ELSE Suffix(h, l, n)
          /\ call' = [call EXCEPT !.stack = <<[Top EXCEPT !.last = n]>>]
  BY <1>2 DEF ArrayElement
<1>4. PICK r : r = [Blank EXCEPT !.type = t]
  OBVIOUS
<1>5. PICK h : h = [heap EXCEPT ![n] = r]
  OBVIOUS
<1>6. PICK f : f = [Top EXCEPT !.last = n]
  OBVIOUS
<1>7. /\ call.op = "array" /\ ~call.failing /\ held' = held /\ lost' = lost
      /\ heap' = Attached(h, p, l, n) /\ call' = [call EXCEPT !.stack = <<f>>]
  BY <1>3, <1>4, <1>5, <1>6, ZenonT(60) DEF ArrayElement, Working, Attached
<1>8. /\ CallType /\ HeldInv(home, fresh) /\ Len(call.stack) = 1 /\ Top.type = "array"
      /\ \A k \in DOMAIN call.stack : OpenCopy(heap, home, fresh, call.stack[k])
  BY <1>1, <1>7 DEF CallInv, CopyInv, SourceInv
<1>9. DOMAIN call.stack = {1} /\ Top = call.stack[1] /\ Top \in Frames /\ Top.item \in Cells
  BY <1>8, StackFacts DEF Top
<1>10. OpenCopy(heap, home, fresh, Top)
  BY <1>8, <1>9
<1>11. /\ heap \in [Cells -> Items] /\ home \in [Cells -> Pointers] /\ NULL \notin Cells
       /\ fresh \subseteq Live(heap, lost) /\ Live(heap, lost) \subseteq Cells
       /\ CallTops = Filling /\ Filling = {p} /\ held \subseteq Live(heap, lost)
       /\ \A u \in held \cup {p} : home[u] = NULL /\ heap[u].next = NULL
  <2>1. Filling = {p}
    BY <1>2, <1>9 DEF Filling
  <2> QED  BY <1>1, <1>7, <2>1, CopyFacts
<1>12. /\ n \in Cells /\ heap[n].type = "free" /\ r \in Items /\ r.type = t /\ t \notin {"free", "array", "object"}
       /\ r.next = NULL /\ r.prev = NULL /\ r.child = NULL /\ r.ref = FALSE
  BY <1>3, <1>4 DEF Free, Blank, Items, Pointers, Types, Containers, ScalarsAssumption
<1>13. /\ f \in Frames /\ f.item = p /\ f.type = "array" /\ f.last = n
  BY <1>2, <1>6, <1>8, <1>9, <1>12 DEF Frames, Pointers
<1> DEFINE tops == held \cup {p}
           open == {p}
           more == fresh \cup {n}
<1>14. /\ Sound(h, lost, home, more, tops \cup {n}, open)
       /\ Unknown(heap, lost, home, n) /\ n \notin fresh /\ n \notin tops
  <2>1. r.type # "free" /\ Sound(heap, lost, home, fresh, tops, open)
    BY <1>1, <1>11, <1>12
  <2> HIDE DEF tops, open
  <2> QED  BY <1>5, <1>12, <2>1, SoundWithFresh
<1>15. h[n] = r /\ \A c \in Cells : c # n => h[c] = heap[c]
  BY <1>5, <1>11, <1>12
<1>16. /\ p \in Cells /\ p \in fresh /\ p # n /\ ~heap[p].ref /\ heap[p].type = "array"
       /\ l \in Pointers /\ (heap[p].child = NULL <=> l = NULL)
       /\ l # NULL => l \in fresh /\ l # n /\ l \in Cells /\ home[l] = p /\ heap[l].next = NULL
       /\ \A x \in Cells : heap[p].child = x => heap[x].prev = NULL
  BY <1>2, <1>8, <1>9, <1>10, <1>11, <1>14 DEF OpenCopy, Frames
<1> DEFINE all == tops \cup {n}
           g == Attached(h, p, l, n)
<1>17. PICK house : house = [home EXCEPT ![n] = p]
  OBVIOUS
<1>18. /\ Sound(g, lost, house, more, all \ {n}, open)
       /\ Attaches(h, g, p, l, n)
  <2>1. /\ \A u \in all : home[u] = NULL
        /\ p \in all /\ p \in open /\ p \in more /\ n \in all /\ n \in more
    BY <1>11, <1>14, <1>16 DEF Unknown
  <2>2. /\ ~h[p].ref /\ h[p].type \notin Scalars /\ (h[p].child = NULL <=> l = NULL)
        /\ l # NULL => home[l] = p /\ h[l].next = NULL /\ l \in more
        /\ h[n].next = NULL /\ h[p].type # "object"
    BY <1>12, <1>15, <1>16 DEF ScalarsAssumption, Containers
  <2>3. h[p].type = "object" => h[n].key # NULL
    BY <2>2
  <2> HIDE DEF all, more, g, open
  <2> QED  BY <1>14, <1>16, <1>17, <2>1, <2>2, <2>3, SoundWhenAttached DEF all, g
<1>19. /\ \A c \in Cells : /\ g[c].type = h[c].type /\ g[c].ref = h[c].ref
                           /\ l = NULL \/ c # l => g[c].next = h[c].next
                           /\ c # n => g[c].prev = h[c].prev
       /\ IF l = NULL THEN g[p].child = n /\ g[n].prev = NULL ELSE g[p].child = h[p].child
  <2> HIDE DEF g
  <2> QED  BY <1>18 DEF Attaches
<1>20. all \ {n} = tops
  BY <1>14
<1>21. /\ house \in [Cells -> Pointers] /\ house[n] = p
       /\ \A c \in Cells : c # n => house[c] = home[c]
  BY <1>11, <1>12, <1>16, <1>17 DEF Pointers
<1>22. /\ <<f>> \in Seq(Frames) /\ DOMAIN <<f>> = {1} /\ <<f>>[1] = f /\ Len(<<f>>) = 1 /\ <<f>> # <<>>
  BY <1>13
<1>23. /\ call' \in [op : {"none", "parse", "duplicate", "array"}, stack : Seq(Frames),
                     root : Pointers, todo : Pointers, failing : BOOLEAN]
       /\ call'.op = "array" /\ call'.stack = <<f>> /\ call'.root = call.root
       /\ call'.failing = call.failing
  BY <1>7, <1>8, <1>22 DEF CallType
<1>24. Filling' = {p} /\ CallTops' = {p}
  BY <1>13, <1>22, <1>23 DEF Filling, CallTops
<1>25. Sound(heap', lost', house, more, held' \cup CallTops', Filling')
  BY <1>7, <1>18, <1>20, <1>24
<1>26. CallType' /\ HeldInv(house, more)'
  <2>1. CallType'
    BY <1>7, <1>8, <1>23 DEF CallType
  <2>2. ASSUME NEW x \in held PROVE heap'[x].next = NULL /\ house[x] = NULL /\ x \notin more
    <3>1. /\ x \in Cells /\ x # n /\ heap[x].next = NULL /\ home[x] = NULL /\ x \notin fresh
      BY <1>8, <1>11, <1>14 DEF HeldInv
    <3>2. l # NULL => x # l
      BY <1>16, <3>1
    <3> QED  BY <1>7, <1>15, <1>19, <1>21, <3>1, <3>2
  <2> HIDE DEF more
  <2> QED  BY <1>7, <2>1, <2>2 DEF HeldInv
<1>27. OpenCopy(heap', house, more, f)
  <2>1. /\ f.item \in more /\ ~heap'[f.item].ref /\ heap'[f.item].type = f.type
        /\ heap'[f.item].next = NULL /\ house[f.item] = NULL
    <3>1. l # NULL => p # l
      BY <1>11, <1>16
    <3> QED  BY <1>7, <1>11, <1>13, <1>15, <1>16, <1>19, <1>21, <3>1
  <2>2. heap'[f.item].child # NULL
    BY <1>7, <1>11, <1>12, <1>13, <1>15, <1>16, <1>19
  <2>3. f.last \in more /\ house[f.last] = f.item /\ heap'[f.last].next = NULL
    BY <1>7, <1>12, <1>13, <1>15, <1>16, <1>19, <1>21
  <2>4. ASSUME NEW x \in Cells, heap'[p].child = x PROVE heap'[x].prev = NULL
    <3>1. CASE l = NULL
      BY <1>7, <1>19, <2>4, <3>1
    <3>2. CASE l # NULL
      <4>1. heap[p].child = x
        BY <1>7, <1>15, <1>16, <1>19, <2>4, <3>2
      <4>2. x # n
        BY <1>14, <1>16, <4>1 DEF Unknown, Kid
      <4> QED  BY <1>7, <1>15, <1>16, <1>19, <4>1, <4>2
    <3> QED  BY <3>1, <3>2
  <2>5. f.last # NULL
    BY <1>11, <1>12, <1>13
  <2> HIDE DEF more
  <2> QED  BY <1>13, <2>1, <2>2, <2>3, <2>4, <2>5 DEF OpenCopy
<1> HIDE DEF more
<1>28. CopyInv(house, more)'
  <2>1. Apart(<<f>>)
    BY <1>22 DEF Apart
  <2> QED  BY <1>22, <1>23, <1>27, <2>1 DEF CopyInv
<1>29. SourceInv(house)' /\ ParseInv(house, more)'
  <2>1. Top' = f
    BY <1>22, <1>23 DEF Top
  <2> QED  BY <1>13, <1>22, <1>23, <2>1 DEF SourceInv, ParseInv
<1>30. CallInv(house, more)'
  BY <1>23, <1>26, <1>28, <1>29 DEF CallInv
<1>31. more \in SUBSET Cells
  BY <1>12 DEF more
<1> QED  BY <1>21, <1>25, <1>30, <1>31 DEF CJsonInv

\* The children of an item, or those that a reference points to, have a parent of its type.
LEMMA ChildHasHome ==
    ASSUME CellsAssumption, NEW h, NEW gone, NEW home, NEW fresh, NEW tops, NEW open,
           Sound(h, gone, home, fresh, tops, open), NEW x \in Live(h, gone), h[x].child # NULL
    PROVE  /\ h[x].child \in Cells /\ home[h[x].child] \in Cells
           /\ h[home[h[x].child]].type = h[x].type
<1>1. x \in Cells /\ h \in [Cells -> Items] /\ h[x].child \in Cells
  BY FieldTypes DEF Sound, Shape, Live, Pointers
<1>2. PICK q \in Cells : Kid(h, q, h[x].child) /\ h[q].type = h[x].type
  BY <1>1 DEF Sound, RefsInv, Kid
<1>3. home[h[x].child] = q
  BY <1>1, <1>2 DEF Sound, HomeInv
<1> QED  BY <1>1, <1>2, <1>3

\* cJSON_Duplicate calls itself for the next child.
LEMMA DuplicateChildKeeps ==
    ASSUME CellsAssumption, CJsonInv, DuplicateChild
    PROVE  CJsonInv'
<1>1. PICK home \in [Cells -> Pointers], fresh \in SUBSET Cells :
          /\ Sound(heap, lost, home, fresh, held \cup CallTops, Filling)
          /\ CallInv(home, fresh)
  BY DEF CJsonInv
<1>2. PICK x : x = Top.source
  OBVIOUS
<1>3. PICK n \in Free :
          /\ heap' = Copied(heap, n, x)
          /\ call' = [call EXCEPT !.stack = Append(@, Frame(n, heap[x].type, heap[x].child))]
  BY <1>2 DEF DuplicateChild
<1>4. PICK r : r = [Blank EXCEPT !.type = heap[x].type, !.key = heap[x].key]
  OBVIOUS
<1>5. PICK f : f = Frame(n, heap[x].type, heap[x].child)
  OBVIOUS
<1> DEFINE s == call.stack
           m == Len(s) + 1
           S == Append(s, f)
           more == fresh \cup {n}
<1>6. /\ call.op = "duplicate" /\ ~call.failing /\ x # NULL /\ held' = held /\ lost' = lost
      /\ heap' = [heap EXCEPT ![n] = r] /\ call' = [call EXCEPT !.stack = S]
  BY <1>2, <1>3, <1>4, <1>5 DEF DuplicateChild, Working, Copied
<1>7. /\ CallType /\ HeldInv(home, fresh) /\ s # <<>> /\ Apart(s)
      /\ \A k \in DOMAIN s : OpenCopy(heap, home, fresh, s[k])
      /\ \A k \in DOMAIN s :
             /\ s[k].source # NULL => /\ home[s[k].source] # NULL
                                      /\ heap[home[s[k].source]].type = s[k].type
             /\ k > 1 => /\ s[k - 1].source # NULL
                         /\ heap[s[k].item].key = heap[s[k - 1].source].key
  BY <1>1, <1>6 DEF CallInv, CopyInv, SourceInv
<1>8. /\ s \in Seq(Frames) /\ Len(s) \in Nat /\ DOMAIN s = 1 .. Len(s) /\ Len(s) \in DOMAIN s
      /\ Top = s[Len(s)] /\ Top \in Frames
      /\ \A k \in DOMAIN s : s[k] \in Frames /\ s[k].item \in Cells
  BY <1>7, StackFacts DEF Top
<1>9. /\ heap \in [Cells -> Items] /\ NULL \notin Cells /\ fresh \subseteq Live(heap, lost)
      /\ Live(heap, lost) \subseteq Cells /\ CallTops = Filling /\ Filling \subseteq fresh
      /\ held \subseteq Cells
  BY <1>1, <1>6, CopyFacts
<1>10. /\ x \in Cells /\ x \in Live(heap, lost) /\ home[x] # NULL
  <2>1. x \in Cells
    BY <1>2, <1>6, <1>8 DEF Frames, Pointers
  <2>2. home[x] # NULL
    BY <1>2, <1>6, <1>7, <1>8
  <2> QED  BY <1>1, <2>1, <2>2 DEF Sound, HomeInv
<1>11. /\ n \in Cells /\ heap[n].type = "free" /\ heap[x] \in Items /\ heap[x].type # "free"
  BY <1>9, <1>10 DEF Free, Live
<1>12. /\ r.type = heap[x].type /\ r.key = heap[x].key /\ r.next = NULL /\ r.prev = NULL
       /\ r.child = NULL /\ r.ref = FALSE /\ r \in Items /\ r.type # "free"
  <2>1. /\ r.type = heap[x].type /\ r.key = heap[x].key /\ r.next = NULL /\ r.prev = NULL
        /\ r.child = NULL /\ r.ref = FALSE
    BY <1>4 DEF Blank
  <2>2. heap[x].type \in Types /\ heap[x].key \in Keys \cup {NULL}
    BY <1>11 DEF Items
  <2>3. r \in Items
    BY <1>4, <2>2 DEF Blank, Items, Pointers
  <2> QED  BY <1>11, <2>1, <2>3
<1>13. /\ f \in Frames /\ f.item = n /\ f.type = heap[x].type /\ f.last = NULL
       /\ f.source = heap[x].child
  <2>1. heap[x].child \in Pointers /\ heap[x].type \in Types /\ n \in Cells /\ NULL \in Pointers
    BY <1>9, <1>10, <1>11, FieldTypes DEF Pointers
  <2> QED  BY <1>5, <2>1 DEF Frame, Frames
<1>14. /\ Sound([heap EXCEPT ![n] = r], lost, home, more, (held \cup CallTops) \cup {n}, Filling)
       /\ Unknown(heap, lost, home, n) /\ n \notin fresh
  BY <1>1, <1>11, <1>12, SoundWithFresh
<1>15. heap'[n] = r /\ \A c \in Cells : c # n => heap'[c] = heap[c]
  BY <1>6, <1>9, <1>11
<1>16. home[n] = NULL /\ n \notin held /\ \A c \in Cells : home[c] # n
  <2>1. \A c \in held : c \in Live(heap, lost)
    BY <1>1 DEF Sound, Shape
  <2> QED  BY <1>14, <2>1 DEF Unknown
<1>17. /\ DOMAIN S = DOMAIN s \cup {m} /\ m \notin DOMAIN s /\ S[m] = f /\ S # <<>>
       /\ S \in Seq(Frames) /\ \A k \in DOMAIN s : S[k] = s[k]
  BY <1>8, <1>13
<1> HIDE DEF S
<1>18. /\ call' \in [op : {"none", "parse", "duplicate", "array"}, stack : Seq(Frames),
                     root : Pointers, todo : Pointers, failing : BOOLEAN]
       /\ call'.op = "duplicate" /\ call'.stack = S /\ call'.root = NULL
       /\ call'.failing = call.failing
  BY <1>6, <1>7, <1>17 DEF CallType
<1>19. Filling' = Filling \cup {n} /\ CallTops' = Filling \cup {n}
  <2> HIDE DEF s, m
  <2>1. Filling' = Filling \cup {n}
    BY <1>13, <1>17, <1>18 DEF Filling, s
  <2> QED  BY <1>18, <2>1 DEF CallTops
<1>20. Sound(heap', lost', home, more, held' \cup CallTops', Filling')
  <2> DEFINE tops == held \cup CallTops \cup {n}
             open == Filling \cup {n}
  <2>1. Filling \subseteq open /\ Sound(heap', lost, home, more, tops, Filling)
    BY <1>6, <1>14
  <2> HIDE DEF more
  <2>2. held' \cup CallTops' = tops /\ Filling' = open
    BY <1>6, <1>9, <1>19
  <2> HIDE DEF tops, open
  <2>3. Sound(heap', lost, home, more, tops, open)
    BY <2>1, SoundWhenOpened
  <2> QED  BY <1>6, <2>2, <2>3
<1>21. more \in SUBSET Cells /\ fresh \subseteq more /\ n \in more /\ \A c \in more : c = n \/ c \in fresh
  BY <1>11
<1> HIDE DEF more
<1>22. CallType' /\ HeldInv(home, more)'
  <2>1. CallType'
    BY <1>18 DEF CallType
  <2>2. \A c \in held : heap'[c].next = NULL /\ home[c] = NULL /\ c \notin more
    BY <1>7, <1>9, <1>15, <1>16, <1>21 DEF HeldInv
  <2> QED  BY <1>6, <2>1, <2>2 DEF HeldInv
<1>23. CopyInv(home, more)'
  <2>1. ASSUME NEW k \in DOMAIN s PROVE OpenCopy(heap', home, more, s[k])
    <3> DEFINE e == s[k]
    <3>1. OpenCopy(heap, home, fresh, e) /\ e.item \in Cells
      BY <1>7, <1>8
    <3> HIDE DEF e
    <3>2. /\ e.item \in fresh /\ e.item # n
          /\ e.last # NULL => e.last \in fresh /\ e.last \in Cells /\ e.last # n
      BY <1>9, <1>14, <3>1 DEF OpenCopy
    <3>3. \A c \in Cells : heap[e.item].child = c => c # n
      BY <1>9, <1>14, <3>2 DEF Unknown
    <3>4. OpenCopy(heap', home, more, e)
      BY <1>15, <1>21, <3>1, <3>2, <3>3, OpenCopyStays
    <3> QED  BY <3>4 DEF e
  <2>2. OpenCopy(heap', home, more, f)
    BY <1>9, <1>12, <1>13, <1>15, <1>16, <1>21 DEF OpenCopy
  <2>3. Apart(S)
    <3>1. \A k \in DOMAIN s : s[k].item # n
      BY <1>9, <1>14 DEF Filling
    <3> HIDE DEF s, m
    <3> QED  BY <1>7, <1>13, <1>17, <3>1 DEF Apart
  <2>4. \A k \in DOMAIN S : OpenCopy(heap', home, more, S[k])
    BY <1>17, <2>1, <2>2
  <2> QED  BY <1>17, <1>18, <2>3, <2>4 DEF CopyInv
<1>24. SourceInv(home)'
  <2>1. ASSUME NEW k \in DOMAIN S
        PROVE  /\ S[k].source # NULL => /\ home[S[k].source] # NULL
                                        /\ heap'[home[S[k].source]].type = S[k].type
               /\ k > 1 => /\ S[k - 1].source # NULL
                           /\ heap'[S[k].item].key = heap'[S[k - 1].source].key
    <3>1. CASE k \in DOMAIN s
      <4>1. S[k].source # NULL => /\ home[S[k].source] # NULL
                                  /\ heap'[home[S[k].source]].type = S[k].type
        <5> SUFFICES ASSUME s[k].source # NULL
                     PROVE  home[s[k].source] # NULL /\ heap'[home[s[k].source]].type = s[k].type
          BY <1>17, <3>1
        <5>1. s[k].source \in Cells
          BY <1>8, <3>1 DEF Frames, Pointers
        <5>2. home[s[k].source] # NULL /\ heap[home[s[k].source]].type = s[k].type
          BY <1>7, <3>1
        <5>3. home[s[k].source] \in Cells /\ home[s[k].source] # n
          BY <1>1, <1>16, <5>1, <5>2 DEF Pointers
        <5> QED  BY <1>15, <5>2, <5>3
      <4>2. ASSUME k > 1
            PROVE  S[k - 1].source # NULL /\ heap'[S[k].item].key = heap'[S[k - 1].source].key
        <5>1. k - 1 \in DOMAIN s
          BY <1>8, <3>1, <4>2
        <5>2. s[k - 1].source # NULL /\ heap[s[k].item].key = heap[s[k - 1].source].key
          BY <1>7, <3>1, <4>2
        <5>3. s[k - 1].source \in Cells /\ home[s[k - 1].source] # NULL
          BY <1>7, <1>8, <5>1, <5>2 DEF Frames, Pointers
        <5>4. s[k].item # n /\ s[k].item \in Cells
          BY <1>8, <1>9, <1>14, <3>1 DEF Filling
        <5> QED  BY <1>15, <1>16, <1>17, <3>1, <5>1, <5>2, <5>3, <5>4
      <4> QED  BY <4>1, <4>2
    <3>2. CASE k = m
      <4>1. f.source # NULL => home[f.source] # NULL /\ heap'[home[f.source]].type = f.type
        <5> SUFFICES ASSUME heap[x].child # NULL
                     PROVE  home[f.source] # NULL /\ heap'[home[f.source]].type = f.type
          BY <1>13
        <5>1. /\ heap[x].child \in Cells /\ home[heap[x].child] \in Cells
              /\ heap[home[heap[x].child]].type = heap[x].type
          BY <1>1, <1>10, ChildHasHome
        <5>2. home[heap[x].child] # n
          BY <1>16, <5>1
        <5> QED  BY <1>9, <1>13, <1>15, <5>1, <5>2
      <4>2. k - 1 \in DOMAIN s /\ S[k - 1] = Top
        BY <1>8, <1>17, <3>2
      <4>3. x # n
        BY <1>10, <1>16
      <4>4. S[k - 1].source = x /\ heap'[f.item].key = heap'[x].key
        BY <1>2, <1>10, <1>12, <1>13, <1>15, <4>2, <4>3
      <4> QED  BY <1>6, <1>17, <3>2, <4>1, <4>4
    <3> QED  BY <1>17, <3>1, <3>2
  <2> QED  BY <1>18, <2>1 DEF SourceInv
<1>25. ParseInv(home, more)'
  BY <1>18 DEF ParseInv
<1>26. CallInv(home, more)'
  BY <1>18, <1>22, <1>23, <1>24, <1>25 DEF CallInv
<1> QED  BY <1>1, <1>20, <1>21, <1>26 DEF CJsonInv

\* cJSON_Duplicate returns a copy: to its own loop, or to the caller.
LEMMA DuplicateReturnKeeps ==
    ASSUME CellsAssumption, CJsonInv, DuplicateReturn
    PROVE  CJsonInv'
<1>1. PICK home \in [Cells -> Pointers], fresh \in SUBSET Cells :
          /\ Sound(heap, lost, home, fresh, held \cup CallTops, Filling)
          /\ CallInv(home, fresh)
  BY DEF CJsonInv
<1>2. /\ call.op = "duplicate" /\ ~call.failing /\ Top.source = NULL /\ lost' = lost
  BY DEF DuplicateReturn, Working
<1> DEFINE s == call.stack
           m == Len(s)
<1>3. /\ CallType /\ HeldInv(home, fresh) /\ s # <<>> /\ Apart(s)
      /\ \A k \in DOMAIN s : OpenCopy(heap, home, fresh, s[k])
      /\ \A k \in DOMAIN s :
             /\ s[k].source # NULL => /\ home[s[k].source] # NULL
                                      /\ heap[home[s[k].source]].type = s[k].type
             /\ k > 1 => /\ s[k - 1].source # NULL
                         /\ heap[s[k].item].key = heap[s[k - 1].source].key
  BY <1>1, <1>2 DEF CallInv, CopyInv, SourceInv
<1>4. /\ s \in Seq(Frames) /\ m \in Nat /\ m > 0 /\ DOMAIN s = 1 .. m /\ m \in DOMAIN s
      /\ Top = s[m] /\ Top \in Frames
      /\ \A k \in DOMAIN s : s[k] \in Frames /\ s[k].item \in Cells
      /\ Below \in Seq(Frames) /\ Len(Below) = m - 1 /\ DOMAIN Below = 1 .. m - 1
      /\ \A k \in DOMAIN Below : Below[k] = s[k] /\ k \in DOMAIN s
  BY <1>3, StackFacts DEF Top
<1>5. PICK n, h : n = Top.item /\ h = Finished(heap, Top.item, Top.last)
  OBVIOUS
<1>6. CASE Below = <<>>
  <2>1. Len(call.stack) = 1
    BY <1>4, <1>6
  <2>2. /\ heap' = Finished(heap, Top.item, Top.last)
        /\ held' = held \cup {Top.item} /\ call' = NoCall
    BY <1>6 DEF DuplicateReturn, Return, Finished
  <2> QED  BY <1>1, <1>2, <2>1, <2>2, CopyEnds
<1>7. CASE Below # <<>>
  <2> DEFINE j == m - 1
  <2>1. j \in DOMAIN s /\ j \in Nat /\ j \in DOMAIN Below /\ j > 0 /\ j # m
    BY <1>4, <1>7
  <2>2. PICK parent : parent = s[j]
    OBVIOUS
  <2>3. PICK p, l : p = parent.item /\ l = parent.last
    OBVIOUS
  <2>4. PICK e : e = [parent EXCEPT !.last = n, !.source = heap[@].next]
    OBVIOUS
  <2> DEFINE S == [Below EXCEPT ![j] = e]
             tops == held \cup CallTops
             open == Filling \ {n}
             g == Attached(h, p, l, n)
  <2>5. /\ heap' = g /\ call' = [call EXCEPT !.stack = S] /\ held' = held
    <3>1. Below[Len(Below)] = parent /\ Len(Below) = j
      BY <1>4, <2>1, <2>2
    <3> QED  BY <1>5, <1>7, <2>3, <2>4, <3>1 DEF DuplicateReturn, Finished, Attached
  <2>6. /\ heap \in [Cells -> Items] /\ NULL \notin Cells /\ fresh \subseteq Live(heap, lost)
        /\ Live(heap, lost) \subseteq Cells /\ CallTops = Filling /\ Filling \subseteq fresh
        /\ held \subseteq Cells /\ \A t \in tops : home[t] = NULL /\ heap[t].next = NULL
    <3>1. /\ heap \in [Cells -> Items] /\ NULL \notin Cells /\ fresh \subseteq Live(heap, lost)
          /\ Live(heap, lost) \subseteq Cells /\ CallTops = Filling /\ Filling \subseteq fresh
          /\ held \subseteq Live(heap, lost)
          /\ \A t \in held \cup Filling : home[t] = NULL /\ heap[t].next = NULL
      BY <1>1, <1>2, CopyFacts
    <3> QED  BY <3>1
  <2>7. /\ OpenCopy(heap, home, fresh, Top) /\ n \in Cells /\ n \in fresh /\ n \in Filling
        /\ n \in tops /\ home[n] = NULL /\ heap[n].next = NULL /\ n \notin held
    <3>1. OpenCopy(heap, home, fresh, Top) /\ n \in Filling
      BY <1>3, <1>4, <1>5 DEF Filling
    <3> QED  BY <1>3, <2>6, <3>1 DEF HeldInv
  <2>8. /\ OpenCopy(heap, home, fresh, parent) /\ p \in Cells /\ p \in fresh /\ p \in Filling
        /\ p \in tops /\ p # n /\ home[p] = NULL /\ heap[p].next = NULL /\ p \notin held
        /\ ~heap[p].ref /\ heap[p].type = parent.type /\ l \in Pointers /\ parent \in Frames
        /\ (heap[p].child = NULL <=> l = NULL)
        /\ l # NULL => l \in fresh /\ l \in Cells /\ home[l] = p /\ heap[l].next = NULL
    <3>1. /\ OpenCopy(heap, home, fresh, parent) /\ p \in Filling /\ parent \in Frames
          /\ p # n
      BY <1>3, <1>4, <1>5, <2>1, <2>2, <2>3 DEF Filling, Apart
    <3> QED  BY <1>3, <2>3, <2>6, <3>1 DEF HeldInv, OpenCopy, Frames
  <2>9. PICK x : x = parent.source
    OBVIOUS
  <2>10. /\ x \in Cells /\ home[x] # NULL /\ home[x] \in Cells /\ x \in Live(heap, lost)
         /\ heap[home[x]].type = parent.type /\ heap[n].key = heap[x].key
    <3>1. x # NULL /\ heap[n].key = heap[x].key
      <4>1. m > 1 /\ m - 1 = j /\ m \in DOMAIN s
        BY <1>4, <2>1
      <4>2. s[m - 1].source # NULL /\ heap[s[m].item].key = heap[s[m - 1].source].key
        BY <1>3, <4>1
      <4>3. s[m].item = n /\ s[m - 1].source = x
        BY <1>4, <1>5, <2>2, <2>9, <4>1
      <4> QED  BY <4>2, <4>3
    <3>2. home[x] # NULL /\ heap[home[x]].type = parent.type /\ x \in Cells
      BY <1>3, <2>1, <2>2, <2>8, <2>9, <3>1 DEF Frames, Pointers
    <3> QED  BY <1>1, <3>1, <3>2 DEF Pointers, Sound, HomeInv
  <2>11. heap[p].type \notin Scalars /\ (heap[p].type = "object" => heap[n].key # NULL)
    <3>1. \A t \in tops : home[t] # home[x]
      BY <2>6, <2>10
    <3> HIDE DEF tops
    <3>2. heap[home[x]].child # NULL
      BY <1>1, <2>10, <3>1, NoChildNoList DEF tops
    <3> QED  BY <1>1, <2>8, <2>10, <3>2 DEF Sound, NamesInv
  <2>12. Sound(h, lost, home, fresh, tops, open) /\ Finishes(heap, h, n)
    <3>1. /\ ~heap[n].ref /\ Top.last \in Pointers /\ (heap[n].child = NULL <=> Top.last = NULL)
          /\ Top.last # NULL => home[Top.last] = n /\ heap[Top.last].next = NULL
      BY <1>4, <1>5, <2>7 DEF OpenCopy, Frames
    <3>2. Filling \ {n} \subseteq open /\ \A t \in tops : home[t] # n
      BY <2>6, <2>7
    <3> HIDE DEF open, tops
    <3>3. /\ Sound(Finished(heap, n, Top.last), lost, home, fresh, tops, open)
          /\ Finishes(heap, Finished(heap, n, Top.last), n)
      BY <1>1, <2>7, <3>1, <3>2, SoundWhenFinished DEF tops
    <3> QED  BY <1>5, <3>3
  <2>13. PICK house : house = [home EXCEPT ![n] = p]
    OBVIOUS
  <2>14. \A c \in Cells : /\ h[c].type = heap[c].type /\ h[c].ref = heap[c].ref /\ h[c].key = heap[c].key
                          /\ h[c].next = heap[c].next /\ h[c].child = heap[c].child
                          /\ c # heap[n].child => h[c].prev = heap[c].prev
    BY <2>12 DEF Finishes
  <2>15. Sound(g, lost, house, fresh, tops \ {n}, open) /\ Attaches(h, g, p, l, n)
    <3>1. p \in open /\ p \in tops /\ n \in tops /\ p \in fresh /\ n \in fresh /\ n # p
      BY <2>7, <2>8
    <3>2. \A t \in tops : home[t] = NULL
      BY <2>6
    <3>3. ~h[p].ref /\ h[p].type \notin Scalars /\ h[n].next = NULL
      BY <2>7, <2>8, <2>11, <2>14
    <3>4. l \in Pointers /\ (h[p].child = NULL <=> l = NULL)
      BY <2>8, <2>14
    <3>5. l # NULL => home[l] = p /\ h[l].next = NULL /\ l \in fresh
      BY <2>8, <2>14
    <3>6. h[p].type = "object" => h[n].key # NULL
      BY <2>7, <2>8, <2>11, <2>14
    <3> HIDE DEF open, tops
    <3>7. /\ Sound(Attached(h, p, l, n), lost, [home EXCEPT ![n] = p], fresh, tops \ {n}, open)
          /\ Attaches(h, Attached(h, p, l, n), p, l, n)
      BY <2>12, <3>1, <3>2, <3>3, <3>4, <3>5, <3>6, SoundWhenAttached, ZenonT(60)
    <3> HIDE DEF g
    <3> QED  BY <2>13, <3>7 DEF g
  <2>16. /\ \A c \in Cells : /\ heap'[c].type = heap[c].type /\ heap'[c].ref = heap[c].ref
                             /\ heap'[c].key = heap[c].key
                             /\ l = NULL \/ c # l => heap'[c].next = heap[c].next
                             /\ c # n /\ c # heap[n].child => heap'[c].prev = heap[c].prev
                             /\ c # p => heap'[c].child = heap[c].child
         /\ IF l = NULL THEN heap'[p].child = n /\ heap'[n].prev = NULL
                        ELSE heap'[p].child = heap[p].child
    <3> HIDE DEF g
    <3> QED  BY <2>5, <2>8, <2>14, <2>15 DEF Attaches
  <2>17. /\ house \in [Cells -> Pointers] /\ house[n] = p
         /\ \A c \in Cells : c # n => house[c] = home[c]
    BY <2>7, <2>8, <2>13 DEF Pointers
  <2>18. /\ e \in Frames /\ e.item = p /\ e.type = parent.type /\ e.last = n
         /\ e.source = heap[x].next
    <3>1. heap[x].next \in Pointers /\ n \in Pointers
      BY <2>6, <2>7, <2>10, FieldTypes DEF Pointers
    <3> QED  BY <2>3, <2>4, <2>8, <2>9, <3>1 DEF Frames
  <2>19. /\ S \in Seq(Frames) /\ DOMAIN S = 1 .. j /\ S # <<>> /\ S[j] = e
         /\ \A k \in DOMAIN S : k \in DOMAIN s /\ k # m /\ (k # j => S[k] = s[k])
    BY <1>4, <2>1, <2>18
  <2> HIDE DEF S, j
  <2>20. /\ call' \in [op : {"none", "parse", "duplicate", "array"}, stack : Seq(Frames),
                       root : Pointers, todo : Pointers, failing : BOOLEAN]
         /\ call'.op = "duplicate" /\ call'.stack = S /\ call'.root = NULL
         /\ call'.failing = call.failing
    BY <1>2, <1>3, <2>5, <2>19 DEF CallType
  <2>21. \A k \in DOMAIN S : S[k].item = s[k].item /\ s[k].item # n
    BY <1>3, <1>4, <1>5, <2>2, <2>3, <2>18, <2>19 DEF Apart
  <2>22. Filling' = open /\ CallTops' = open
    <3>1. Filling = {s[k].item : k \in DOMAIN s}
      BY DEF Filling
    <3>2. Filling' = {S[k].item : k \in DOMAIN S}
      BY <2>20 DEF Filling
    <3>3. \A k \in DOMAIN s : k \in DOMAIN S \/ k = m
      BY <1>4, <2>1, <2>19 DEF j
    <3>4. Filling' = open
      BY <1>4, <1>5, <2>19, <2>21, <3>1, <3>2, <3>3, SMTT(30)
    <3> QED  BY <2>20, <3>4 DEF CallTops
  <2>23. Sound(heap', lost', house, fresh, held' \cup CallTops', Filling')
    <3>1. tops \ {n} = held \cup open
      BY <2>6, <2>7
    <3> HIDE DEF g, open, tops
    <3> QED  BY <1>2, <2>5, <2>15, <2>22, <3>1
  <2>24. CallType' /\ HeldInv(house, fresh)'
    <3>1. CallType'
      BY <2>20 DEF CallType
    <3>2. ASSUME NEW c \in held PROVE heap'[c].next = NULL /\ house[c] = NULL /\ c \notin fresh
      <4>1. /\ c \in Cells /\ c # n /\ heap[c].next = NULL /\ home[c] = NULL /\ c \notin fresh
        BY <1>3, <2>6, <2>7 DEF HeldInv
      <4>2. l # NULL => c # l
        BY <2>8, <4>1
      <4> QED  BY <2>16, <2>17, <4>1, <4>2
    <3> QED  BY <2>5, <3>1, <3>2 DEF HeldInv
  <2>25. CopyInv(house, fresh)'
    <3>1. Apart(S)
      BY <1>3, <2>19, <2>21 DEF Apart
    <3>2. \A c, y \in Cells : Kid(heap, c, y) => home[y] = c /\ y # n
      BY <1>1, <2>7 DEF Sound, HomeInv
    <3>3. ASSUME NEW k \in DOMAIN S, k # j PROVE OpenCopy(heap', house, fresh, s[k])
      <4> DEFINE f == s[k]
      <4>1. OpenCopy(heap, home, fresh, f) /\ f.item \in Cells /\ f.item # n /\ f.item # p
        BY <1>3, <1>4, <2>1, <2>2, <2>3, <2>19, <2>21, <3>3 DEF Apart
      <4> HIDE DEF f
      <4>2. /\ f.item \in fresh /\ home[f.item] = NULL
            /\ f.last # NULL => /\ f.last \in fresh /\ f.last \in Cells /\ home[f.last] = f.item
                                /\ f.last # n /\ (l # NULL => f.last # l)
        BY <2>6, <2>7, <2>8, <4>1 DEF OpenCopy
      <4>3. l # NULL => f.item # l
        BY <2>6, <2>8, <4>1, <4>2
      <4>4. ASSUME NEW c \in Cells, heap[f.item].child = c PROVE heap'[c].prev = heap[c].prev
        <5>1. Kid(heap, f.item, c)
          BY <4>1, <4>4 DEF Kid, OpenCopy
        <5>2. c # n /\ home[c] = f.item
          BY <3>2, <4>1, <5>1
        <5>3. c # heap[n].child
          BY <2>7, <3>2, <4>1, <5>2, <1>5 DEF Kid, OpenCopy
        <5> QED  BY <2>16, <5>2, <5>3
      <4>5. OpenCopy(heap', house, fresh, f)
        BY <2>16, <2>17, <4>1, <4>2, <4>3, <4>4, OpenCopyStays
      <4> QED  BY <4>5 DEF f
    <3>4. OpenCopy(heap', house, fresh, e)
      <4>1. /\ e.item \in fresh /\ ~heap'[e.item].ref /\ heap'[e.item].type = e.type
            /\ heap'[e.item].next = NULL /\ house[e.item] = NULL
        <5>1. l # NULL => p # l
          BY <2>6, <2>8
        <5> QED  BY <2>8, <2>16, <2>17, <2>18, <5>1
      <4>2. heap'[p].child # NULL /\ n # NULL
        BY <2>6, <2>7, <2>8, <2>16
      <4>3. e.last \in fresh /\ house[e.last] = e.item /\ heap'[e.last].next = NULL
        <5>1. l # NULL => n # l
          BY <2>6, <2>7, <2>8
        <5> QED  BY <2>7, <2>16, <2>17, <2>18, <5>1
      <4>4. ASSUME NEW c \in Cells, heap'[p].child = c PROVE heap'[c].prev = NULL
        <5>1. CASE l = NULL
          BY <2>16, <4>4, <5>1
        <5>2. CASE l # NULL
          <6>1. heap[p].child = c /\ Kid(heap, p, c)
            BY <2>8, <2>16, <4>4, <5>2 DEF Kid
          <6>2. c # n /\ home[c] = p
            BY <2>8, <3>2, <6>1
          <6>3. c # heap[n].child
            BY <1>5, <2>7, <2>8, <3>2, <6>2 DEF Kid, OpenCopy
          <6>4. heap[c].prev = NULL
            BY <2>3, <2>8, <6>1 DEF OpenCopy
          <6> QED  BY <2>16, <6>2, <6>3, <6>4
        <5> QED  BY <5>1, <5>2
      <4> QED  BY <2>18, <4>1, <4>2, <4>3, <4>4 DEF OpenCopy
    <3>5. \A k \in DOMAIN S : OpenCopy(heap', house, fresh, S[k])
      BY <2>19, <3>3, <3>4
    <3> QED  BY <2>19, <2>20, <3>1, <3>5 DEF CopyInv
  <2>26. SourceInv(house)'
    <3>1. ASSUME NEW y \in Cells, home[y] # NULL
          PROVE  /\ house[y] = home[y] /\ y # n /\ heap'[y].key = heap[y].key
                 /\ heap'[home[y]].type = heap[home[y]].type
      <4>1. home[y] \in Cells /\ y # n
        BY <1>1, <2>7, <3>1 DEF Pointers
      <4> QED  BY <2>16, <2>17, <4>1
    <3>2. e.source # NULL => /\ house[e.source] # NULL
                             /\ heap'[house[e.source]].type = e.type
      <4> SUFFICES ASSUME e.source # NULL
                   PROVE  house[e.source] # NULL /\ heap'[house[e.source]].type = e.type
        OBVIOUS
      <4>1. e.source \in Cells /\ heap[x].next = e.source
        BY <2>18 DEF Frames, Pointers
      <4>2. home[e.source] = home[x]
        BY <1>1, <2>10, <4>1 DEF Sound, HomeInv
      <4> QED  BY <2>10, <2>18, <3>1, <4>1, <4>2
    <3>3. ASSUME NEW k \in DOMAIN S
          PROVE  /\ S[k].source # NULL => /\ house[S[k].source] # NULL
                                          /\ heap'[house[S[k].source]].type = S[k].type
                 /\ k > 1 => /\ S[k - 1].source # NULL
                             /\ heap'[S[k].item].key = heap'[S[k - 1].source].key
      <4>1. k # j /\ s[k].source # NULL =>
                /\ house[s[k].source] # NULL
                /\ heap'[house[s[k].source]].type = s[k].type
        <5> SUFFICES ASSUME k # j, s[k].source # NULL
                     PROVE  /\ house[s[k].source] # NULL
                            /\ heap'[house[s[k].source]].type = s[k].type
          OBVIOUS
        <5>1. k \in DOMAIN s
          BY <2>19
        <5>2. s[k].source \in Cells
          BY <1>4, <5>1 DEF Frames, Pointers
        <5> QED  BY <1>3, <3>1, <5>1, <5>2
      <4>2. ASSUME k > 1
            PROVE  S[k - 1].source # NULL /\ heap'[S[k].item].key = heap'[S[k - 1].source].key
        <5>1. k - 1 \in DOMAIN S /\ k - 1 # j /\ k \in DOMAIN s /\ k - 1 \in DOMAIN s
          BY <1>4, <2>1, <2>19, <4>2 DEF j
        <5>2. s[k - 1].source # NULL /\ heap[s[k].item].key = heap[s[k - 1].source].key
          BY <1>3, <4>2, <5>1
        <5>3. s[k - 1].source \in Cells /\ home[s[k - 1].source] # NULL
          BY <1>3, <1>4, <5>1, <5>2 DEF Frames, Pointers
        <5>4. heap'[s[k].item].key = heap[s[k].item].key
          BY <1>4, <2>16, <5>1
        <5> QED  BY <2>19, <2>21, <3>1, <5>1, <5>2, <5>3, <5>4
      <4> QED  BY <2>19, <3>2, <4>1, <4>2
    <3> QED  BY <2>20, <3>3 DEF SourceInv
  <2>27. ParseInv(house, fresh)'
    BY <2>20 DEF ParseInv
  <2>28. CallInv(house, fresh)'
    BY <2>20, <2>24, <2>25, <2>26, <2>27 DEF CallInv
  <2> QED  BY <1>1, <2>17, <2>23, <2>28 DEF CJsonInv
<1> QED  BY <1>6, <1>7

-----------------------------------------------------------------------------
(* A call that fails.                                                        *)

\* A frame whose item and list are not freed stays as it is.
LEMMA OpenTextRemains ==
    ASSUME NEW h, NEW g, NEW home, NEW house, NEW fresh, NEW F, NEW f, NULL \notin Cells,
           fresh \subseteq Cells, OpenText(h, home, fresh, f), Freeing(h, g, home, house, F),
           f.item \notin F, f.head # NULL => f.head \notin F /\ f.last \notin F
    PROVE  OpenText(g, house, fresh \ F, f)
<1>1. f.item \in Cells /\ (f.head # NULL => f.head \in Cells /\ f.last \in Cells)
  BY DEF OpenText
<1>2. g[f.item] = h[f.item]
  BY <1>1 DEF Freeing
<1>3. f.head # NULL => /\ house[f.head] = home[f.head] /\ house[f.last] = home[f.last]
                       /\ g[f.last] = h[f.last]
  BY <1>1 DEF Freeing
<1>4. \A x \in Cells : house[x] = f.item => home[x] = f.item /\ g[x] = h[x]
  BY <1>1 DEF Freeing
<1> QED  BY <1>2, <1>3, <1>4 DEF OpenText

\* A copy that nothing of is freed is as it was.
LEMMA OpenCopyRemains ==
    ASSUME NEW h, NEW g, NEW home, NEW house, NEW fresh, NEW F, NEW f,
           fresh \subseteq Cells, OpenCopy(h, home, fresh, f), Freeing(h, g, home, house, F),
           f.item \notin F, f.last # NULL => f.last \notin F
    PROVE  OpenCopy(g, house, fresh \ F, f)
<1>1. f.item \in Cells /\ (f.last # NULL => f.last \in Cells)
  BY DEF OpenCopy
<1>2. g[f.item] = h[f.item] /\ house[f.item] = home[f.item]
  BY <1>1 DEF Freeing
<1>3. f.last # NULL => house[f.last] = home[f.last] /\ g[f.last] = h[f.last]
  BY <1>1 DEF Freeing
<1>4. \A x \in Cells : h[x].prev = NULL => g[x].prev = NULL
  BY DEF Freeing, Unused, Blank
<1> QED  BY <1>2, <1>3, <1>4 DEF OpenCopy

\* What is in the caller's hands is not freed.
LEMMA HeldRemains ==
    ASSUME NEW home, NEW fresh, NEW house, NEW F, held \subseteq Cells, F \subseteq fresh,
           HeldInv(home, fresh), Freeing(heap, heap', home, house, F), held' = held
    PROVE  HeldInv(house, fresh \ F)'
<1>1. PICK rest : rest = fresh \ F
  OBVIOUS
<1>2. ASSUME NEW x \in held PROVE heap'[x].next = NULL /\ house[x] = NULL /\ x \notin rest
  BY <1>1 DEF HeldInv, Freeing
<1>3. HeldInv(house, rest)'
  BY <1>2 DEF HeldInv
<1> QED  BY <1>1, <1>3

\* A frame of parse_array or parse_object frees the list it has.
LEMMA TextUnwindKeeps ==
    ASSUME CellsAssumption, CJsonInv, Unwind, call.op = "parse", call.stack # <<>>
    PROVE  CJsonInv'
<1>1. PICK home \in [Cells -> Pointers], fresh \in SUBSET Cells :
          /\ Sound(heap, lost, home, fresh, held \cup CallTops, Filling)
          /\ CallInv(home, fresh)
  BY DEF CJsonInv
<1> DEFINE s == call.stack
           m == Len(s)
           tops == held \cup CallTops
<1>2. PICK i, x : i = Top.item /\ x = Top.head
  OBVIOUS
<1>3. /\ call.failing /\ held' = held /\ lost' = lost /\ heap' = Delete(heap, x)
      /\ call' = [call EXCEPT !.stack = Below]
  BY <1>2 DEF Unwind, FreedByFrame
<1>4. /\ CallType /\ HeldInv(home, fresh) /\ Apart(s)
      /\ \A k \in DOMAIN s : OpenText(heap, home, fresh, s[k])
      /\ \A k \in DOMAIN s : s[k].item = IF k = 1 THEN call.root ELSE s[k - 1].last
      /\ heap[call.root].next = NULL /\ home[call.root] = NULL /\ call.root \in fresh
  BY <1>1 DEF CallInv, ParseInv
<1>5. /\ m \in Nat /\ DOMAIN s = 1 .. m /\ m > 0 /\ m \in DOMAIN s /\ Top = s[m]
      /\ Below \in Seq(Frames) /\ DOMAIN Below = 1 .. m - 1
      /\ \A k \in DOMAIN Below : Below[k] = s[k] /\ k \in DOMAIN s /\ k # m
  BY <1>4, StackFacts DEF Top
<1>6. /\ heap \in [Cells -> Items] /\ NULL \notin Cells /\ fresh \subseteq Live(heap, lost)
      /\ Live(heap, lost) \subseteq Cells /\ call.root \in Cells /\ held \subseteq Cells
      /\ tops \subseteq Cells /\ Filling \subseteq fresh
  <2>1. tops \subseteq Live(heap, lost)
    BY <1>1 DEF Sound, Shape
  <2> QED  BY <1>1, <2>1, TextFacts
<1>7. /\ OpenText(heap, home, fresh, Top) /\ i \in Cells /\ heap[i].child = NULL
  <2>1. OpenText(heap, home, fresh, Top)
    BY <1>4, <1>5
  <2> QED  BY <1>2, <1>6, <2>1 DEF OpenText
<1>8. PICK F : F = Freed(heap, x)
  OBVIOUS
<1>9. /\ x = NULL \/ (x \in tops /\ x \in fresh)
      /\ call.root \notin F /\ \A k \in DOMAIN s : s[k].item \notin F
      /\ \A k \in DOMAIN s : k # m /\ s[k].head # NULL => s[k].last \notin F /\ s[k].head \notin F
  <2>1. CASE x = NULL
    BY <1>6, <1>8, <2>1, DeleteNothing
  <2>2. CASE x # NULL
    BY <1>1, <1>2, <1>8, <2>2, TextStaysOut
  <2> QED  BY <2>1, <2>2
<1>10. F \subseteq fresh
  <2>1. CASE x = NULL
    BY <1>6, <1>8, <2>1, DeleteNothing
  <2>2. CASE x # NULL
    <3>1. \A y \in fresh : Freed(heap, y) \subseteq fresh
      BY <1>1, FreshIsClosed
    <3> QED  BY <1>8, <1>9, <2>2, <3>1
  <2> QED  BY <2>1, <2>2
<1>11. \A t \in tops : home[t] \notin F /\ (t # x => home[t] # i)
  <2>1. SUFFICES ASSUME NEW t \in tops PROVE home[t] \notin F /\ (t # x => home[t] # i)
    OBVIOUS
  <2>2. \/ home[t] = NULL
        \/ \E k \in DOMAIN s : t = s[k].head /\ home[t] = s[k].item
    <3>1. \A u \in held \cup CallTops :
              \/ home[u] = NULL
              \/ \E k \in DOMAIN call.stack : u = call.stack[k].head /\ home[u] = call.stack[k].item
      BY <1>1, TextFacts
    <3> QED  BY <3>1
  <2>3. ASSUME NEW k \in DOMAIN s, t = s[k].head, home[t] = s[k].item, t # x PROVE s[k].item # i
    BY <1>2, <1>4, <1>5, <2>3 DEF Apart
  <2>4. NULL \notin F
    BY <1>6, <1>10
  <2> QED  BY <1>6, <1>7, <1>9, <2>2, <2>3, <2>4
<1>12. \A p \in Filling, c \in Cells : Kid(heap, p, c) => heap[c].prev = NULL
  BY <1>4, <1>6 DEF Filling, OpenText, Kid
<1>13. PICK house :
          /\ Sound(heap', lost, house, fresh \ F, tops \ {x}, Filling)
          /\ Freeing(heap, heap', home, house, F)
          /\ \A t \in tops : t # x => t \notin F
  <2>1. \A t \in tops : t # x => home[t] \notin Freed(heap, x)
    BY <1>8, <1>11
  <2>2. x = NULL \/ (x \in tops /\ x \in fresh)
    BY <1>9
  <2>3. Sound(heap, lost, home, fresh, tops, Filling)
    BY <1>1
  <2> HIDE DEF tops
  <2>4. SoundWithout(heap, lost, home, fresh, tops, Filling, x)
    BY <1>12, <2>1, <2>2, <2>3, SoundWhenFreed
  <2> QED  BY <1>3, <1>8, <2>4 DEF SoundWithout
<1>14. Sound(heap', lost, house, fresh \ F, tops \ {x}, Filling \ {i})
  <2>1. PICK less, rest, more : less = Filling \ {i} /\ rest = tops \ {x} /\ more = fresh \ F
    OBVIOUS
  <2>2. heap'[i].child = NULL
    BY <1>2, <1>5, <1>7, <1>9, <1>13 DEF Freeing
  <2>3. \A t \in rest : house[t] # i
    BY <1>6, <1>11, <1>13, <2>1 DEF Freeing
  <2>4. i \in Cells => heap'[i].child = NULL
    BY <2>2
  <2>5. Filling \ {i} \subseteq less /\ Sound(heap', lost, house, more, rest, Filling)
    BY <1>13, <2>1
  <2>6. Sound(heap', lost, house, more, rest, less)
    BY <2>3, <2>4, <2>5, SoundWhenEmpty
  <2> QED  BY <2>1, <2>6
<1>15. /\ call' \in [op : {"none", "parse", "duplicate", "array"}, stack : Seq(Frames),
                     root : Pointers, todo : Pointers, failing : BOOLEAN]
       /\ call'.op = "parse" /\ call'.stack = Below /\ call'.root = call.root
       /\ call'.failing
  BY <1>3, <1>4, <1>5 DEF CallType
<1>16. Filling' = Filling \ {i}
  <2>1. \A k \in DOMAIN s : k # m => s[k].item # i
    BY <1>2, <1>4, <1>5 DEF Apart
  <2>2. Filling' = {s[k].item : k \in DOMAIN Below}
    BY <1>5, <1>15 DEF Filling
  <2>3. Filling = {s[k].item : k \in DOMAIN s}
    BY DEF Filling
  <2> QED  BY <1>2, <1>5, <2>1, <2>2, <2>3
<1>17. held \cup CallTops' = tops \ {x}
  <2>1. CallTops = {call.root} \cup ({s[k].head : k \in DOMAIN s} \ {NULL})
    BY DEF CallTops
  <2>2. CallTops' = {call.root} \cup ({s[k].head : k \in DOMAIN Below} \ {NULL})
    BY <1>5, <1>15 DEF CallTops
  <2>3. x \notin held /\ x # call.root
    <3>1. x # NULL => home[x] = i
      BY <1>2, <1>7 DEF OpenText
    <3> QED  BY <1>4, <1>6, <1>7, <3>1 DEF HeldInv
  <2>4. \A k \in DOMAIN s : k # m => s[k].head # x \/ s[k].head = NULL
    BY <1>2, <1>4, <1>5 DEF OpenText, Apart
  <2> QED  BY <1>2, <1>5, <2>1, <2>2, <2>3, <2>4
<1>18. Sound(heap', lost', house, fresh \ F, held' \cup CallTops', Filling')
  BY <1>3, <1>14, <1>16, <1>17
<1>19. CallType' /\ HeldInv(house, fresh \ F)'
  <2>1. CallType'
    BY <1>4, <1>6, <1>15 DEF CallType
  <2> QED  BY <1>3, <1>4, <1>6, <1>10, <1>13, <2>1, HeldRemains
<1>20. ParseInv(house, fresh \ F)'
  <2>1. /\ heap'[call.root].next = NULL /\ house[call.root] = NULL
        /\ call.root \in fresh \ F
    BY <1>4, <1>6, <1>9, <1>13 DEF Freeing
  <2>2. Apart(Below)
    BY <1>4, <1>5 DEF Apart
  <2>3. ASSUME NEW k \in DOMAIN Below PROVE OpenText(heap', house, fresh \ F, Below[k])
    <3> DEFINE e == s[k]
    <3>1. /\ OpenText(heap, home, fresh, e) /\ Below[k] = e /\ e.item \notin F
          /\ e.head # NULL => e.head \notin F /\ e.last \notin F
      BY <1>4, <1>5, <1>9
    <3> HIDE DEF e
    <3>2. fresh \subseteq Cells
      OBVIOUS
    <3>3. OpenText(heap', house, fresh \ F, e)
      BY <1>6, <1>13, <3>1, <3>2, OpenTextRemains
    <3> QED  BY <3>1, <3>3
  <2>4. \A k \in DOMAIN Below : Below[k].item = IF k = 1 THEN call.root ELSE Below[k - 1].last
    <3> SUFFICES ASSUME NEW k \in DOMAIN Below
                 PROVE  Below[k].item = IF k = 1 THEN call.root ELSE Below[k - 1].last
      OBVIOUS
    <3>1. k # 1 => k - 1 \in DOMAIN Below
      BY <1>5
    <3> QED  BY <1>4, <1>5, <3>1
  <2>5. PICK rest : rest = fresh \ F
    OBVIOUS
  <2>6. ParseInv(house, rest)'
    BY <1>15, <2>1, <2>2, <2>3, <2>4, <2>5 DEF ParseInv
  <2> QED  BY <2>5, <2>6
<1>21. CopyInv(house, fresh \ F)' /\ SourceInv(house)'
  BY <1>15 DEF CopyInv, SourceInv
<1>22. CallInv(house, fresh \ F)'
  BY <1>15, <1>19, <1>20, <1>21 DEF CallInv
<1>23. house \in [Cells -> Pointers] /\ fresh \ F \in SUBSET Cells
  BY <1>13 DEF Freeing
<1> QED  BY <1>18, <1>22, <1>23 DEF CJsonInv

\* The others free the item of their frame, with its copies so far.
LEMMA CopyUnwindKeeps ==
    ASSUME CellsAssumption, CJsonInv, Unwind, call.op \in {"duplicate", "array"},
           call.stack # <<>>
    PROVE  CJsonInv'
<1>1. PICK home \in [Cells -> Pointers], fresh \in SUBSET Cells :
          /\ Sound(heap, lost, home, fresh, held \cup CallTops, Filling)
          /\ CallInv(home, fresh)
  BY DEF CJsonInv
<1> DEFINE s == call.stack
           m == Len(s)
           tops == held \cup CallTops
<1>2. PICK i : i = Top.item
  OBVIOUS
<1>3. /\ call.failing /\ held' = held /\ lost' = lost /\ heap' = Delete(heap, i)
      /\ call' = [call EXCEPT !.stack = Below]
  BY <1>2 DEF Unwind, FreedByFrame
<1>4. /\ CallType /\ HeldInv(home, fresh) /\ Apart(s)
      /\ \A k \in DOMAIN s : OpenCopy(heap, home, fresh, s[k])
  BY <1>1 DEF CallInv, CopyInv
<1>5. /\ m \in Nat /\ DOMAIN s = 1 .. m /\ m > 0 /\ m \in DOMAIN s /\ Top = s[m]
      /\ Below \in Seq(Frames) /\ DOMAIN Below = 1 .. m - 1
      /\ \A k \in DOMAIN Below : Below[k] = s[k] /\ k \in DOMAIN s /\ k # m
  BY <1>4, StackFacts DEF Top
<1>6. /\ heap \in [Cells -> Items] /\ NULL \notin Cells /\ fresh \subseteq Live(heap, lost)
      /\ Live(heap, lost) \subseteq Cells /\ held \subseteq Cells /\ tops \subseteq Cells
      /\ CallTops = Filling /\ Filling \subseteq fresh /\ fresh \subseteq Cells
      /\ \A t \in tops : home[t] = NULL
  BY <1>1, CopyFacts
<1>7. i \in Filling /\ i \in tops /\ i \in fresh /\ i \in Cells /\ i \notin held
  <2>1. i \in Filling
    BY <1>2, <1>5 DEF Filling
  <2> QED  BY <1>4, <1>6, <2>1 DEF HeldInv
<1>8. PICK F : F = Freed(heap, i)
  OBVIOUS
<1>9. F \subseteq fresh /\ i \in F /\ NULL \notin F
  BY <1>1, <1>6, <1>7, <1>8, FreshIsClosed
<1>10. \A p \in Filling, c \in Cells : Kid(heap, p, c) => heap[c].prev = NULL
  BY <1>4 DEF Filling, OpenCopy, Kid
<1>11. PICK house :
          /\ Sound(heap', lost, house, fresh \ F, tops \ {i}, Filling)
          /\ Freeing(heap, heap', home, house, F)
          /\ \A t \in tops : t # i => t \notin F
  <2>1. \A t \in tops : t # i => home[t] \notin Freed(heap, i)
    BY <1>6, <1>8, <1>9
  <2>2. i = NULL \/ (i \in tops /\ i \in fresh)
    BY <1>7
  <2>3. Sound(heap, lost, home, fresh, tops, Filling)
    BY <1>1
  <2> HIDE DEF tops
  <2>4. SoundWithout(heap, lost, home, fresh, tops, Filling, i)
    BY <1>10, <2>1, <2>2, <2>3, SoundWhenFreed
  <2> QED  BY <1>3, <1>8, <2>4 DEF SoundWithout
<1>12. Sound(heap', lost, house, fresh \ F, tops \ {i}, Filling \ {i})
  <2>1. PICK less, rest, more : less = Filling \ {i} /\ rest = tops \ {i} /\ more = fresh \ F
    OBVIOUS
  <2>2. i \in Cells => heap'[i].child = NULL
    BY <1>9, <1>11 DEF Freeing, Unused, Blank
  <2>3. \A t \in rest : house[t] # i
    BY <1>6, <1>7, <1>11, <2>1 DEF Freeing
  <2>4. Filling \ {i} \subseteq less /\ Sound(heap', lost, house, more, rest, Filling)
    BY <1>11, <2>1
  <2>5. Sound(heap', lost, house, more, rest, less)
    BY <2>2, <2>3, <2>4, SoundWhenEmpty
  <2> QED  BY <2>1, <2>5
<1>13. /\ call' \in [op : {"none", "parse", "duplicate", "array"}, stack : Seq(Frames),
                     root : Pointers, todo : Pointers, failing : BOOLEAN]
       /\ call'.op = call.op /\ call'.stack = Below /\ call'.root = call.root
       /\ call'.failing
  BY <1>3, <1>4, <1>5 DEF CallType
<1>14. Filling' = Filling \ {i} /\ CallTops' = Filling \ {i}
  <2>1. \A k \in DOMAIN s : k # m => s[k].item # i
    BY <1>2, <1>4, <1>5 DEF Apart
  <2>2. Filling' = {s[k].item : k \in DOMAIN Below}
    BY <1>5, <1>13 DEF Filling
  <2>3. Filling = {s[k].item : k \in DOMAIN s}
    BY DEF Filling
  <2>4. Filling' = Filling \ {i}
    BY <1>2, <1>5, <2>1, <2>2, <2>3
  <2> QED  BY <1>13, <2>4 DEF CallTops
<1>15. Sound(heap', lost', house, fresh \ F, held' \cup CallTops', Filling')
  <2>1. tops \ {i} = held \cup (Filling \ {i})
    BY <1>6, <1>7
  <2> QED  BY <1>3, <1>12, <1>14, <2>1
<1>16. CallType' /\ HeldInv(house, fresh \ F)'
  <2>1. CallType'
    BY <1>4, <1>13 DEF CallType
  <2> QED  BY <1>3, <1>4, <1>6, <1>9, <1>11, <2>1, HeldRemains
<1>17. CopyInv(house, fresh \ F)'
  <2>1. Apart(Below)
    BY <1>4, <1>5 DEF Apart
  <2>2. ASSUME NEW k \in DOMAIN Below PROVE OpenCopy(heap', house, fresh \ F, Below[k])
    <3> DEFINE e == s[k]
    <3>1. /\ OpenCopy(heap, home, fresh, e) /\ Below[k] = e /\ e.item # i /\ e.item \in Filling
      BY <1>2, <1>4, <1>5 DEF Apart, Filling
    <3> HIDE DEF e
    <3>2. e.item \in tops /\ e.item \notin F
      BY <1>6, <1>11, <3>1
    <3>3. e.last # NULL => e.last \notin F
      <4> SUFFICES ASSUME e.last # NULL PROVE e.last \notin F
        OBVIOUS
      <4>1. e.last \in Live(heap, lost) /\ home[e.last] = e.item
        BY <1>6, <3>1 DEF OpenCopy
      <4>2. home[i] # e.item /\ e.item \notin Freed(heap, i)
        BY <1>6, <1>7, <1>8, <3>2
      <4> HIDE DEF tops
      <4> QED  BY <1>1, <1>7, <1>8, <4>1, <4>2, ListStaysOut DEF tops
    <3>4. OpenCopy(heap', house, fresh \ F, e)
      BY <1>6, <1>11, <3>1, <3>2, <3>3, OpenCopyRemains
    <3> QED  BY <3>1, <3>4
  <2>3. PICK rest : rest = fresh \ F
    OBVIOUS
  <2>4. CopyInv(house, rest)'
    BY <1>13, <2>1, <2>2, <2>3 DEF CopyInv
  <2> QED  BY <2>3, <2>4
<1>18. ParseInv(house, fresh \ F)' /\ SourceInv(house)'
  BY <1>13 DEF ParseInv, SourceInv
<1>19. CallInv(house, fresh \ F)'
  BY <1>13, <1>16, <1>17, <1>18 DEF CallInv
<1>20. house \in [Cells -> Pointers] /\ fresh \ F \in SUBSET Cells
  BY <1>11 DEF Freeing
<1> QED  BY <1>15, <1>19, <1>20 DEF CJsonInv

\* At last the root of a text, if there is one.
LEMMA LastUnwindKeeps ==
    ASSUME CellsAssumption, CJsonInv, Unwind, call.stack = <<>>
    PROVE  CJsonInv'
<1>1. PICK home \in [Cells -> Pointers], fresh \in SUBSET Cells :
          /\ Sound(heap, lost, home, fresh, held \cup CallTops, Filling)
          /\ CallInv(home, fresh)
  BY DEF CJsonInv
<1>2. PICK x, tops, open : x = call.root /\ tops = held \cup CallTops /\ open = Filling
  OBVIOUS
<1>3. /\ call.failing /\ held' = held /\ lost' = lost /\ heap' = Delete(heap, x)
      /\ call' = NoCall
  BY <1>2 DEF Unwind
<1>4. CallType /\ HeldInv(home, fresh) /\ call.op \in {"parse", "duplicate", "array"}
  BY <1>1, <1>3 DEF CallInv, CallType, NoCall
<1>5. open = {}
  BY <1>2 DEF Filling
<1>6. /\ NULL \notin Cells /\ tops \subseteq Cells /\ fresh \subseteq Cells
      /\ Sound(heap, lost, home, fresh, tops, open)
  BY <1>1, <1>2 DEF Sound, Shape, Live, CellsAssumption
<1>7. (x = NULL \/ (x \in tops /\ x \in fresh)) /\ tops \ {x} = held /\ held \subseteq tops
      /\ \A t \in tops : home[t] = NULL
  <2>1. CASE call.op = "parse"
    <3>1. CallTops = {x}
      BY <1>2, <2>1 DEF CallTops
    <3>2. home[x] = NULL /\ x \in fresh
      BY <1>1, <1>2, <2>1 DEF CallInv, ParseInv
    <3> QED  BY <1>2, <1>4, <3>1, <3>2 DEF HeldInv
  <2>2. CASE call.op # "parse"
    <3>1. CallTops = {} /\ x = NULL
      BY <1>2, <1>4, <1>5, <2>2 DEF CallTops, CallType
    <3> QED  BY <1>2, <1>4, <1>6, <3>1 DEF HeldInv
  <2> QED  BY <2>1, <2>2
<1>8. NULL \notin Freed(heap, x)
  <2>1. CASE x = NULL
    BY <1>6, <2>1, DeleteNothing DEF Sound, Shape
  <2>2. CASE x # NULL
    BY <1>6, <1>7, <2>2, FreshIsClosed
  <2> QED  BY <2>1, <2>2
<1>9. /\ \A t \in tops : t # x => home[t] \notin Freed(heap, x)
      /\ \A p \in open, c \in Cells : Kid(heap, p, c) => heap[c].prev = NULL
  BY <1>5, <1>7, <1>8
<1>10. PICK house :
          /\ Sound(heap', lost, house, fresh \ Freed(heap, x), tops \ {x}, open)
          /\ Freeing(heap, heap', home, house, Freed(heap, x))
          /\ \A t \in tops : t # x => t \notin Freed(heap, x)
  <2>1. SoundWithout(heap, lost, home, fresh, tops, open, x)
    BY <1>6, <1>7, <1>9, SoundWhenFreed
  <2> QED  BY <1>3, <2>1 DEF SoundWithout
<1>11. \A t \in held : heap'[t].next = NULL
  BY <1>4, <1>6, <1>7, <1>10 DEF Freeing, HeldInv, Unused, Blank
<1>12. Sound(heap', lost', house, fresh \ Freed(heap, x), held', open)
  BY <1>3, <1>7, <1>10
<1>13. Ready(heap', lost', house, held')
  BY <1>3, <1>5, <1>11, <1>12, ReadyWhenHandedOver
<1> QED  BY <1>3, <1>13, ReadyIsEnough

\* A call that fails frees the work of one of its frames after the other.
LEMMA UnwindKeeps == ASSUME CellsAssumption, CJsonInv, Unwind PROVE CJsonInv'
<1>1. call.op \in {"parse", "duplicate", "array"}
  BY DEF CJsonInv, CallInv, CallType, NoCall, Unwind
<1>2. CASE call.stack = <<>>
  BY <1>2, LastUnwindKeeps
<1>3. CASE call.stack # <<>> /\ call.op = "parse"
  BY <1>3, TextUnwindKeeps
<1>4. CASE call.stack # <<>> /\ call.op # "parse"
  BY <1>1, <1>4, CopyUnwindKeeps
<1> QED  BY <1>2, <1>3, <1>4

-----------------------------------------------------------------------------
(* The invariant of every behaviour.                                         *)

\* At the start no item is allocated.
LEMMA InitIsSound ==
    ASSUME CellsAssumption, Init
    PROVE  CJsonInv
<1> DEFINE home == [c \in Cells |-> NULL]
           none == {}
<1>1. /\ heap = [c \in Cells |-> Unused] /\ held = {} /\ lost = {} /\ call = NoCall
      /\ NULL \notin Cells
  BY DEF Init, CellsAssumption
<1>2. Unused \in Items
  BY DEF Unused, Blank, Items, Types, Pointers
<1>3. /\ \A c \in Cells : heap[c] = Unused
      /\ home \in [Cells -> Pointers] /\ \A c \in Cells : home[c] = NULL
  BY <1>1 DEF Pointers
<1>4. /\ \A c \in Cells : /\ heap[c].type = "free" /\ heap[c].next = NULL /\ heap[c].prev = NULL
                          /\ heap[c].child = NULL
  BY <1>3 DEF Unused, Blank
<1>5. Live(heap, lost) = {}
  BY <1>4 DEF Live
<1>6. call.op = "none" /\ call.stack = <<>> /\ call.root = NULL
  BY <1>1 DEF NoCall
<1>7. Filling = {}
  BY <1>6 DEF Filling
<1>8. held \cup CallTops = {}
  BY <1>1, <1>6, <1>7 DEF CallTops
<1>9. \A x : x \notin none
  OBVIOUS
<1> HIDE DEF home, none
<1>10. Sound(heap, lost, home, none, none, none)
  <2>1. Shape(heap, lost, home, none, none, none)
    BY <1>1, <1>2, <1>3, <1>9 DEF Shape
  <2>2. CellsInv(heap, lost)
    BY <1>1, <1>3, <1>5 DEF CellsInv
  <2>3. HomeInv(heap, lost, home)
    BY <1>1, <1>3, <1>4 DEF HomeInv, Kid
  <2>4. TopsInv(heap, home, none, none)
    BY <1>9 DEF TopsInv
  <2>5. LastInv(heap, home, none)
    BY <1>1, <1>4 DEF LastInv, Kid
  <2>6. Founded(heap, lost, none)
    BY <1>5 DEF Founded
  <2>7. NamesInv(heap, home)
    BY <1>3, <1>4 DEF NamesInv
  <2>8. RefsInv(heap, lost, none)
    BY <1>5 DEF RefsInv
  <2>9. FreshInv(heap, none)
    BY <1>9 DEF FreshInv
  <2> QED  BY <2>1, <2>2, <2>3, <2>4, <2>5, <2>6, <2>7, <2>8, <2>9 DEF Sound
<1>11. Sound(heap, lost, home, none, held \cup CallTops, Filling)
  BY <1>7, <1>8, <1>10 DEF none
<1>12. CallInv(home, none)
  <2>1. CallType
    <3>1. <<>> \in Seq(Frames) /\ NULL \in Pointers
      BY DEF Pointers
    <3> QED  BY <1>1, <1>6, <3>1 DEF CallType, NoCall
  <2>2. HeldInv(home, none)
    BY <1>1 DEF HeldInv
  <2>3. ParseInv(home, none) /\ CopyInv(home, none) /\ SourceInv(home)
    BY <1>6 DEF ParseInv, CopyInv, SourceInv
  <2> QED  BY <2>1, <2>2, <2>3 DEF CallInv, none
<1>13. none \in SUBSET Cells
  BY <1>9
<1> QED  BY <1>3, <1>11, <1>12, <1>13 DEF CJsonInv

\* Every call keeps the heap sound, step by step, whether it succeeds or fails.
LEMMA StepsStaySound ==
    ASSUME CellsAssumption, NamesAssumption, ScalarsAssumption, CJsonInv, Next
    PROVE  CJsonInv'
<1>1. CASE Create            BY <1>1, CreateKeeps
<1>2. CASE DeleteItem        BY <1>2, DeleteItemKeeps
<1>3. CASE AddItemToArray    BY <1>3, AddItemToArrayKeeps
<1>4. CASE AddItemToObject   BY <1>4, AddItemToObjectKeeps
<1>5. CASE AddNewToObject    BY <1>5, AddNewToObjectKeeps
<1>6. CASE AddReference      BY <1>6, AddReferenceKeeps
<1>7. CASE CreateReference   BY <1>7, CreateReferenceKeeps
<1>8. CASE DetachItem        BY <1>8, DetachItemKeeps
<1>9. CASE DeleteChild       BY <1>9, DeleteChildKeeps
<1>10. CASE InsertItemInArray    BY <1>10, InsertItemInArrayKeeps
<1>11. CASE ReplaceItemInArray   BY <1>11, ReplaceItemInArrayKeeps
<1>12. CASE ReplaceItemInObject  BY <1>12, ReplaceItemInObjectKeeps
<1>13. CASE ParseStart       BY <1>13, ParseStartKeeps
<1>14. CASE ParseScalar      BY <1>14, ParseScalarKeeps
<1>15. CASE ParseOpen        BY <1>15, ParseOpenKeeps
<1>16. CASE ParseElement     BY <1>16, ParseElementKeeps
<1>17. CASE ParseClose       BY <1>17, ParseCloseKeeps
<1>18. CASE ParseReturn      BY <1>18, ParseReturnKeeps
<1>19. CASE DuplicateStart   BY <1>19, DuplicateStartKeeps
<1>20. CASE DuplicateChild   BY <1>20, DuplicateChildKeeps
<1>21. CASE DuplicateReturn  BY <1>21, DuplicateReturnKeeps
<1>22. CASE ArrayStart       BY <1>22, ArrayStartKeeps
<1>23. CASE ArrayElement     BY <1>23, ArrayElementKeeps
<1>24. CASE ArrayReturn      BY <1>24, ArrayReturnKeeps
<1>25. CASE Fail             BY <1>25, FailKeeps
<1>26. CASE Unwind           BY <1>26, UnwindKeeps
<1> QED  BY <1>1, <1>2, <1>3, <1>4, <1>5, <1>6, <1>7, <1>8, <1>9, <1>10, <1>11, <1>12, <1>13,
            <1>14, <1>15, <1>16, <1>17, <1>18, <1>19, <1>20, <1>21, <1>22, <1>23, <1>24, <1>25,
            <1>26 DEF Next

\* A step that changes nothing
LEMMA StutterStaysSound ==
    ASSUME CJsonInv, UNCHANGED vars
    PROVE  CJsonInv'
<1>1. PICK home \in [Cells -> Pointers], fresh \in SUBSET Cells :
          /\ Sound(heap, lost, home, fresh, held \cup CallTops, Filling)
          /\ CallInv(home, fresh)
  BY DEF CJsonInv
<1>2. heap' = heap /\ held' = held /\ lost' = lost /\ call' = call
  BY DEF vars
<1>3. Filling' = Filling
  BY <1>2 DEF Filling
<1>4. CallTops' = CallTops
  BY <1>2, <1>3 DEF CallTops
<1>5. Sound(heap', lost', home, fresh, held' \cup CallTops', Filling')
  BY <1>1, <1>2, <1>3, <1>4
<1>6. CallType' /\ HeldInv(home, fresh)'
  BY <1>1, <1>2 DEF CallInv, CallType, HeldInv
<1>7. ParseInv(home, fresh)'
  BY <1>1, <1>2, <1>3 DEF CallInv, ParseInv, Top
<1>8. CopyInv(home, fresh)' /\ SourceInv(home)'
  BY <1>1, <1>2 DEF CallInv, CopyInv, SourceInv, Top
<1>9. CallInv(home, fresh)'
  BY <1>1, <1>2, <1>6, <1>7, <1>8 DEF CallInv
<1> QED  BY <1>1, <1>5, <1>9 DEF CJsonInv

\* The frames of a copy have no list of their own: what they have hangs under their item.
HeadsInv ==
    call.op \in {"duplicate", "array"} =>
        \A k \in DOMAIN call.stack : call.stack[k].head = NULL

\* Every step keeps the heads of the frames of a copy.
LEMMA HeadsStay ==
    ASSUME CJsonInv, HeadsInv, [Next]_vars
    PROVE  HeadsInv'
<1>1. CallType /\ (call.op \in {"duplicate", "array"} /\ ~call.failing => call.stack # <<>>)
  BY DEF CJsonInv, CallInv, CopyInv
<1>2. /\ call.stack \in Seq(Frames) /\ Len(call.stack) \in Nat
      /\ DOMAIN call.stack = 1 .. Len(call.stack)
      /\ call.stack # <<>> =>
           /\ Len(call.stack) \in DOMAIN call.stack /\ Top \in Frames
           /\ Below \in Seq(Frames) /\ DOMAIN Below = 1 .. Len(call.stack) - 1
           /\ Len(Below) = Len(call.stack) - 1
           /\ \A k \in DOMAIN Below : Below[k] = call.stack[k] /\ k \in DOMAIN call.stack
  BY <1>1, StackFacts
<1>3. ASSUME NEW S \in Seq(Frames), call'.stack = S,
             call'.op \in {"duplicate", "array"} => \A k \in 1 .. Len(S) : S[k].head = NULL
      PROVE  HeadsInv'
  BY <1>3 DEF HeadsInv
<1>4. ASSUME call'.op \notin {"duplicate", "array"} PROVE HeadsInv'
  BY <1>4 DEF HeadsInv
<1>5. ASSUME call' = NoCall PROVE HeadsInv'
  BY <1>5 DEF HeadsInv, NoCall
<1>6. ASSUME call' = call PROVE HeadsInv'
  BY <1>6 DEF HeadsInv
<1>7. \A n, t, x : Frame(n, t, x).head = NULL
  BY DEF Frame
<1>8. CASE \/ Create \/ DeleteItem \/ AddItemToArray \/ AddItemToObject \/ AddNewToObject
           \/ AddReference \/ CreateReference \/ DetachItem \/ DeleteChild \/ InsertItemInArray
           \/ ReplaceItemInArray \/ ReplaceItemInObject \/ UNCHANGED vars
  <2>1. call' = call
    BY <1>8 DEF Create, DeleteItem, AddItemToArray, AddItemToObject, AddNewToObject,
                AddReference, CreateReference, DetachItem, DeleteChild, InsertItemInArray,
                ReplaceItemInArray, ReplaceItemInObject, vars
  <2> QED  BY <1>6, <2>1
<1>9. CASE ParseStart \/ ParseScalar \/ ParseOpen \/ ParseElement \/ ParseClose
  <2>1. call'.op = "parse"
    <3>1. call \in [op : {"none", "parse", "duplicate", "array"}, stack : Seq(Frames),
                    root : Pointers, todo : Pointers, failing : BOOLEAN]
      BY <1>1 DEF CallType
    <3>2. CASE ParseStart
      BY <3>2 DEF ParseStart, NoCall
    <3>3. CASE ParseScalar
      BY <3>1, <3>3 DEF ParseScalar, Working
    <3>4. CASE ParseOpen
      BY <3>1, <3>4 DEF ParseOpen, Working
    <3>5. CASE ParseElement
      BY <3>1, <3>5 DEF ParseElement, Working
    <3>6. CASE ParseClose
      BY <3>1, <3>6 DEF ParseClose, Working
    <3> QED  BY <1>9, <3>2, <3>3, <3>4, <3>5, <3>6
  <2> QED  BY <1>4, <2>1
<1>10. CASE ParseReturn \/ ArrayReturn
  BY <1>5, <1>10 DEF ParseReturn, ArrayReturn, Return
<1>11. ASSUME NEW f, call' = [NoCall EXCEPT !.op = "duplicate", !.stack = <<f>>]
                     \/ call' = [NoCall EXCEPT !.op = "array", !.stack = <<f>>]
                     \/ call' = [call EXCEPT !.stack = <<f>>], f.head = NULL
       PROVE  HeadsInv'
  <2>1. call'.stack = <<f>>
    BY <1>1, <1>11 DEF NoCall, CallType
  <2>2. \A k \in DOMAIN <<f>> : <<f>>[k] = f
    OBVIOUS
  <2> QED  BY <1>11, <2>1, <2>2 DEF HeadsInv
<1>12. CASE DuplicateStart
  <2>1. PICK x \in Owned, n \in Free :
           \/ call' = [NoCall EXCEPT !.op = "duplicate",
                                     !.stack = <<Frame(n, heap[x].type, heap[x].child)>>]
           \/ call' = NoCall
    BY <1>12 DEF DuplicateStart, Return
  <2>2. PICK f : f = Frame(n, heap[x].type, heap[x].child)
    OBVIOUS
  <2>3. f.head = NULL
    BY <1>7, <2>2
  <2>4. CASE call' = [NoCall EXCEPT !.op = "duplicate", !.stack = <<f>>]
    BY <1>11, <2>3, <2>4
  <2> QED  BY <1>5, <2>1, <2>2, <2>4
<1>13. CASE DuplicateChild
  <2>1. call.op = "duplicate" /\ call.stack # <<>>
    BY <1>1, <1>13 DEF DuplicateChild, Working
  <2>2. PICK n, t, y : call' = [call EXCEPT !.stack = Append(@, Frame(n, t, y))]
    BY <1>13 DEF DuplicateChild
  <2>3. PICK f : f = Frame(n, t, y)
    OBVIOUS
  <2>4. call' = [call EXCEPT !.stack = Append(@, f)] /\ f.head = NULL
    BY <1>7, <2>2, <2>3
  <2>5. call'.stack = Append(call.stack, f)
    BY <1>1, <2>4 DEF CallType
  <2>6. \A k \in DOMAIN Append(call.stack, f) :
            \/ Append(call.stack, f)[k] = f
            \/ k \in DOMAIN call.stack /\ Append(call.stack, f)[k] = call.stack[k]
    BY <1>2
  <2> QED  BY <2>1, <2>4, <2>5, <2>6 DEF HeadsInv
<1>14. CASE DuplicateReturn
  <2>1. call.op = "duplicate" /\ call.stack # <<>>
    BY <1>1, <1>14 DEF DuplicateReturn, Working
  <2>2. CASE Below = <<>>
    BY <1>5, <1>14, <2>2 DEF DuplicateReturn, Return
  <2>3. CASE Below # <<>>
    <3> DEFINE j == Len(Below)
               b == Below[j]
    <3>1. j \in DOMAIN Below /\ b \in Frames /\ b.head = NULL
      BY <1>2, <2>1, <2>3, SMTT(30) DEF HeadsInv
    <3>2. PICK l, y : call' = [call EXCEPT !.stack = [Below EXCEPT ![j] =
                                   [b EXCEPT !.last = l, !.source = heap[@].next]]]
                      /\ y = heap[b.source].next
      BY <1>14, <2>3, ZenonT(60) DEF DuplicateReturn
    <3> DEFINE e == [b EXCEPT !.last = l, !.source = heap[@].next]
               S == [Below EXCEPT ![j] = e]
    <3>3. e.head = NULL
      BY <3>1 DEF Frames
    <3>4. call'.stack = S
      BY <1>1, <3>2 DEF CallType
    <3> HIDE DEF e, b, j
    <3>5. \A k \in DOMAIN S : S[k] = e \/ (k \in DOMAIN Below /\ S[k] = Below[k])
      OBVIOUS
    <3>6. \A k \in DOMAIN Below : Below[k].head = NULL
      BY <1>2, <2>1 DEF HeadsInv
    <3> QED  BY <3>3, <3>4, <3>5, <3>6 DEF HeadsInv
  <2> QED  BY <2>2, <2>3
<1>15. CASE ArrayStart
  <2>1. PICK n : call' = [NoCall EXCEPT !.op = "array", !.stack = <<Frame(n, "array", NULL)>>]
    BY <1>15 DEF ArrayStart
  <2> QED  BY <1>7, <1>11, <2>1
<1>16. CASE ArrayElement
  <2>1. call.op = "array" /\ call.stack # <<>>
    BY <1>1, <1>16 DEF ArrayElement, Working
  <2>2. PICK n : call' = [call EXCEPT !.stack = <<[Top EXCEPT !.last = n]>>]
    BY <1>16 DEF ArrayElement
  <2>3. Top \in Frames /\ Top.head = NULL
    BY <1>2, <2>1 DEF HeadsInv, Top
  <2>4. [Top EXCEPT !.last = n].head = NULL
    BY <2>3 DEF Frames
  <2> QED  BY <1>11, <2>2, <2>4
<1>17. CASE Fail
  BY <1>1, <1>17 DEF Fail, HeadsInv, CallType
<1>18. CASE Unwind
  <2>1. CASE call.stack = <<>>
    BY <1>5, <1>18, <2>1 DEF Unwind
  <2>2. CASE call.stack # <<>>
    <3>1. call' = [call EXCEPT !.stack = Below]
      BY <1>18, <2>2 DEF Unwind
    <3>2. call'.stack = Below /\ call'.op = call.op
      BY <1>1, <3>1 DEF CallType
    <3> QED  BY <1>2, <2>2, <3>2 DEF HeadsInv
  <2> QED  BY <2>1, <2>2
<1> QED  BY <1>8, <1>9, <1>10, <1>12, <1>13, <1>14, <1>15, <1>16, <1>17, <1>18 DEF Next

-----------------------------------------------------------------------------
(* What the invariant says to a caller.                                      *)

\* What the caller or the call at work leads to is all there is.
LEMMA SoundLeaksNothing ==
    ASSUME CellsAssumption, CJsonInv, HeadsInv
    PROVE  NothingLeaks
<1>1. PICK home \in [Cells -> Pointers], fresh \in SUBSET Cells :
          /\ Sound(heap, lost, home, fresh, held \cup CallTops, Filling)
          /\ CallInv(home, fresh)
  BY DEF CJsonInv
<1> DEFINE S == {call.root} \cup {call.stack[i].item : i \in DOMAIN call.stack}
                            \cup {call.stack[i].head : i \in DOMAIN call.stack}
           R == Reach(heap, S, FALSE)
<1>2. /\ heap \in [Cells -> Items] /\ lost \subseteq Cells /\ fresh \subseteq Live(heap, lost)
      /\ held \cup CallTops \subseteq Live(heap, lost) /\ Live(heap, lost) \subseteq Cells
      /\ CellsInv(heap, lost) /\ Founded(heap, lost, held \cup CallTops)
      /\ held \in SUBSET Pointers /\ NULL \notin Cells
  BY <1>1 DEF Sound, Shape, Live, Pointers, CellsAssumption
<1>3. /\ CallType /\ DOMAIN call.stack = 1 .. Len(call.stack)
      /\ \A k \in DOMAIN call.stack : call.stack[k] \in Frames
  BY <1>1, StackFacts DEF CallInv
<1>4. S \ {NULL} \subseteq Live(heap, lost) /\ CallTops \subseteq S /\ S \subseteq Pointers
  <2>1. CASE call.op = "parse"
    <3>1. /\ call.root \in fresh
          /\ \A k \in DOMAIN call.stack : /\ call.stack[k].item \in fresh
                                          /\ call.stack[k].head \in fresh \cup {NULL}
      BY <1>1, <2>1 DEF CallInv, ParseInv, OpenText
    <3> QED  BY <1>2, <2>1, <3>1 DEF CallTops, Pointers
  <2>2. CASE call.op \in {"duplicate", "array"}
    <3>1. /\ call.root = NULL
          /\ \A k \in DOMAIN call.stack : /\ call.stack[k].item \in fresh
                                          /\ call.stack[k].head = NULL
      BY <1>1, <2>2 DEF CallInv, CallType, CopyInv, OpenCopy, HeadsInv
    <3> QED  BY <1>2, <2>2, <3>1 DEF CallTops, Filling, Pointers
  <2>3. CASE call.op = "none"
    <3>1. call.root = NULL /\ call.stack = <<>>
      BY <1>3, <2>3 DEF CallType, NoCall
    <3>2. S = {NULL} /\ CallTops = {}
      BY <2>3, <3>1 DEF CallTops, Filling
    <3> QED  BY <3>2 DEF Pointers
  <2> QED  BY <1>3, <2>1, <2>2, <2>3 DEF CallType
<1>5. Building = R
  BY DEF Building
<1> HIDE DEF S
<1>6. /\ R \subseteq Live(heap, lost) /\ S \ {NULL} \subseteq R /\ Closed(heap, R)
  BY <1>2, <1>4, ReachIsLive, OwnedFacts
<1>7. Owned \subseteq Live(heap, lost) /\ held \ {NULL} \subseteq Owned /\ Closed(heap, Owned)
  BY <1>2, ReachIsLive, OwnedFacts DEF Owned
<1> HIDE DEF R
<1>8. Live(heap, lost) \subseteq Owned \cup R
  <2>1. Closed(heap, Owned \cup R)
    BY <1>6, <1>7 DEF Closed
  <2>2. held \cup CallTops \subseteq Owned \cup R /\ Owned \cup R \in SUBSET Cells
    BY <1>2, <1>4, <1>6, <1>7
  <2> QED  BY <1>2, <2>1, <2>2 DEF Founded
<1>9. Allocated = Live(heap, lost) \cup lost
  BY <1>2 DEF Allocated, Free, Live, CellsInv
<1> QED  BY <1>5, <1>6, <1>7, <1>8, <1>9 DEF NothingLeaks

\* No two owners, no freed neighbour.
LEMMA SoundHasOwners ==
    ASSUME CellsAssumption, CJsonInv
    PROVE  OneOwnerEach
<1>1. PICK home \in [Cells -> Pointers], fresh \in SUBSET Cells :
          /\ Sound(heap, lost, home, fresh, held \cup CallTops, Filling)
          /\ CallInv(home, fresh)
  BY DEF CJsonInv
<1>2. SUFFICES ASSUME NEW x \in Allocated \ lost
               PROVE  /\ Cardinality(Owners(x)) <= IF x \in held THEN 0 ELSE 1
                      /\ {heap[x].next, heap[x].prev, heap[x].child} \cap Free = {}
  BY DEF OneOwnerEach
<1>3. x \in Live(heap, lost) /\ x \in Cells /\ NULL \notin Cells
  BY DEF Allocated, Free, Live, CellsAssumption
<1>4. {heap[x].next, heap[x].prev, heap[x].child} \cap Free = {}
  BY <1>1, <1>3 DEF Sound, CellsInv, Live, Free
<1>5. Owners(x) \subseteq Cells /\ \A p \in Owners(x) : Owns(heap, p, x)
  BY DEF Owners, Allocated, Owns, Kid
<1>6. CASE x \in held
  <2>1. Owners(x) = {}
    BY <1>1, <1>5, <1>6 DEF Sound, TopsInv, Owns
  <2> QED  BY <1>4, <1>6, <2>1, FS_EmptySet
<1>7. CASE x \notin held
  <2>1. \A p, q \in Owners(x) : p = q
    BY <1>1, <1>3, <1>5, OneOwner DEF Sound
  <2>2. ASSUME NEW p \in Owners(x) PROVE Owners(x) = {p}
    BY <2>1, <2>2
  <2>3. Cardinality(Owners(x)) = 0 \/ Cardinality(Owners(x)) = 1
    <3>1. CASE Owners(x) = {}
      BY <3>1, FS_EmptySet
    <3>2. CASE Owners(x) # {}
      BY <2>2, <3>2, FS_Singleton
    <3> QED  BY <3>1, <3>2
  <2> QED  BY <1>4, <1>7, <2>3
<1> QED  BY <1>6, <1>7

\* The lists of the caller's items.
LEMMA SoundHasLists ==
    ASSUME CellsAssumption, CJsonInv
    PROVE  ListsAreSound
<1>1. PICK home \in [Cells -> Pointers], fresh \in SUBSET Cells :
          /\ Sound(heap, lost, home, fresh, held \cup CallTops, Filling)
          /\ CallInv(home, fresh)
  BY DEF CJsonInv
<1>2. /\ heap \in [Cells -> Items] /\ lost \subseteq Cells /\ held \subseteq Cells
      /\ Live(heap, lost) \subseteq Cells /\ CellsInv(heap, lost) /\ HomeInv(heap, lost, home)
      /\ held \cup CallTops \subseteq Live(heap, lost) /\ held \in SUBSET Pointers
      /\ NULL \notin Cells
  BY <1>1 DEF Sound, Shape, Live, Pointers, CellsAssumption
<1>3. TypeOK
  BY <1>1, <1>2 DEF TypeOK, CallInv, CallType
<1>4. \A x \in held : heap[x].next = NULL /\ heap[x].prev = NULL
  BY <1>1 DEF CallInv, HeldInv, Sound, TopsInv
<1>5. Owned \subseteq Live(heap, lost) /\ Owned \cap fresh = {}
  <2>1. Closed(heap, Cells \ fresh) /\ held \subseteq Cells \ fresh /\ Cells \ fresh \in SUBSET Cells
    BY <1>1, <1>2, FreshIsClosed DEF CallInv, HeldInv
  <2>2. held \ {NULL} \subseteq Cells \ fresh
    BY <2>1
  <2>3. Owned \subseteq Cells \ fresh
    BY <1>2, <2>1, <2>2, OwnedFacts DEF Owned
  <2>4. held \ {NULL} \subseteq Live(heap, lost)
    BY <1>2
  <2> QED  BY <1>2, <2>3, <2>4, ReachIsLive DEF Owned
<1>6. Filling \subseteq fresh
  <2>1. CASE call.op = "none"
    BY <1>1, <2>1 DEF CallInv, CallType, NoCall, Filling
  <2>2. CASE call.op = "parse"
    BY <1>1, <2>2, TextFacts
  <2>3. CASE call.op \in {"duplicate", "array"}
    BY <1>1, <2>3, CopyFacts
  <2> QED  BY <1>1, <2>1, <2>2, <2>3 DEF CallInv, CallType
<1>7. ASSUME NEW p \in Owned, ~heap[p].ref
      PROVE  LET s == Children(heap, p) IN
             /\ \A i \in 2 .. Len(s) : heap[s[i]].prev = s[i - 1]
             /\ s # <<>> => heap[s[1]].prev = s[Len(s)]
             /\ heap[p].type = "object" => \A i \in DOMAIN s : heap[s[i]].key # NULL
             /\ heap[p].type \in Scalars => s = <<>>
  <2> DEFINE s == Children(heap, p)
             first == heap[p].child
  <2>1. p \in Cells /\ p \notin Filling
    BY <1>2, <1>5, <1>6
  <2>2. /\ first = NULL => s = <<>>
        /\ first # NULL => first \in Cells /\ Kid(heap, p, first) /\ IsList(heap, home, first, s)
        /\ s \in Seq(Cells) /\ \A j \in 1 .. Len(s) : home[s[j]] = p
    BY <1>1, <1>7, <2>1, ChildrenAreList
  <2>3. first \in Pointers
    BY <1>2, <2>1, FieldTypes
  <2>4. ASSUME NEW i \in 2 .. Len(s) PROVE heap[s[i]].prev = s[i - 1]
    <3>1. first # NULL
      <4>1. s # <<>>
        BY <2>2, <2>4
      <4> QED  BY <2>2, <4>1
    <3> HIDE DEF s, first
    <3>2. i - 1 \in 1 .. Len(s) - 1 /\ i - 1 + 1 = i /\ i - 1 \in 1 .. Len(s) /\ i \in 1 .. Len(s)
      BY <2>2, <2>4
    <3>3. heap[s[i - 1]].next = s[i] /\ s[i] \in Cells /\ s[i - 1] \in Cells
      BY <2>2, <3>1, <3>2 DEF IsList
    <3> QED  BY <1>2, <3>3 DEF HomeInv
  <2>5. ASSUME s # <<>> PROVE heap[s[1]].prev = s[Len(s)]
    <3>1. first # NULL /\ s[1] = first /\ first \in Cells /\ Kid(heap, p, first)
      BY <2>2, <2>5 DEF IsList
    <3>2. PICK l : l = heap[first].prev
      OBVIOUS
    <3>3. l # NULL /\ home[l] = p /\ heap[l].next = NULL
      BY <1>1, <2>1, <3>1, <3>2 DEF Sound, LastInv
    <3>4. l \in Cells
      BY <1>2, <3>1, <3>2, <3>3, FieldTypes DEF Pointers
    <3>5. l = Children(heap, p)[Len(Children(heap, p))]
      BY <1>1, <1>7, <2>1, <3>3, <3>4, LastIsUnique
    <3> QED  BY <3>1, <3>2, <3>5
  <2>6. ASSUME heap[p].type = "object", NEW i \in DOMAIN s PROVE heap[s[i]].key # NULL
    <3> HIDE DEF s
    <3>1. s[i] \in Cells /\ home[s[i]] = p
      BY <2>2, <2>6
    <3> QED  BY <1>1, <1>2, <2>1, <2>6, <3>1 DEF Sound, NamesInv
  <2>7. ASSUME heap[p].type \in Scalars PROVE s = <<>>
    BY <1>1, <2>1, <2>2, <2>7 DEF Sound, NamesInv
  <2> HIDE DEF s
  <2>8. /\ \A i \in 2 .. Len(s) : heap[s[i]].prev = s[i - 1]
        /\ s # <<>> => heap[s[1]].prev = s[Len(s)]
        /\ heap[p].type = "object" => \A i \in DOMAIN s : heap[s[i]].key # NULL
        /\ heap[p].type \in Scalars => s = <<>>
    BY <2>4, <2>5, <2>6, <2>7
  <2> QED  BY <2>8 DEF s
<1> QED  BY <1>3, <1>4, <1>7, SoundHasOwners DEF ListsAreSound

\* In every behaviour, whatever calls are made and whichever of their allocations fail,
\* the heap is sound.
THEOREM HeapStaysSound == Spec => [](CJsonInv /\ HeadsInv)
<1>1. Init => CJsonInv /\ HeadsInv
  BY CellsAssumption, InitIsSound DEF Init, HeadsInv, NoCall
<1>2. CJsonInv /\ HeadsInv /\ [Next]_vars => (CJsonInv /\ HeadsInv)'
  BY CellsAssumption, NamesAssumption, ScalarsAssumption, StepsStaySound, StutterStaysSound,
     HeadsStay
<1> QED  BY <1>1, <1>2, PTL DEF Spec

\* cJSON.c keeps every list as add_item_to_array, cJSON_DetachItemViaPointer and
\* get_object_item need it: linked both ways, the first item knowing the last, each item
\* with one owner, the members of an object named.
THEOREM ListsStaySound == Spec => []ListsAreSound
<1>1. CJsonInv => ListsAreSound
  BY CellsAssumption, SoundHasLists
<1> QED  BY <1>1, HeapStaysSound, PTL

\* No item is without somebody who frees it, but the reference that add_item_to_object
\* refuses: what a failed call has built, it has freed.
THEOREM NothingIsLeaked == Spec => []NothingLeaks
<1>1. CJsonInv /\ HeadsInv => NothingLeaks
  BY CellsAssumption, SoundLeaksNothing
<1> QED  BY <1>1, HeapStaysSound, PTL

-----------------------------------------------------------------------------
(* What the calls do to the documents of their caller.                       *)
\* The caller's items, each with the list of its children.
Documents == [p \in Owned |-> Kids(heap, p)]

\* Between two calls they are all there is.
LEMMA DocumentsAre ==
    ASSUME CellsAssumption, NEW home, Ready(heap, lost, home, held)
    PROVE  Documents = Family(heap, lost) /\ DOMAIN Documents = Live(heap, lost)
<1>1. Reach(heap, held, FALSE) = Live(heap, lost)
  BY ReadyOwnsAll
<1> QED  BY <1>1 DEF Documents, Family, Owned

\* The same after a call.
LEMMA DocumentsWillBe ==
    ASSUME CellsAssumption, NEW home, Ready(heap', lost', home, held')
    PROVE  Documents' = Family(heap', lost') /\ DOMAIN Documents' = Live(heap', lost')
<1>1. Reach(heap', held', FALSE) = Live(heap', lost')
  BY ReadyOwnsAll
<1> QED  BY <1>1 DEF Documents, Family, Owned

\* After a call that returns there is no unfinished work.
LEMMA ReadyAgain ==
    ASSUME CJsonInv', call' = NoCall
    PROVE  \E home : Ready(heap', lost', home, held')
<1>1. PICK home \in [Cells -> Pointers], fresh \in SUBSET Cells :
          /\ Sound(heap', lost', home, fresh, held' \cup CallTops', Filling')
          /\ CallInv(home, fresh)'
  BY DEF CJsonInv
<1>2. call'.op = "none" /\ call'.stack = <<>>
  BY DEF NoCall
<1>3. fresh = {}
  BY <1>1, <1>2 DEF CallInv
<1>4. Filling' = {}
  BY <1>2 DEF Filling
<1>5. CallTops' = {}
  BY <1>2, <1>4 DEF CallTops
<1>6. held' \cup CallTops' = held'
  BY <1>5
<1>7. Sound(heap', lost', home, {}, held', {})
  BY <1>1, <1>3, <1>4, <1>6
<1>8. \A x \in held' : heap'[x].next = NULL
  BY <1>1 DEF CallInv, HeldInv
<1> QED  BY <1>7, <1>8 DEF Ready

\* The tree of an item without children.
LEMMA SingleTree ==
    ASSUME CellsAssumption, NEW h \in [Cells -> Items], NEW n \in Cells, h[n].next = NULL,
           h[n].child = NULL \/ h[n].ref
    PROVE  Freed(h, n) = {n}
<1> DEFINE S == {n}
<1>1. S \in SUBSET Pointers /\ S \in SUBSET Cells /\ S \ {NULL} = S
  BY DEF Pointers, CellsAssumption
<1>2. Closed(h, S)
  BY DEF Closed
<1> HIDE DEF S
<1>3. S \subseteq Reach(h, S, FALSE) /\ Reach(h, S, FALSE) \subseteq S
  BY <1>1, <1>2, OwnedFacts
<1> QED  BY <1>3 DEF Freed, S

\* The items do not lead back to themselves after the call, if they did not before it.
StaysFine == Fine(heap, lost) => Fine(heap', lost')

\* A new item without children is a tree of its own.
LEMMA NewIsMade ==
    ASSUME CellsAssumption, NEW home, Ready(heap, lost, home, held),
           NEW n \in Free, NEW r \in Items, r.type # "free", r.next = NULL,
           r.child = NULL \/ r.ref,
           NEW house, Ready(heap', lost', house, held'), held' = held \cup {n}, lost' = lost,
           heap'[n] = r, \A c \in Cells : c # n => heap'[c] = heap[c]
    PROVE  Forest!Make(Documents, Documents') /\ (r.type # "invalid" => StaysFine)
<1>1. n \in Cells /\ heap[n].type = "free"
  BY DEF Free
<1>2. n \notin held /\ n \notin lost
  BY <1>1, ReadyFacts DEF Ready, Sound, Shape, CellsInv, Live
<1>3. /\ Live(heap', lost) = Live(heap, lost) \cup {n} /\ n \notin Live(heap, lost)
      /\ Family(heap', lost) = WithNew(Family(heap, lost), n)
  BY <1>1, <1>2, FamilyWithNew
<1>4. /\ Documents = Family(heap, lost) /\ DOMAIN Documents = Live(heap, lost)
      /\ Documents' = Family(heap', lost) /\ DOMAIN Documents' = Live(heap', lost)
  BY DocumentsAre, DocumentsWillBe
<1>5. Forest!Tree(Documents', n) = {n}
  <2>1. n \in held' /\ heap' \in [Cells -> Items] /\ heap'[n] = r
    BY <1>1, ReadyFacts
  <2>2. Forest!Tree(Family(heap', lost), n) = Freed(heap', n)
    BY <2>1, FreedIsTree
  <2>3. Freed(heap', n) = {n}
    BY <1>1, <2>1, SingleTree
  <2> QED  BY <1>4, <2>2, <2>3
<1>6. Forest!Restrict(Documents', DOMAIN Documents) = Documents
  <2>1. Documents = [y \in Live(heap, lost) |-> Documents[y]]
    BY <1>4 DEF Documents
  <2>2. \A y \in Live(heap, lost) : Documents'[y] = Documents[y]
    BY <1>3, <1>4 DEF WithNew
  <2>3. Forest!Restrict(Documents', DOMAIN Documents) = [y \in Live(heap, lost) |-> Documents'[y]]
    BY <1>4 DEF Forest!Restrict
  <2> HIDE DEF Documents
  <2> QED  BY <2>1, <2>2, <2>3
<1>7. DOMAIN Documents' \ DOMAIN Documents = {n} /\ DOMAIN Documents \subseteq DOMAIN Documents'
      /\ n \notin DOMAIN Documents
  BY <1>3, <1>4
<1>8. n \in held' \ held
  BY <1>2
<1>9. ASSUME r.type # "invalid", Fine(heap, lost) PROVE Fine(heap', lost)
  BY <1>1, <1>2, <1>9, FineWithNew
<1> QED  BY <1>5, <1>6, <1>7, <1>8, <1>9 DEF Forest!Make, StaysFine

\* cJSON_CreateNull and its like
LEMMA CreateMakes ==
    ASSUME CellsAssumption, NamesAssumption, ScalarsAssumption, CJsonInv, CJsonInv', Create
    PROVE  Forest!Make(Documents, Documents') /\ StaysFine
<1>1. PICK n \in Free, t \in Scalars \cup Containers :
          /\ heap' = [heap EXCEPT ![n] = [Blank EXCEPT !.type = t]]
          /\ held' = held \cup {n} /\ lost' = lost /\ call' = call
  BY DEF Create
<1>2. PICK home : Ready(heap, lost, home, held)
  BY IdleIsReady DEF Create
<1> DEFINE r == [Blank EXCEPT !.type = t]
<1>3. /\ r \in Items /\ r.next = NULL /\ r.prev = NULL /\ r.child = NULL
      /\ r.type # "free" /\ r.type # "invalid"
  BY DEF Blank, Items, Pointers, Types, Containers, ScalarsAssumption
<1>4. heap'[n] = r /\ \A c \in Cells : c # n => heap'[c] = heap[c]
  BY <1>1, <1>2, ReadyFacts DEF Free
<1>5. PICK house : Ready(heap', lost', house, held')
  BY <1>1, IdleIsReady, ReadyAgain DEF Create
<1> HIDE DEF r
<1> QED  BY <1>1, <1>2, <1>3, <1>4, <1>5, NewIsMade

\* cJSON_CreateObjectReference and cJSON_CreateArrayReference
LEMMA CreateReferenceMakes ==
    ASSUME CellsAssumption, NamesAssumption, CJsonInv, CJsonInv',
           CreateReference
    PROVE  Forest!Make(Documents, Documents') /\ StaysFine
<1>1. PICK p \in Owned, n \in Free :
          /\ heap[p].child # NULL
          /\ heap' = [heap EXCEPT ![n] = [Blank EXCEPT !.type = heap[p].type, !.ref = TRUE,
                                                       !.child = heap[p].child]]
          /\ held' = held \cup {n} /\ lost' = lost /\ call' = call
  BY DEF CreateReference
<1>2. PICK home : Ready(heap, lost, home, held)
  BY IdleIsReady DEF CreateReference
<1> DEFINE r == [Blank EXCEPT !.type = heap[p].type, !.ref = TRUE, !.child = heap[p].child]
<1>3. /\ p \in Cells /\ heap[p] \in Items /\ heap[p].type # "free"
      /\ heap[p].type \in Scalars => heap[p].child = NULL
      /\ heap[p].child # NULL =>
             \E q \in Cells : Kid(heap, q, heap[p].child) /\ heap[q].type = heap[p].type
  BY <1>2, ReferenceIsOne
<1>4. /\ r \in Items /\ r.type = heap[p].type /\ r.child = heap[p].child
      /\ r.ref /\ r.next = NULL /\ r.prev = NULL
  BY <1>3 DEF Items, Pointers, Blank
<1>5. heap'[n] = r /\ \A c \in Cells : c # n => heap'[c] = heap[c]
  BY <1>1, <1>2, ReadyFacts DEF Free
<1>6. PICK house : Ready(heap', lost', house, held')
  BY <1>1, IdleIsReady, ReadyAgain DEF CreateReference
<1> HIDE DEF r
<1>7. Forest!Make(Documents, Documents') /\ (r.type # "invalid" => StaysFine)
  BY <1>1, <1>2, <1>3, <1>4, <1>5, <1>6, NewIsMade
<1> QED  BY <1>3, <1>4, <1>7 DEF StaysFine, Fine

\* cJSON_Delete
LEMMA DeleteItemDrops ==
    ASSUME CellsAssumption, CJsonInv, CJsonInv', DeleteItem
    PROVE  Forest!Drop(Documents, Documents') /\ StaysFine
<1>1. PICK x \in held :
          /\ NoRefInto(Tree(heap, x, FALSE))
          /\ heap' = Delete(heap, x) /\ held' = held \ {x} /\ lost' = lost /\ call' = call
  BY DEF DeleteItem
<1>2. PICK home : Ready(heap, lost, home, held)
  BY IdleIsReady DEF DeleteItem
<1>3. call' = NoCall
  BY <1>1, IdleIsReady DEF DeleteItem
<1>4. PICK house : Ready(Delete(heap, x), lost, house, held')
  BY <1>1, <1>3, ReadyAgain
<1>5. Family(Delete(heap, x), lost) = Forest!Without(Family(heap, lost), x)
  BY <1>2, <1>4, FamilyWhenDeleted
<1>6. Documents = Family(heap, lost) /\ Documents' = Family(heap', lost')
  BY <1>1, <1>2, <1>4, DocumentsAre, DocumentsWillBe
<1>7. x \in held \ held'
  BY <1>1
<1>8. Alone(heap, lost, x)
  <2> DEFINE F == Tree(heap, x, FALSE)
  <2>1. Freed(heap, x) = F
    BY <1>2, WholeTree DEF Freed
  <2>2. NoRefInto(F)
    BY <1>1
  <2> HIDE DEF F
  <2> QED  BY <2>1, <2>2, NoneInto DEF Alone
<1>9. StaysFine
  <2> SUFFICES ASSUME Fine(heap, lost) PROVE Fine(Delete(heap, x), lost)
    BY <1>1 DEF StaysFine
  <2> QED  BY <1>2, <1>4, <1>8, FineWhenDeleted
<1> QED  BY <1>1, <1>5, <1>6, <1>7, <1>9 DEF Forest!Drop

\* An item of the caller is put into the list of p, perhaps with another name.
LEMMA IsPut ==
    ASSUME CellsAssumption, NEW home, Ready(heap, lost, home, held),
           NEW house, Ready(heap', lost', house, held'), lost' = lost,
           NEW x \in held, held' = held \ {x},
           NEW h, NEW away, NEW hands, Ready(h, lost, away, hands),
           Family(h, lost) = Family(heap, lost), Live(h, lost) = Live(heap, lost),
           NEW p \in Live(h, lost), ~h[p].ref,
           NEW i \in 1 .. Len(Children(h, p)) + 1,
           Relists(h, away, heap', p, Forest!InsertAt(Children(h, p), i, x)),
           Fine(heap, lost) => Fine(h, lost), h[p].child # NULL => Unreferenced(h, lost, h[p].child),
           NEW R \in SUBSET Cells, ClosedAs(h, R, TRUE), x \in R, p \notin R
    PROVE  Forest!Put(Documents, Documents') /\ StaysFine
<1>1. /\ Documents = Family(h, lost) /\ DOMAIN Documents = Live(h, lost)
      /\ Documents' = Family(heap', lost)
  BY DocumentsAre, DocumentsWillBe
<1>2. Family(heap', lost) = [Family(h, lost) EXCEPT ![p] = Forest!InsertAt(Children(h, p), i, x)]
  BY FamilyRelisted
<1>3. Documents[p] = Children(h, p)
  BY <1>1 DEF Family, Kids
<1>4. x \in held \ held'
  OBVIOUS
<1>5. p \in DOMAIN Documents /\ i \in 1 .. Len(Documents[p]) + 1
  BY <1>1, <1>3
<1>6. Documents' = [Documents EXCEPT ![p] = Forest!InsertAt(Documents[p], i, x)]
  BY <1>1, <1>2, <1>3
<1>7. StaysFine
  <2> SUFFICES ASSUME Fine(h, lost) PROVE Fine(heap', lost)
    BY DEF StaysFine
  <2>1. x \in Cells
    OBVIOUS
  <2> QED  BY <2>1, FineWhenPut
<1> HIDE DEF Documents
<1> QED  BY <1>4, <1>5, <1>6, <1>7 DEF Forest!Put

\* What a caller may add leads only to itself, even through its references.
LEMMA MayAddTree ==
    ASSUME CellsAssumption, NEW home, Ready(heap, lost, home, held), NEW p, NEW x, MayAdd(p, x)
    PROVE  /\ Tree(heap, x, TRUE) \in SUBSET Cells /\ Closed(heap, Tree(heap, x, TRUE))
           /\ ClosedAs(heap, Tree(heap, x, TRUE), TRUE)
           /\ x \in Tree(heap, x, TRUE) /\ p \notin Tree(heap, x, TRUE)
<1>1. x \in held /\ p \notin Tree(heap, x, TRUE)
  BY DEF MayAdd
<1>2. heap \in [Cells -> Items] /\ x \in Cells /\ heap[x].next = NULL
  BY <1>1, ReadyFacts DEF Ready
<1> QED  BY <1>1, <1>2, TreeIsClosed

\* cJSON_AddItemToArray
LEMMA AddItemToArrayPuts ==
    ASSUME CellsAssumption, ScalarsAssumption, CJsonInv, CJsonInv', AddItemToArray
    PROVE  Forest!Put(Documents, Documents') /\ StaysFine
<1>1. PICK p \in Parents("array"), x \in held :
          /\ MayAdd(p, x) /\ heap' = AddToArray(heap, p, x)
          /\ held' = held \ {x} /\ lost' = lost /\ call' = call
  BY DEF AddItemToArray
<1>2. PICK home : Ready(heap, lost, home, held)
  BY IdleIsReady DEF AddItemToArray
<1>3. PICK house : Ready(heap', lost', house, held')
  BY <1>1, IdleIsReady, ReadyAgain DEF AddItemToArray
<1>4. /\ Parent(heap, lost, p) /\ heap[p].type = "array" /\ p \in Cells
      /\ heap[p].child # NULL => Unreferenced(heap, lost, heap[p].child)
  BY <1>2, CallersItems DEF Containers, Parent, Live
<1>5. Joins(heap, home, {}, held, p, x)
  BY <1>1, <1>2, <1>4, MayAddJoins
<1> DEFINE i == Len(Children(heap, p)) + 1
<1>6. /\ p \in Live(heap, lost) /\ ~heap[p].ref /\ i \in 1 .. Len(Children(heap, p)) + 1
      /\ Relists(heap, home, heap', p, Forest!InsertAt(Children(heap, p), i, x))
  BY <1>1, <1>2, <1>4, <1>5, AddingRelists
<1> DEFINE R == Tree(heap, x, TRUE)
<1>7. R \in SUBSET Cells /\ ClosedAs(heap, R, TRUE) /\ x \in R /\ p \notin R
  BY <1>1, <1>2, MayAddTree
<1> HIDE DEF R, i
<1> QED  BY <1>1, <1>2, <1>3, <1>4, <1>6, <1>7, IsPut

\* cJSON_InsertItemInArray
LEMMA InsertItemInArrayPuts ==
    ASSUME CellsAssumption, ScalarsAssumption, CJsonInv, CJsonInv', InsertItemInArray
    PROVE  Forest!Put(Documents, Documents') /\ StaysFine
<1>1. PICK p \in Parents("array"), x \in held, index \in 0 .. Cardinality(Cells) :
          /\ MayAdd(p, x) /\ heap' = Insert(heap, p, index, x)
          /\ held' = held \ {x} /\ lost' = lost /\ call' = call
  BY DEF InsertItemInArray
<1>2. PICK home : Ready(heap, lost, home, held)
  BY IdleIsReady DEF InsertItemInArray
<1>3. PICK house : Ready(heap', lost', house, held')
  BY <1>1, IdleIsReady, ReadyAgain DEF InsertItemInArray
<1>4. /\ Parent(heap, lost, p) /\ heap[p].type = "array" /\ p \in Cells /\ index \in Nat
      /\ heap[p].child # NULL => Unreferenced(heap, lost, heap[p].child)
  BY <1>2, CallersItems DEF Containers, Parent, Live
<1>5. Joins(heap, home, {}, held, p, x)
  BY <1>1, <1>2, <1>4, MayAddJoins
<1>6. /\ p \in Live(heap, lost) /\ ~heap[p].ref
      /\ \E i \in 1 .. Len(Children(heap, p)) + 1 :
             Relists(heap, home, heap', p, Forest!InsertAt(Children(heap, p), i, x))
  BY <1>1, <1>2, <1>4, <1>5, InsertingRelists
<1> DEFINE R == Tree(heap, x, TRUE)
<1>7. R \in SUBSET Cells /\ ClosedAs(heap, R, TRUE) /\ x \in R /\ p \notin R
  BY <1>1, <1>2, MayAddTree
<1> HIDE DEF R
<1> QED  BY <1>1, <1>2, <1>3, <1>4, <1>6, <1>7, IsPut

\* cJSON_AddItemToObject
LEMMA AddItemToObjectPuts ==
    ASSUME CellsAssumption, NamesAssumption, ScalarsAssumption, CJsonInv, CJsonInv', AddItemToObject
    PROVE  Forest!Put(Documents, Documents') /\ StaysFine
<1>1. PICK p \in Parents("object"), x \in held, key \in Keys :
          /\ MayAdd(p, x) /\ heap' = AddToArray(Named(heap, x, key), p, x)
          /\ held' = held \ {x} /\ lost' = lost /\ call' = call
  BY DEF AddItemToObject
<1>2. PICK home : Ready(heap, lost, home, held)
  BY IdleIsReady DEF AddItemToObject
<1>3. PICK house : Ready(heap', lost', house, held')
  BY <1>1, IdleIsReady, ReadyAgain DEF AddItemToObject
<1>4. /\ Parent(heap, lost, p) /\ p \in Cells
      /\ heap[p].child # NULL => Unreferenced(heap, lost, heap[p].child)
  BY <1>2, CallersItems DEF Containers, Parent, Live
<1> DEFINE C == Tree(heap, x, TRUE)
<1>5. C \in SUBSET Cells /\ Closed(heap, C) /\ x \in C
  BY <1>1, <1>2, MayAddTree
<1>6. p \notin C /\ ClosedAs(heap, C, TRUE)
  BY <1>1, <1>2, MayAddTree
<1> HIDE DEF C
<1> DEFINE h == Named(heap, x, key)
<1>7. Parent(h, lost, p) /\ Joins(h, home, {}, held, p, x)
  BY <1>2, <1>4, <1>5, <1>6, NamedJoins
<1>8. Ready(h, lost, home, held)
      /\ \A c \in Cells : /\ h[c].type = heap[c].type /\ h[c].ref = heap[c].ref
                          /\ h[c].child = heap[c].child /\ h[c].next = heap[c].next
  BY <1>2, ReadyWhenNamed
<1> DEFINE i == Len(Children(h, p)) + 1
<1>9. heap' = AddToArray(h, p, x)
  BY <1>1
<1> HIDE DEF h
<1>10. Family(h, lost) = Family(heap, lost) /\ Live(h, lost) = Live(heap, lost)
  BY <1>2, <1>8, FamilyStays
<1>11. /\ p \in Live(h, lost) /\ ~h[p].ref /\ i \in 1 .. Len(Children(h, p)) + 1
       /\ Relists(h, home, heap', p, Forest!InsertAt(Children(h, p), i, x))
  BY <1>7, <1>8, <1>9, AddingRelists
<1> HIDE DEF i
<1>12. Fine(heap, lost) => Fine(h, lost)
  BY <1>2, <1>8, FineStays
<1>13. ClosedAs(h, C, TRUE) /\ (h[p].child # NULL => Unreferenced(h, lost, h[p].child))
  BY <1>4, <1>5, <1>6, <1>8, NamedTree
<1> QED  BY <1>1, <1>2, <1>3, <1>5, <1>6, <1>8, <1>10, <1>11, <1>12, <1>13, IsPut

\* A new item becomes the last child of p.
LEMMA IsPutNew ==
    ASSUME CellsAssumption, NEW home, Ready(heap, lost, home, held),
           NEW house, Ready(heap', lost', house, held'), lost' = lost, held' = held,
           NEW n \in Cells, n \notin Live(heap, lost),
           NEW h, NEW away, NEW hands, Ready(h, lost, away, hands),
           Family(h, lost) = WithNew(Family(heap, lost), n),
           Live(h, lost) = Live(heap, lost) \cup {n},
           NEW p \in Live(heap, lost), ~h[p].ref, Children(h, p) \in Seq(Cells),
           Relists(h, away, heap', p, Forest!InsertAt(Children(h, p), Len(Children(h, p)) + 1, n)),
           Fine(heap, lost) => Fine(h, lost), h[p].child # NULL => Unreferenced(h, lost, h[p].child),
           NEW R \in SUBSET Cells, ClosedAs(h, R, TRUE), n \in R, p \notin R
    PROVE  Forest!PutNew(Documents, Documents') /\ StaysFine
<1>1. /\ Documents = Family(heap, lost) /\ DOMAIN Documents = Live(heap, lost)
      /\ Documents' = Family(heap', lost) /\ DOMAIN Documents' = Live(heap', lost)
  BY DocumentsAre, DocumentsWillBe
<1> DEFINE s == Children(h, p)
           t == Forest!InsertAt(s, Len(s) + 1, n)
<1>2. t = Append(s, n)
  BY InsertAtEnd
<1>3. Relists(h, away, heap', p, t) /\ p \in Live(h, lost)
  OBVIOUS
<1> HIDE DEF t
<1>4. Family(heap', lost) = [Family(h, lost) EXCEPT ![p] = t] /\ Live(heap', lost) = Live(h, lost)
  BY <1>3, FamilyRelisted
<1>5. Documents[p] = s
  <2>1. Family(h, lost)[p] = s
    BY <1>3 DEF Family, Kids
  <2>2. Family(h, lost)[p] = Family(heap, lost)[p]
    BY <1>1 DEF WithNew
  <2> QED  BY <1>1, <2>1, <2>2
<1> HIDE DEF s
<1>6. Documents' = [y \in Live(heap, lost) \cup {n} |->
                       IF y = n THEN <<>> ELSE IF y = p THEN Append(Documents[p], n) ELSE Documents[y]]
  <2>1. Family(heap', lost) = [WithNew(Documents, n) EXCEPT ![p] = Append(Documents[p], n)]
    BY <1>1, <1>2, <1>4, <1>5
  <2> HIDE DEF Documents
  <2> QED  BY <1>1, <2>1 DEF WithNew
<1>7. n \in DOMAIN Documents' \ DOMAIN Documents /\ p \in DOMAIN Documents
  BY <1>1, <1>4
<1> HIDE DEF Documents
<1>8. Documents' = [y \in DOMAIN Documents \cup {n} |->
                       IF y = n THEN <<>> ELSE IF y = p THEN Append(Documents[p], n) ELSE Documents[y]]
  BY <1>1, <1>6
<1>9. StaysFine
  <2> SUFFICES ASSUME Fine(h, lost) PROVE Fine(heap', lost)
    BY DEF StaysFine
  <2>1. p \in Live(h, lost)
    OBVIOUS
  <2> DEFINE i == Len(Children(h, p)) + 1
  <2>2. i \in 1 .. Len(Children(h, p)) + 1
    OBVIOUS
  <2>3. Relists(h, away, heap', p, Forest!InsertAt(Children(h, p), i, n))
    OBVIOUS
  <2> HIDE DEF i
  <2> QED  BY <2>1, <2>2, <2>3, FineWhenPut
<1> QED  BY <1>7, <1>8, <1>9 DEF Forest!PutNew

\* cJSON_AddNullToObject and its like
LEMMA AddNewToObjectPuts ==
    ASSUME CellsAssumption, NamesAssumption, ScalarsAssumption, CJsonInv, CJsonInv', AddNewToObject
    PROVE  Forest!PutNew(Documents, Documents') /\ StaysFine
<1>1. PICK p \in Parents("object"), n \in Free, key \in Keys, t \in Scalars \cup Containers :
          heap' = AddToArray([heap EXCEPT ![n] = [Blank EXCEPT !.type = t, !.key = key]], p, n)
  BY DEF AddNewToObject
<1>2. PICK home : Ready(heap, lost, home, held)
  BY IdleIsReady DEF AddNewToObject
<1>3. held' = held /\ lost' = lost /\ call' = NoCall
  BY IdleIsReady DEF AddNewToObject
<1>4. PICK house : Ready(heap', lost', house, held')
  BY <1>3, ReadyAgain
<1>5. Parent(heap, lost, p) /\ (heap[p].child # NULL => Unreferenced(heap, lost, heap[p].child))
  BY <1>2, CallersItems DEF Containers
<1> DEFINE r == [Blank EXCEPT !.type = t, !.key = key]
           h == [heap EXCEPT ![n] = r]
           more == held \cup {n}
<1>6. /\ n \in Cells /\ heap[n].type = "free" /\ r \in Items /\ r.type # "free" /\ r.type # "invalid"
      /\ ~r.ref /\ r.next = NULL /\ r.prev = NULL /\ r.child = NULL /\ r.key # NULL
  BY DEF Free, Blank, Items, Pointers, Types, Containers, ScalarsAssumption, NamesAssumption
<1> HIDE DEF r
<1>7. Ready(h, lost, home, more) /\ Unknown(heap, lost, home, n)
  BY <1>2, <1>6, ReadyWithNew
<1>8. Parent(h, lost, p) /\ Joins(h, home, {}, more, p, n)
  BY <1>2, <1>5, <1>6, <1>7, NewJoins
<1>9. h[n] = r /\ \A c \in Cells : c # n => h[c] = heap[c]
  BY <1>2, <1>6, ReadyFacts
<1>10. heap' = AddToArray(h, p, n) /\ n \notin lost
  BY <1>1, <1>7 DEF r, Unknown
<1> HIDE DEF h, more
<1>11. /\ Live(h, lost) = Live(heap, lost) \cup {n} /\ n \notin Live(heap, lost)
       /\ Family(h, lost) = WithNew(Family(heap, lost), n)
  BY <1>2, <1>6, <1>7, <1>9, <1>10, FamilyWithNew
<1>12. /\ p \in Live(heap, lost) /\ ~h[p].ref /\ Children(h, p) \in Seq(Cells)
       /\ Relists(h, home, heap', p,
                  Forest!InsertAt(Children(h, p), Len(Children(h, p)) + 1, n))
  BY <1>5, <1>7, <1>8, <1>10, AddingRelists DEF Parent
<1>13. Fine(heap, lost) => Fine(h, lost)
  BY <1>2, <1>6, <1>7, <1>9, <1>10, FineWithNew
<1> DEFINE R == {n}
<1>14. R \in SUBSET Cells /\ ClosedAs(h, R, TRUE) /\ n \in R /\ p \notin R
  BY <1>6, <1>9, <1>11, <1>12 DEF ClosedAs
<1>15. h[p].child # NULL => Unreferenced(h, lost, h[p].child)
  <2>1. p \in Cells /\ h[p] = heap[p]
    BY <1>9, <1>14, <1>12 DEF Live
  <2>2. \A c \in Live(h, lost) : h[c].ref => c \in Live(heap, lost) /\ h[c] = heap[c]
    BY <1>6, <1>9, <1>11 DEF Live
  <2> QED  BY <1>5, <2>1, <2>2 DEF Unreferenced
<1> HIDE DEF R
<1> QED  BY <1>2, <1>3, <1>4, <1>6, <1>7, <1>11, <1>12, <1>13, <1>14, <1>15, IsPutNew

\* A reference that is made and forgotten is in no document.
LEMMA LostChangesNothing ==
    ASSUME CellsAssumption, NEW home, Ready(heap, lost, home, held),
           NEW house, Ready(heap', lost', house, held'),
           NEW n \in Free, lost' = lost \cup {n}, \A c \in Cells : c # n => heap'[c] = heap[c]
    PROVE  Documents' = Documents /\ (heap'[n].type # "invalid" => StaysFine)
<1> DEFINE none == {}
<1>1. /\ Sound(heap, lost, home, none, held, none) /\ Sound(heap', lost', house, none, held', none)
      /\ CellsInv(heap, lost) /\ Live(heap, lost) \subseteq Cells /\ HomeInv(heap, lost, home)
      /\ NULL \notin Cells
  BY ReadyFacts DEF Sound
<1> HIDE DEF none
<1>2. n \in Cells /\ n \notin Live(heap, lost)
  BY DEF Free, Live
<1>3. Live(heap', lost') = Live(heap, lost)
  BY <1>2 DEF Live
<1>4. ASSUME NEW q \in Live(heap, lost) PROVE Kids(heap', q) = Kids(heap, q)
  <2>1. q \in Cells /\ q # n /\ heap'[q] = heap[q]
    BY <1>1, <1>2
  <2>2. CASE heap[q].ref
    BY <2>1, <2>2 DEF Kids
  <2>3. CASE ~heap[q].ref
    <3>1. /\ Children(heap, q) \in Seq(Cells)
          /\ \A j \in 1 .. Len(Children(heap, q)) : home[Children(heap, q)[j]] = q
      BY <1>1, <2>1, <2>3, ChildrenAreList
    <3>2. ASSUME NEW j \in 1 .. Len(Children(heap, q))
          PROVE  heap'[Children(heap, q)[j]].next = heap[Children(heap, q)[j]].next
      <4>1. Children(heap, q)[j] \in Cells /\ home[Children(heap, q)[j]] = q
        BY <3>1
      <4>2. Children(heap, q)[j] # n
        BY <1>1, <1>2, <2>1, <4>1 DEF HomeInv
      <4> QED  BY <4>1, <4>2
    <3>3. heap'[q].child = heap[q].child
      BY <2>1
    <3>4. Children(heap', q) = Children(heap, q)
      BY <1>1, <2>1, <3>2, <3>3, ChildrenStay
    <3> QED  BY <2>1, <2>3, <3>4 DEF Kids
  <2> QED  BY <2>2, <2>3
<1>5. Family(heap', lost') = Family(heap, lost)
  BY <1>3, <1>4 DEF Family
<1>6. Documents' = Documents
  BY <1>5, DocumentsAre, DocumentsWillBe
<1>7. ASSUME heap'[n].type # "invalid", Fine(heap, lost) PROVE Fine(heap', lost')
  <2>1. heap[n].type = "free" /\ Ready(heap', lost \cup {n}, house, held')
    BY DEF Free
  <2> QED  BY <1>2, <1>7, <2>1, FineWithLost
<1> QED  BY <1>6, <1>7 DEF StaysFine

\* What a new reference n to the children of x leads to.
Through(h, n, x) == {n} \cup Reach(h, {h[x].child}, TRUE)
LEMMA ReferenceLeadsTo ==
    ASSUME CellsAssumption, NEW h \in [Cells -> Items], NEW x \in Cells, NEW n \in Cells,
           NEW p, p # n, p \notin Tree(h, x, TRUE),
           NEW g, g[n].child = h[x].child, g[n].next = NULL, \A c \in Cells : c # n => g[c] = h[c]
    PROVE  /\ Through(h, n, x) \in SUBSET Cells /\ ClosedAs(g, Through(h, n, x), TRUE)
           /\ n \in Through(h, n, x) /\ p \notin Through(h, n, x)
<1> DEFINE S == {h[x].child}
           Q == Reach(h, S, TRUE)
           R == {n} \cup Q
<1>1. S \in SUBSET Pointers /\ TRUE \in BOOLEAN
  BY FieldTypes
<1>2. Q \in SUBSET Cells /\ S \ {NULL} \subseteq Q /\ ClosedAs(h, Q, TRUE)
  BY <1>1, ReachFacts
<1>3. p \notin Q
  BY DEF Tree
<1> HIDE DEF Q
<1>4. ClosedAs(g, R, TRUE)
  BY <1>2 DEF ClosedAs
<1> QED  BY <1>2, <1>3, <1>4 DEF Q, Through

\* A new reference to the children of x is none to those of p.
LEMMA StaysUnreferenced ==
    ASSUME CellsAssumption, NEW home, Ready(heap, lost, home, held), NEW n \in Cells,
           NEW x \in Owned, NEW p \in Live(heap, lost), n \notin Live(heap, lost),
           Parent(heap, lost, p), Owned \subseteq Live(heap, lost),
           heap[p].child # NULL => Unreferenced(heap, lost, heap[p].child),
           p \notin Tree(heap, x, TRUE), NEW r, r.child = heap[x].child, r.ref,
           NEW g, g[n] = r, \A c \in Cells : c # n => g[c] = heap[c], n \notin lost
    PROVE  g[p].child # NULL => Unreferenced(g, lost, g[p].child)
<1> SUFFICES ASSUME heap[p].child # NULL, NEW c \in Live(g, lost), g[c].ref, g[c].child = heap[p].child
             PROVE  FALSE
  BY DEF Unreferenced, Live
<1>1. c = n
  BY DEF Unreferenced, Live
<1>2. heap[x].child = heap[p].child /\ x \in Live(heap, lost) /\ x # p
  BY <1>1 DEF Tree
<1>3. ~heap[x].ref
  BY <1>2 DEF Unreferenced
<1>4. ~heap[p].ref /\ x \in Cells /\ p \in Cells /\ HomeInv(heap, lost, home) /\ heap[p].child \in Cells
  BY ReadyFacts, FieldTypes DEF Parent, Live, Sound, Pointers
<1> QED  BY <1>2, <1>3, <1>4 DEF Kid, HomeInv

\* cJSON_AddItemReferenceToArray and cJSON_AddItemReferenceToObject
LEMMA AddReferencePuts ==
    ASSUME CellsAssumption, NamesAssumption, ScalarsAssumption, CJsonInv, CJsonInv', AddReference
    PROVE  /\ Forest!PutNew(Documents, Documents') \/ (Documents' = Documents /\ held' = held)
           /\ StaysFine
<1>1. PICK p \in Parents("array") \cup Parents("object"), x \in Owned, n \in Free, key \in Keys :
          /\ p \notin Tree(heap, x, TRUE)
          /\ LET h == Referring(heap, n, x) IN
             IF heap[p].type = "array" THEN heap' = AddToArray(h, p, n) /\ UNCHANGED lost
             ELSE \/ heap' = AddToArray(Named(h, n, key), p, n) /\ UNCHANGED lost
                  \/ heap' = h /\ lost' = lost \cup {n}
  BY DEF AddReference
<1>2. PICK home : Ready(heap, lost, home, held)
  BY IdleIsReady DEF AddReference
<1>3. held' = held /\ call' = NoCall
  BY IdleIsReady DEF AddReference
<1>4. PICK house : Ready(heap', lost', house, held')
  BY <1>3, ReadyAgain
<1>5. /\ Parent(heap, lost, p) /\ Owned \subseteq Live(heap, lost)
      /\ heap[p].child # NULL => Unreferenced(heap, lost, heap[p].child)
  BY <1>2, CallersItems DEF Containers
<1> DEFINE r == [heap[x] EXCEPT !.ref = TRUE, !.key = NULL, !.next = NULL, !.prev = NULL]
           g == [heap EXCEPT ![n] = r]
           more == held \cup {n}
<1>6. /\ x \in Cells /\ heap[x] \in Items /\ heap[x].type # "free"
      /\ heap[x].type \in Scalars => heap[x].child = NULL
      /\ heap[x].child # NULL =>
             \E q \in Cells : Kid(heap, q, heap[x].child) /\ heap[q].type = heap[x].type
  BY <1>2, ReferenceIsOne
<1>7. /\ r \in Items /\ r.type = heap[x].type /\ r.child = heap[x].child
      /\ r.ref /\ r.next = NULL /\ r.prev = NULL /\ r.type # "free"
  BY <1>6 DEF Items, Pointers
<1>8. g = Referring(heap, n, x)
  BY DEF Referring
<1>9. n \in Cells /\ heap[n].type = "free"
  BY DEF Free
<1> HIDE DEF r
<1>10. Ready(g, lost, home, more) /\ Unknown(heap, lost, home, n)
  BY <1>2, <1>6, <1>7, <1>9, ReadyWithNew
<1>11. /\ Parent(g, lost, p) /\ {n} \in SUBSET Cells /\ Closed(g, {n}) /\ p \notin {n}
       /\ (heap[p].type = "object" => r.key # NULL) => Joins(g, home, {}, more, p, n)
  BY <1>2, <1>5, <1>6, <1>7, <1>9, <1>10, NewJoins
<1>12. g[n] = r /\ \A c \in Cells : c # n => g[c] = heap[c]
  BY <1>2, <1>9, ReadyFacts
<1>13. n \notin lost /\ n \in more /\ p \in Live(heap, lost)
  BY <1>5, <1>10 DEF Unknown, Parent
<1>14. \/ heap[p].type = "array" /\ heap' = AddToArray(g, p, n) /\ lost' = lost
       \/ heap' = AddToArray(Named(g, n, key), p, n) /\ lost' = lost
       \/ heap' = g /\ lost' = lost \cup {n}
  <2> HIDE DEF g
  <2> QED  BY <1>1, <1>8
<1> HIDE DEF g, more
<1>15. /\ Live(g, lost) = Live(heap, lost) \cup {n} /\ n \notin Live(heap, lost)
       /\ Family(g, lost) = WithNew(Family(heap, lost), n)
  BY <1>2, <1>7, <1>9, <1>10, <1>12, <1>13, FamilyWithNew
<1> DEFINE R == Through(heap, n, x)
<1>16. R \in SUBSET Cells /\ ClosedAs(g, R, TRUE) /\ n \in R /\ p \notin R
  <2>1. p \notin Tree(heap, x, TRUE)
    BY <1>1
  <2>2. heap \in [Cells -> Items] /\ p # n /\ g[n].child = heap[x].child /\ g[n].next = NULL
    BY <1>2, <1>7, <1>12, <1>13, <1>15, ReadyFacts
  <2> QED  BY <1>6, <1>9, <1>12, <2>1, <2>2, ReferenceLeadsTo
<1>17. g[p].child # NULL => Unreferenced(g, lost, g[p].child)
  BY <1>1, <1>2, <1>5, <1>7, <1>9, <1>12, <1>13, <1>15, StaysUnreferenced
<1>18. heap[x].type # "invalid" => (Fine(heap, lost) => Fine(g, lost))
  BY <1>2, <1>7, <1>9, <1>10, <1>12, <1>13, FineWithNew
<1>19. Fine(heap, lost) => heap[x].type # "invalid"
  BY <1>6 DEF Fine
<1> HIDE DEF R
<1>20. ASSUME heap[p].type = "array", heap' = AddToArray(g, p, n), lost' = lost
       PROVE  Forest!PutNew(Documents, Documents') /\ StaysFine
  <2>1. Joins(g, home, {}, more, p, n)
    BY <1>11, <1>20
  <2>2. /\ ~g[p].ref /\ Children(g, p) \in Seq(Cells)
        /\ Relists(g, home, heap', p,
                   Forest!InsertAt(Children(g, p), Len(Children(g, p)) + 1, n))
    BY <1>10, <1>11, <1>20, <2>1, AddingRelists
  <2>3. Fine(heap, lost) => Fine(g, lost)
    BY <1>18, <1>19
  <2> QED  BY <1>2, <1>3, <1>4, <1>9, <1>10, <1>13, <1>15, <1>20, <1>16, <1>17, <2>2, <2>3, IsPutNew
<1>21. ASSUME heap' = AddToArray(Named(g, n, key), p, n), lost' = lost
       PROVE  Forest!PutNew(Documents, Documents') /\ StaysFine
  <2> DEFINE k == Named(g, n, key)
             C == {n}
  <2>1. Ready(k, lost, home, more)
        /\ \A c \in Cells : /\ k[c].type = g[c].type /\ k[c].ref = g[c].ref
                            /\ k[c].child = g[c].child /\ k[c].next = g[c].next
    BY <1>10, <1>13, ReadyWhenNamed
  <2>2. C \in SUBSET Cells /\ Closed(g, C) /\ n \in C /\ p \notin C
    BY <1>11
  <2> HIDE DEF C
  <2>3. Parent(k, lost, p) /\ Joins(k, home, {}, more, p, n)
    BY <1>10, <1>11, <1>13, <2>2, NamedJoins
  <2>4. heap' = AddToArray(k, p, n)
    BY <1>21
  <2> HIDE DEF k
  <2>5. Family(k, lost) = WithNew(Family(heap, lost), n) /\ Live(k, lost) = Live(heap, lost) \cup {n}
    BY <1>10, <1>15, <2>1, FamilyStays
  <2>6. /\ ~k[p].ref /\ Children(k, p) \in Seq(Cells)
        /\ Relists(k, home, heap', p,
                   Forest!InsertAt(Children(k, p), Len(Children(k, p)) + 1, n))
    BY <2>1, <2>3, <2>4, AddingRelists
  <2>7. Fine(heap, lost) => Fine(k, lost)
    BY <1>10, <1>18, <1>19, <2>1, FineStays
  <2>8. ClosedAs(k, R, TRUE) /\ (k[p].child # NULL => Unreferenced(k, lost, k[p].child))
    <3>1. p \in Cells
      BY <1>13 DEF Live
    <3> QED  BY <1>16, <1>17, <2>1, <3>1, NamedTree
  <2> QED  BY <1>2, <1>3, <1>4, <1>9, <1>13, <1>15, <1>21, <1>16, <2>1, <2>5, <2>6, <2>7, <2>8, IsPutNew
<1>22. ASSUME heap' = g, lost' = lost \cup {n} PROVE Documents' = Documents /\ StaysFine
  <2>1. \A c \in Cells : c # n => heap'[c] = heap[c]
    BY <1>12, <1>22
  <2>2. Documents' = Documents /\ (heap'[n].type # "invalid" => StaysFine)
    BY <1>2, <1>4, <1>22, <2>1, LostChangesNothing
  <2>3. heap'[n].type = heap[x].type
    BY <1>7, <1>12, <1>22
  <2> QED  BY <1>19, <2>2, <2>3 DEF StaysFine
<1> QED  BY <1>3, <1>14, <1>20, <1>21, <1>22

\* cJSON_DetachItemFromArray and cJSON_DetachItemFromObject
LEMMA DetachItemTakes ==
    ASSUME CellsAssumption, ScalarsAssumption, CJsonInv, CJsonInv', DetachItem
    PROVE  Forest!Take(Documents, Documents') /\ StaysFine
<1>1. PICK p \in Parents("array") \cup Parents("object"), index \in 0 .. Cardinality(Cells) :
          LET x == ArrayItem(heap, p, index) IN
          /\ x # NULL /\ heap' = Detach(heap, p, x)
          /\ held' = held \cup {x} /\ lost' = lost /\ call' = call
  BY DEF DetachItem
<1>2. PICK home : Ready(heap, lost, home, held)
  BY IdleIsReady DEF DetachItem
<1>3. PICK house : Ready(heap', lost', house, held')
  BY <1>1, IdleIsReady, ReadyAgain DEF DetachItem
<1> DEFINE x == ArrayItem(heap, p, index)
<1>4. /\ x # NULL /\ heap' = Detach(heap, p, x) /\ held' = held \cup {x} /\ lost' = lost
      /\ \E i \in Nat : x = ArrayItem(heap, p, i)
  BY <1>1
<1> HIDE DEF x
<1>5. /\ p \in Cells /\ ~heap[p].ref /\ x \in Cells /\ home[x] = p
      /\ heap[p].child # NULL => Unreferenced(heap, lost, heap[p].child)
  BY <1>2, <1>4, FoundChild
<1>6. PICK i \in 1 .. Len(Children(heap, p)) :
          /\ Children(heap, p)[i] = x /\ p \in Live(heap, lost)
          /\ Relists(heap, home, heap', p, Forest!RemoveAt(Children(heap, p), i))
  BY <1>2, <1>4, <1>5, DetachingRelists
<1>7. /\ Documents = Family(heap, lost) /\ DOMAIN Documents = Live(heap, lost)
      /\ Documents' = Family(heap', lost)
  BY <1>2, <1>3, <1>4, DocumentsAre, DocumentsWillBe
<1>8. Family(heap', lost) = [Family(heap, lost) EXCEPT ![p] = Forest!RemoveAt(Children(heap, p), i)]
  BY <1>2, <1>3, <1>4, <1>5, <1>6, FamilyRelisted
<1>9. Documents[p] = Children(heap, p)
  BY <1>5, <1>6, <1>7 DEF Family, Kids
<1>10. Documents' = [Documents EXCEPT ![p] = Forest!RemoveAt(Documents[p], i)]
  BY <1>7, <1>8, <1>9
<1>11. x \in held' \ held
  <2>1. x \notin held
    <3>1. NULL \notin Cells /\ \A c \in held : home[c] = NULL
      BY <1>2, ReadyFacts
    <3> QED  BY <1>5, <3>1
  <2> QED  BY <1>4, <2>1
<1>12. Children(heap, p) \in Seq(Cells)
  BY <1>2, <1>5, PlaceOfChild
<1>13. i \in DOMAIN Documents[p] /\ Documents[p][i] = x /\ p \in DOMAIN Documents
  BY <1>6, <1>7, <1>9, <1>12
<1> HIDE DEF Documents
<1>14. StaysFine
  <2> SUFFICES ASSUME Fine(heap, lost) PROVE Fine(heap', lost)
    BY <1>4 DEF StaysFine
  <2>1. Ready(heap', lost, house, held')
    BY <1>3, <1>4
  <2> QED  BY <1>2, <1>5, <1>6, <2>1, FineWhenTaken
<1> QED  BY <1>4, <1>10, <1>11, <1>13, <1>14 DEF Forest!Take

\* A child is taken out and deleted.
LEMMA IsDropped ==
    ASSUME CellsAssumption, NEW home, Ready(heap, lost, home, held),
           NEW h, NEW away, NEW hands, Ready(h, lost, away, hands),
           NEW x \in hands, heap' = Delete(h, x),
           NEW house, Ready(heap', lost', house, held'), lost' = lost
    PROVE  Documents' = Forest!Without(Family(h, lost), x) /\ x \notin DOMAIN Documents'
<1>1. /\ Family(heap', lost) = Forest!Without(Family(h, lost), x)
      /\ Live(heap', lost) = Live(h, lost) \ Freed(h, x)
  <2>1. Ready(Delete(h, x), lost, house, held')
    OBVIOUS
  <2> QED  BY <2>1, FamilyWhenDeleted
<1>2. Documents' = Family(heap', lost) /\ DOMAIN Documents' = Live(heap', lost)
  BY DocumentsWillBe
<1>3. x \in Freed(h, x)
  <2> DEFINE none == {}
  <2>1. Sound(h, lost, away, none, hands, none) /\ x \in Cells
    BY ReadyFacts
  <2> HIDE DEF none
  <2> QED  BY <2>1, FreshIsClosed
<1> QED  BY <1>1, <1>2, <1>3

\* cJSON_DeleteItemFromArray and cJSON_DeleteItemFromObject
LEMMA DeleteChildDrops ==
    ASSUME CellsAssumption, ScalarsAssumption, CJsonInv, CJsonInv', DeleteChild
    PROVE  Forest!DropChild(Documents, Documents') /\ StaysFine
<1>1. PICK p \in Parents("array") \cup Parents("object"), index \in 0 .. Cardinality(Cells) :
          LET x == ArrayItem(heap, p, index) IN
          /\ x # NULL /\ NoRefInto(Tree(heap, x, FALSE)) /\ heap' = Delete(Detach(heap, p, x), x)
  BY DEF DeleteChild
<1>2. PICK home : Ready(heap, lost, home, held)
  BY IdleIsReady DEF DeleteChild
<1>3. held' = held /\ lost' = lost /\ call' = NoCall
  BY IdleIsReady DEF DeleteChild
<1>4. PICK house : Ready(heap', lost', house, held')
  BY <1>3, ReadyAgain
<1> DEFINE x == ArrayItem(heap, p, index)
           h == Detach(heap, p, x)
           F == Tree(heap, x, FALSE)
<1>5. NoRefInto(F)
  BY <1>1
<1> HIDE DEF F
<1>6. \A r \in Live(heap, lost) : heap[r].ref /\ r \notin F => heap[r].child \notin F
  BY <1>5, NoneInto
<1>7. x # NULL /\ heap' = Delete(h, x) /\ \E i \in Nat : x = ArrayItem(heap, p, i)
  BY <1>1
<1> HIDE DEF x
<1>8. /\ p \in Cells /\ ~heap[p].ref /\ x \in Cells /\ home[x] = p
      /\ Kid(heap, p, x) => Unreferenced(heap, lost, x)
      /\ heap[p].child # NULL => Unreferenced(heap, lost, heap[p].child)
  BY <1>2, <1>7, FoundChild
<1>9. PICK i \in 1 .. Len(Children(heap, p)) :
          /\ Children(heap, p)[i] = x /\ p \in Live(heap, lost) /\ Out(heap, h, p, x)
          /\ Relists(heap, home, h, p, Forest!RemoveAt(Children(heap, p), i))
  BY <1>2, <1>8, DetachingRelists
<1>10. Alone(h, lost, x)
  BY <1>2, <1>8, <1>6, ReadyWhenChildDeleted DEF F
<1> DEFINE away == [home EXCEPT ![x] = NULL]
           hands == held \cup {x}
<1> HIDE DEF h
<1>11. Ready(h, lost, away, hands) /\ x \in hands
  BY <1>2, <1>8, <1>9, ReadyWithout
<1> HIDE DEF away, hands
<1>12. Family(h, lost) = [Family(heap, lost) EXCEPT ![p] = Forest!RemoveAt(Children(heap, p), i)]
  BY <1>2, <1>8, <1>9, <1>11, FamilyRelisted
<1>13. Documents' = Forest!Without(Family(h, lost), x) /\ x \notin DOMAIN Documents'
  BY <1>2, <1>3, <1>4, <1>7, <1>11, IsDropped
<1>14. Documents = Family(heap, lost) /\ DOMAIN Documents = Live(heap, lost)
  BY <1>2, DocumentsAre
<1>15. Documents[p] = Children(heap, p)
  BY <1>8, <1>9, <1>14 DEF Family, Kids
<1>16. Children(heap, p) \in Seq(Cells)
  BY <1>2, <1>8, PlaceOfChild
<1>17. i \in DOMAIN Documents[p] /\ Documents[p][i] = x /\ p \in DOMAIN Documents
  BY <1>9, <1>14, <1>15, <1>16
<1>18. Family(h, lost) = [Documents EXCEPT ![p] = Forest!RemoveAt(Documents[p], i)]
  BY <1>12, <1>14, <1>15
<1>19. StaysFine
  <2> SUFFICES ASSUME Fine(heap, lost) PROVE Fine(heap', lost)
    BY <1>3 DEF StaysFine
  <2>1. Fine(h, lost)
    BY <1>2, <1>8, <1>9, <1>11, FineWhenTaken
  <2>2. Ready(Delete(h, x), lost, house, held')
    BY <1>3, <1>4, <1>7
  <2>3. Fine(Delete(h, x), lost)
    BY <1>11, <1>10, <2>1, <2>2, FineWhenDeleted
  <2> QED  BY <1>7, <2>3
<1> HIDE DEF Documents
<1> QED  BY <1>3, <1>13, <1>17, <1>18, <1>19 DEF Forest!DropChild

\* cJSON_ReplaceItemViaPointer, on an item that was perhaps given a name before.
LEMMA IsSwapped ==
    ASSUME CellsAssumption, NEW home, Ready(heap, lost, home, held),
           NEW h, Ready(h, lost, home, held), Family(h, lost) = Family(heap, lost),
           NEW p, Parent(h, lost, p), NEW new, Joins(h, home, {}, held, p, new),
           h[p].child # NULL => Unreferenced(h, lost, h[p].child),
           NEW x \in Cells, home[x] = p,
           NEW house, Ready(heap', lost', house, held'), lost' = lost, held' = held \ {new},
           heap' = Replace(h, p, x, new),
           NEW R \in SUBSET Cells, ClosedAs(h, R, TRUE), new \in R, p \notin R,
           Fine(heap, lost) => Fine(h, lost), Alone(Swapped(h, p, x, new), lost, x)
    PROVE  Forest!Swap(Documents, Documents') /\ StaysFine
<1> DEFINE g == Swapped(h, p, x, new)
<1>1. heap' = Delete(g, x) /\ Alone(g, lost, x)
  BY DEF Replace
<1> HIDE DEF g
<1>2. p \in Live(h, lost) /\ ~h[p].ref /\ Children(h, p) \in Seq(Cells)
  BY SwappingRelists
<1>3. Exchanged(h, g, lost, p, x, new) /\ (Fine(h, lost) => Fine(g, lost))
  BY SwappingRelists DEF g
<1>4. PICK i \in 1 .. Len(Children(h, p)) : \E away, hands :
          /\ Children(h, p)[i] = x /\ x \in hands /\ Ready(g, lost, away, hands)
          /\ Family(g, lost) = [Family(h, lost) EXCEPT ![p] = [Children(h, p) EXCEPT ![i] = new]]
  BY <1>3 DEF Exchanged
<1>5. PICK away, hands :
          /\ Children(h, p)[i] = x /\ x \in hands /\ Ready(g, lost, away, hands)
          /\ Family(g, lost) = [Family(h, lost) EXCEPT ![p] = [Children(h, p) EXCEPT ![i] = new]]
  BY <1>4
<1>6. Documents' = Forest!Without(Family(g, lost), x) /\ x \notin DOMAIN Documents'
  BY <1>1, <1>5, IsDropped
<1>7. Documents = Family(h, lost) /\ DOMAIN Documents = Live(h, lost)
  <2>1. Documents = Family(h, lost)
    BY DocumentsAre
  <2> QED  BY <2>1 DEF Family
<1>8. Documents[p] = Children(h, p)
  BY <1>2, <1>7 DEF Family, Kids
<1>9. i \in DOMAIN Documents[p] /\ Documents[p][i] = x /\ p \in DOMAIN Documents
  BY <1>2, <1>5, <1>7, <1>8
<1>10. new \in held \ held'
  BY DEF Joins
<1> HIDE DEF Documents
<1>11. Documents' = Forest!Without([Documents EXCEPT ![p][i] = new], Documents[p][i])
  <2>1. Family(g, lost) = [Documents EXCEPT ![p][i] = new]
    BY <1>5, <1>7, <1>8
  <2> QED  BY <1>6, <1>9, <2>1
<1>12. Documents[p][i] \notin DOMAIN Documents' /\ held' = held \ {new}
  BY <1>6, <1>9
<1>13. StaysFine
  <2> SUFFICES ASSUME Fine(h, lost) PROVE Fine(heap', lost)
    BY DEF StaysFine
  <2>1. Fine(g, lost)
    BY <1>3
  <2>2. Ready(Delete(g, x), lost, house, held')
    BY <1>1
  <2>3. Fine(Delete(g, x), lost)
    BY <1>1, <1>5, <2>1, <2>2, FineWhenDeleted
  <2> QED  BY <1>1, <2>3
<1> QED  BY <1>9, <1>10, <1>11, <1>12, <1>13 DEF Forest!Swap

\* cJSON_ReplaceItemInArray
LEMMA ReplaceItemInArraySwaps ==
    ASSUME CellsAssumption, ScalarsAssumption, CJsonInv, CJsonInv', ReplaceItemInArray
    PROVE  Forest!Swap(Documents, Documents') /\ StaysFine
<1>1. PICK p \in Parents("array"), new \in held, index \in 0 .. Cardinality(Cells) :
          LET x == ArrayItem(heap, p, index) IN
          /\ MayAdd(p, new) /\ x # NULL /\ NoRefInto(Tree(heap, x, FALSE))
          /\ heap' = Replace(heap, p, x, new) /\ held' = held \ {new}
  BY DEF ReplaceItemInArray
<1>2. PICK home : Ready(heap, lost, home, held)
  BY IdleIsReady DEF ReplaceItemInArray
<1>3. lost' = lost /\ call' = NoCall
  BY IdleIsReady DEF ReplaceItemInArray
<1>4. PICK house : Ready(heap', lost', house, held')
  BY <1>3, ReadyAgain
<1> DEFINE x == ArrayItem(heap, p, index)
           F == Tree(heap, x, FALSE)
<1> HIDE DEF F
<1>5. /\ MayAdd(p, new) /\ x # NULL /\ NoRefInto(F) /\ heap' = Replace(heap, p, x, new) /\ held' = held \ {new}
      /\ \E i \in Nat : x = ArrayItem(heap, p, i)
  <2>1. /\ MayAdd(p, new) /\ x # NULL /\ NoRefInto(F)
        /\ heap' = Replace(heap, p, x, new) /\ held' = held \ {new}
    BY <1>1 DEF F
  <2>2. \E i \in Nat : x = ArrayItem(heap, p, i)
    OBVIOUS
  <2> HIDE DEF x
  <2> QED  BY <2>1, <2>2
<1> HIDE DEF x
<1>6. /\ p \in Cells /\ Parent(heap, lost, p) /\ x \in Cells /\ home[x] = p
      /\ heap[p].child # NULL => Unreferenced(heap, lost, heap[p].child)
  BY <1>2, <1>5, FoundChild
<1>7. heap[p].type = "array"
  BY DEF Parents
<1>8. Joins(heap, home, {}, held, p, new)
  BY <1>2, <1>5, <1>6, <1>7, MayAddJoins
<1>9. \A r \in Live(heap, lost) : heap[r].ref /\ r \notin F => heap[r].child \notin F
  BY <1>5, NoneInto
<1>10. Alone(Swapped(heap, p, x, new), lost, x)
  BY <1>2, <1>6, <1>8, <1>9, ReadyWhenReplaced DEF F
<1> DEFINE R == Tree(heap, new, TRUE)
<1>11. R \in SUBSET Cells /\ ClosedAs(heap, R, TRUE) /\ new \in R /\ p \notin R
  BY <1>2, <1>5, MayAddTree
<1> HIDE DEF R
<1> QED  BY <1>2, <1>3, <1>4, <1>5, <1>6, <1>8, <1>10, <1>11, IsSwapped

\* The name of an item is not seen in the documents.
LEMMA NamingChangesNothing ==
    ASSUME CellsAssumption, NEW home, Ready(heap, lost, home, held), NEW x \in held,
           NEW key \in Keys \cup {NULL}, heap' = Named(heap, x, key), held' = held, lost' = lost
    PROVE  Documents' = Documents /\ StaysFine
<1> DEFINE h == Named(heap, x, key)
<1>1. Ready(h, lost, home, held)
      /\ \A c \in Cells : /\ h[c].type = heap[c].type /\ h[c].ref = heap[c].ref
                          /\ h[c].child = heap[c].child /\ h[c].next = heap[c].next
  BY ReadyWhenNamed
<1> HIDE DEF h
<1>2. Family(h, lost) = Family(heap, lost)
  BY <1>1, FamilyStays
<1>3. heap' = h
  BY DEF h
<1>4. Documents' = Documents
  BY <1>1, <1>2, <1>3, DocumentsAre, DocumentsWillBe
<1>5. Fine(heap, lost) => Fine(h, lost)
  BY <1>1, FineStays
<1> QED  BY <1>3, <1>4, <1>5 DEF StaysFine

\* cJSON_ReplaceItemInObject: when there is nothing to replace, or no memory, only names change.
LEMMA ReplaceItemInObjectSwaps ==
    ASSUME CellsAssumption, NamesAssumption, ScalarsAssumption, CJsonInv, CJsonInv',
           ReplaceItemInObject
    PROVE  /\ Forest!Swap(Documents, Documents') \/ (Documents' = Documents /\ held' = held)
           /\ StaysFine
<1>1. PICK p \in Parents("object"), new \in held, key \in Keys, sensitive \in BOOLEAN :
          LET h == Named(heap, new, key)
              x == ObjectItem(heap, p, key, sensitive)
          IN /\ MayAdd(p, new)
             /\ \/ heap' = Named(heap, new, NULL) /\ UNCHANGED held
                \/ x = NULL /\ heap' = h /\ UNCHANGED held
                \/ /\ x # NULL /\ NoRefInto(Tree(heap, x, FALSE))
                   /\ heap' = Replace(h, p, x, new)
                   /\ held' = held \ {new}
  BY DEF ReplaceItemInObject
<1>2. PICK home : Ready(heap, lost, home, held)
  BY IdleIsReady DEF ReplaceItemInObject
<1>3. lost' = lost /\ call' = NoCall
  BY IdleIsReady DEF ReplaceItemInObject
<1>4. PICK house : Ready(heap', lost', house, held')
  BY <1>3, ReadyAgain
<1> DEFINE h == Named(heap, new, key)
           x == ObjectItem(heap, p, key, sensitive)
           nothing == NULL
           F == OwnTree(heap, x)
<1>5. /\ MayAdd(p, new)
      /\ \/ heap' = Named(heap, new, nothing) /\ held' = held
         \/ heap' = h /\ held' = held
         \/ x # NULL /\ NoRefInto(F) /\ heap' = Replace(h, p, x, new) /\ held' = held \ {new}
  BY <1>1 DEF OwnTree
<1>6. \E k, s : x = ObjectItem(heap, p, k, s)
  OBVIOUS
<1>7. nothing \in Keys \cup {NULL} /\ key \in Keys \cup {NULL}
  OBVIOUS
<1>8. Ready(h, lost, home, held)
      /\ \A c \in Cells : /\ h[c].type = heap[c].type /\ h[c].ref = heap[c].ref
                          /\ h[c].child = heap[c].child /\ h[c].next = heap[c].next
  BY <1>2, ReadyWhenNamed
<1> HIDE DEF x, nothing, F
<1>9. CASE heap' = Named(heap, new, nothing) /\ held' = held
  BY <1>2, <1>3, <1>7, <1>9, NamingChangesNothing
<1>10. CASE heap' = h /\ held' = held
  BY <1>2, <1>3, <1>7, <1>10, NamingChangesNothing
<1>11. CASE x # NULL /\ NoRefInto(F) /\ heap' = Replace(h, p, x, new) /\ held' = held \ {new}
  <2>1. /\ p \in Cells /\ Parent(heap, lost, p) /\ x \in Cells /\ home[x] = p
        /\ heap[p].child # NULL => Unreferenced(heap, lost, heap[p].child)
    BY <1>2, <1>6, <1>11, FoundChild
  <2> DEFINE C == Tree(heap, new, TRUE)
  <2>2. C \in SUBSET Cells /\ Closed(heap, C) /\ new \in C
    BY <1>2, <1>5, MayAddTree
  <2>3. p \notin C /\ ClosedAs(heap, C, TRUE)
    BY <1>2, <1>5, MayAddTree
  <2> HIDE DEF C
  <2>4. Parent(h, lost, p) /\ Joins(h, home, {}, held, p, new)
    BY <1>2, <2>1, <2>2, <2>3, NamedJoins
  <2> HIDE DEF h
  <2>5. h[p].child # NULL => Unreferenced(h, lost, h[p].child)
    BY <1>8, <2>1 DEF Unreferenced, Live
  <2>6. Family(h, lost) = Family(heap, lost)
    BY <1>2, <1>8, FamilyStays
  <2>7. ClosedAs(h, C, TRUE)
    BY <1>8, <2>2, <2>3, NamedTree
  <2>8. Fine(heap, lost) => Fine(h, lost)
    BY <1>2, <1>8, FineStays
  <2>9. OwnTree(h, x) = F
    <3>1. heap \in [Cells -> Items] /\ h \in [Cells -> Items]
      BY <1>2, <1>8, ReadyFacts
    <3> QED  BY <1>8, <2>1, <3>1, SameTree DEF F
  <2>10. \A r \in Live(heap, lost) : heap[r].ref /\ r \notin F => heap[r].child \notin F
    BY <1>11, NoneInto
  <2>11. \A r \in Live(h, lost) : h[r].ref /\ r \notin F => h[r].child \notin F
    BY <1>8, <2>10 DEF Live
  <2>12. \A r \in Live(h, lost) :
             h[r].ref /\ r \notin Tree(h, x, FALSE) => h[r].child \notin Tree(h, x, FALSE)
    BY <2>9, <2>11 DEF OwnTree
  <2>13. Alone(Swapped(h, p, x, new), lost, x)
    BY <1>8, <2>1, <2>4, <2>5, <2>12, ReadyWhenReplaced
  <2>14. Forest!Swap(Documents, Documents') /\ StaysFine
    BY <1>2, <1>3, <1>4, <1>8, <1>11, <2>1, <2>2, <2>3, <2>4, <2>5, <2>6, <2>7, <2>8, <2>13, IsSwapped
  <2> QED  BY <2>14
<1> HIDE DEF h
<1> QED  BY <1>5, <1>9, <1>10, <1>11

\* cJSON_Duplicate of one item alone returns at once.
LEMMA DuplicateOneMakes ==
    ASSUME CellsAssumption, NamesAssumption, ScalarsAssumption, CJsonInv, CJsonInv',
           DuplicateStart, call' = NoCall
    PROVE  Forest!Make(Documents, Documents') /\ StaysFine
<1>1. PICK x \in Owned, n \in Free, recurse \in BOOLEAN :
          /\ heap' = Copied(heap, n, x)
          /\ IF recurse
             THEN call' = [NoCall EXCEPT !.op = "duplicate",
                                         !.stack = <<Frame(n, heap[x].type, heap[x].child)>>]
             ELSE held' = held \cup {n}
  BY DEF DuplicateStart, Return
<1>2. PICK home : Ready(heap, lost, home, held)
  BY IdleIsReady DEF DuplicateStart
<1>3. PICK house : Ready(heap', lost', house, held')
  BY ReadyAgain
<1>4. held' = held \cup {n} /\ lost' = lost
  <2>1. ~recurse
    BY <1>1 DEF NoCall
  <2> QED  BY <1>1, <2>1 DEF DuplicateStart
<1> DEFINE r == [Blank EXCEPT !.type = heap[x].type, !.key = heap[x].key]
<1>5. heap[x] \in Items /\ heap[x].type # "free"
  BY <1>2, ReferenceIsOne
<1>6. r \in Items /\ r.type = heap[x].type /\ r.type # "free" /\ r.next = NULL /\ r.child = NULL
  BY <1>5 DEF Items, Pointers, Blank
<1>7. heap'[n] = r /\ \A c \in Cells : c # n => heap'[c] = heap[c]
  BY <1>1, <1>2, ReadyFacts DEF Free, Copied
<1> HIDE DEF r
<1>8. Forest!Make(Documents, Documents') /\ (r.type # "invalid" => StaysFine)
  BY <1>2, <1>3, <1>4, <1>6, <1>7, NewIsMade
<1>9. x \in Cells
  BY <1>2, ReferenceIsOne
<1> QED  BY <1>6, <1>8, <1>9 DEF StaysFine, Fine

-----------------------------------------------------------------------------
(* The documents while a call is at work.                                    *)
\* The caller's documents are no work of the call.
LEMMA DocumentsAreApart ==
    ASSUME CellsAssumption, NEW home, NEW fresh,
           Sound(heap, lost, home, fresh, held \cup CallTops, Filling), CallInv(home, fresh)
    PROVE  /\ heap \in [Cells -> Items] /\ held \in SUBSET Cells /\ held \in SUBSET Pointers
           /\ held \ {NULL} = held /\ fresh \in SUBSET Cells
           /\ Owned \subseteq Live(heap, lost) /\ Owned \cap fresh = {} /\ Closed(heap, Owned)
           /\ held \subseteq Owned /\ Filling \subseteq fresh /\ Live(heap, lost) \in SUBSET Cells
<1>1. /\ heap \in [Cells -> Items] /\ NULL \notin Cells /\ held \subseteq Live(heap, lost)
      /\ CellsInv(heap, lost) /\ Live(heap, lost) \in SUBSET Cells
      /\ held \cap fresh = {}
  <2>1. Shape(heap, lost, home, fresh, held \cup CallTops, Filling) /\ CellsInv(heap, lost)
        /\ HeldInv(home, fresh)
    BY DEF Sound, CallInv
  <2> QED  BY <2>1 DEF Shape, HeldInv, CellsAssumption, Live
<1>2. held \in SUBSET Pointers /\ held \in SUBSET Cells /\ held \ {NULL} = held
  BY <1>1 DEF Pointers
<1>3. Owned \subseteq Live(heap, lost)
  BY <1>1, <1>2, ReachIsLive DEF Owned
<1>4. Closed(heap, Cells \ fresh) /\ fresh \in SUBSET Cells
  BY FreshIsClosed
<1> DEFINE Q == Cells \ fresh
<1>5. Q \in SUBSET Cells /\ held \subseteq Q /\ Closed(heap, Q)
  BY <1>1, <1>2, <1>4
<1> HIDE DEF Q
<1>6. Owned \subseteq Q /\ held \subseteq Owned /\ Closed(heap, Owned)
  BY <1>1, <1>2, <1>5, OwnedFacts DEF Owned
<1>7. Filling \subseteq fresh
  <2>1. CASE call.op = "none"
    BY <2>1 DEF CallInv, CallType, NoCall, Filling
  <2>2. CASE call.op = "parse"
    BY <2>2 DEF CallInv, ParseInv, OpenText, Filling
  <2>3. CASE call.op \in {"duplicate", "array"}
    BY <2>3 DEF CallInv, CopyInv, OpenCopy, Filling
  <2>4. call.op \in {"none", "parse", "duplicate", "array"}
    BY DEF CallInv, CallType
  <2> QED  BY <2>1, <2>2, <2>3, <2>4
<1> QED  BY <1>1, <1>2, <1>3, <1>4, <1>6, <1>7 DEF Q

\* What the frames of a call know is its own work.
LEMMA FramesAreFresh ==
    ASSUME CellsAssumption, NEW home, NEW fresh,
           Sound(heap, lost, home, fresh, held \cup CallTops, Filling), CallInv(home, fresh)
    PROVE  /\ call.op = "parse" => call.root \in fresh
           /\ call.op = "parse" /\ call.todo # NULL /\ ~call.failing => call.todo \in fresh
           /\ \A k \in DOMAIN call.stack :
                /\ call.stack[k].item \in fresh
                /\ call.op = "parse" /\ call.stack[k].head # NULL =>
                       call.stack[k].head \in fresh /\ call.stack[k].last \in fresh
                /\ call.op \in {"duplicate", "array"} /\ call.stack[k].last # NULL =>
                       call.stack[k].last \in fresh
           /\ \A p \in fresh, c \in Cells : Kid(heap, p, c) => c \in fresh
<1>1. CallType /\ ParseInv(home, fresh) /\ CopyInv(home, fresh)
  BY DEF CallInv
<1>2. \A p \in fresh, c \in Cells : Kid(heap, p, c) => c \in fresh
  BY DocumentsAreApart DEF Sound, FreshInv
<1>3. CASE call.op = "none"
  <2>1. call.stack = <<>>
    BY <1>1, <1>3 DEF CallType, NoCall
  <2> QED  BY <1>2, <1>3, <2>1
<1>4. CASE call.op = "parse"
  BY <1>1, <1>2, <1>4 DEF ParseInv, OpenText
<1>5. CASE call.op \in {"duplicate", "array"}
  BY <1>1, <1>2, <1>5 DEF CopyInv, OpenCopy
<1> QED  BY <1>1, <1>3, <1>4, <1>5 DEF CallType

\* The caller's items keep their children when their links are not written.
LEMMA OwnedKeepsKids ==
    ASSUME CellsAssumption, NEW home, NEW fresh, CJsonInv',
           Sound(heap, lost, home, fresh, held \cup CallTops, Filling), CallInv(home, fresh),
           \A c \in Owned : /\ heap'[c].next = heap[c].next /\ heap'[c].child = heap[c].child
                            /\ heap'[c].ref = heap[c].ref
    PROVE  \A q \in Owned : Kids(heap', q) = Kids(heap, q)
<1>1. PICK house \in [Cells -> Pointers], mine \in SUBSET Cells :
          Sound(heap', lost', house, mine, held' \cup CallTops', Filling')
  BY DEF CJsonInv
<1> SUFFICES ASSUME NEW q \in Owned PROVE Kids(heap', q) = Kids(heap, q)
  OBVIOUS
<1>2. /\ q \in Cells /\ q \notin Filling /\ Owned \in SUBSET Cells /\ Closed(heap, Owned)
  BY DocumentsAreApart
<1>3. CASE heap[q].ref
  BY <1>3 DEF Kids
<1>4. CASE ~heap[q].ref
  <2>1. /\ Children(heap, q) \in Seq(Cells)
        /\ \A j \in 1 .. Len(Children(heap, q)) : home[Children(heap, q)[j]] = q
    BY <1>2, <1>4, ChildrenAreList
  <2>2. ASSUME NEW j \in 1 .. Len(Children(heap, q))
        PROVE  heap'[Children(heap, q)[j]].next = heap[Children(heap, q)[j]].next
    <3>1. Children(heap, q)[j] \in Cells /\ home[Children(heap, q)[j]] = q
      BY <2>1
    <3>2. Children(heap, q)[j] \in Owned
      BY <1>2, <3>1, ListIsReached
    <3> QED  BY <3>2
  <2>3. heap'[q].child = heap[q].child
    OBVIOUS
  <2>4. Children(heap', q) = Children(heap, q)
    BY <1>1, <1>2, <2>2, <2>3, ChildrenStay
  <2> QED  BY <1>4, <2>4 DEF Kids
<1> QED  BY <1>3, <1>4

\* What is the caller's, and what is the call's, is all there is; the children of the
\* caller's items are his, and so are the lists that his references lead to.
LEMMA OwnedHasChildren ==
    ASSUME CellsAssumption, NEW home, NEW fresh,
           Sound(heap, lost, home, fresh, held \cup CallTops, Filling), CallInv(home, fresh)
    PROVE  /\ Live(heap, lost) \subseteq Owned \cup fresh
           /\ \A c \in Owned : heap[c].ref /\ heap[c].child # NULL => home[heap[c].child] \in Owned
           /\ \A c \in Owned : \A x : Leads(heap, c, x) => x \in Owned
<1>1. /\ heap \in [Cells -> Items] /\ fresh \in SUBSET Cells
      /\ Owned \subseteq Live(heap, lost) /\ Owned \cap fresh = {} /\ Closed(heap, Owned)
      /\ held \subseteq Owned /\ Filling \subseteq fresh /\ Owned \in SUBSET Cells
  BY DocumentsAreApart
<1>2. Live(heap, lost) \subseteq Owned \cup fresh
  <2> DEFINE Q == Owned \cup fresh
  <2>1. Closed(heap, fresh)
    BY FreshIsClosed
  <2>2. CallTops \subseteq fresh
    <3>1. CASE call.op = "parse"
      BY <3>1, FramesAreFresh DEF CallTops
    <3>2. CASE call.op # "parse"
      BY <1>1, <3>2 DEF CallTops
    <3> QED  BY <3>1, <3>2
  <2>3. Q \in SUBSET Cells /\ held \cup CallTops \subseteq Q /\ Closed(heap, Q)
    BY <1>1, <2>1, <2>2 DEF Closed
  <2>4. Founded(heap, lost, held \cup CallTops)
    BY DEF Sound
  <2> HIDE DEF Q
  <2>5. Live(heap, lost) \subseteq Q
    BY <2>3, <2>4 DEF Founded
  <2> QED  BY <2>5 DEF Q
<1>3. ASSUME NEW c \in Owned, heap[c].child # NULL
      PROVE  home[heap[c].child] \in Owned
  <2>1. c \in Live(heap, lost) /\ c \notin fresh
    BY <1>1
  <2>2. PICK q \in Live(heap, lost) : Kid(heap, q, heap[c].child) /\ home[heap[c].child] = q /\ (q # c => heap[c].ref)
    BY <1>3, <2>1, ChildrenBelong
  <2>3. CASE q = c
    BY <2>2, <2>3
  <2>4. CASE q # c
    <3>1. heap[c].child \notin fresh
      BY <1>3, <2>1, <2>2, <2>4 DEF Sound, RefsInv
    <3>2. q \in Cells /\ heap[c].child \in Cells
      BY <1>1, <1>3, <2>1, FieldTypes DEF Live, Pointers
    <3>3. q \notin fresh
      BY <2>2, <3>1, <3>2 DEF Sound, FreshInv
    <3> QED  BY <1>2, <2>2, <3>3
  <2> QED  BY <2>3, <2>4
<1>4. ASSUME NEW c \in Owned, NEW x, Leads(heap, c, x)
      PROVE  x \in Owned
  <2>1. c \in Live(heap, lost)
    BY <1>1
  <2>2. PICK j \in 1 .. Len(Children(heap, c)) : Children(heap, c)[j] = x
    BY <1>4 DEF Leads
  <2>3. heap[c].child # NULL
    BY <2>1, <2>2, ChildrenBelong
  <2>4. home[x] = home[heap[c].child] /\ x \in Cells
    <3>1. Children(heap, c) \in Seq(Live(heap, lost))
      BY <2>1, ChildrenBelong
    <3>2. x \in Live(heap, lost)
      BY <2>2, <3>1
    <3>3. \A j2 \in 1 .. Len(Children(heap, c)) : home[Children(heap, c)[j2]] = home[heap[c].child]
      BY <2>1, <2>3, ChildrenBelong
    <3> QED  BY <2>2, <3>2, <3>3 DEF Live
  <2>5. home[heap[c].child] \in Owned
    BY <1>3, <2>3
  <2> DEFINE p == home[heap[c].child]
  <2>6. p \in Owned /\ p \notin Filling /\ home[x] = p
    BY <1>1, <2>4, <2>5
  <2> HIDE DEF p
  <2> QED  BY <1>1, <2>4, <2>6, ListIsReached
<1> QED  BY <1>2, <1>3, <1>4

\* So they keep the children that their references lead to as well.
LEMMA OwnedKeepsChildren ==
    ASSUME CellsAssumption, NEW home, NEW fresh, CJsonInv',
           Sound(heap, lost, home, fresh, held \cup CallTops, Filling), CallInv(home, fresh),
           \A c \in Owned : /\ heap'[c].next = heap[c].next /\ heap'[c].child = heap[c].child
                            /\ heap'[c].ref = heap[c].ref
    PROVE  \A q \in Owned : Children(heap', q) = Children(heap, q)
<1>1. PICK house \in [Cells -> Pointers], mine \in SUBSET Cells :
          Sound(heap', lost', house, mine, held' \cup CallTops', Filling')
  BY DEF CJsonInv
<1>2. \A q \in Owned : Kids(heap', q) = Kids(heap, q)
  BY OwnedKeepsKids
<1>3. \A c \in Owned : heap[c].ref /\ heap[c].child # NULL => home[heap[c].child] \in Owned
  BY OwnedHasChildren
<1>4. Owned \in SUBSET Live(heap, lost)
  BY DocumentsAreApart
<1> DEFINE S == Owned
           tops == held \cup CallTops
           open == Filling
           hands == held' \cup CallTops'
           wide == Filling'
<1>5. /\ Sound(heap, lost, home, fresh, tops, open) /\ Sound(heap', lost', house, mine, hands, wide)
      /\ S \in SUBSET Live(heap, lost)
      /\ \A c \in S : /\ heap'[c].ref = heap[c].ref /\ Kids(heap', c) = Kids(heap, c)
                      /\ heap[c].ref => /\ heap'[c].child = heap[c].child
                                        /\ heap[c].child # NULL => home[heap[c].child] \in S
  BY <1>1, <1>2, <1>3, <1>4
<1> HIDE DEF S, tops, open, hands, wide
<1>6. \A c \in S : Children(heap', c) = Children(heap, c)
  BY <1>5, ListsStay
<1> QED  BY <1>6 DEF S

\* The caller's documents do not lead back to themselves after the step, if they did not
\* before it.
StaysGrounded == Grounded(heap, Owned) => Grounded(heap', Owned')

\* A step of a call at work writes to its own items and to free ones: the caller's
\* documents stay as they are.
LEMMA WorkIsUnseen ==
    ASSUME CellsAssumption, NEW home, NEW fresh, CJsonInv', held' = held,
           Sound(heap, lost, home, fresh, held \cup CallTops, Filling), CallInv(home, fresh),
           \A c \in Live(heap, lost) \ fresh : heap'[c] = heap[c]
    PROVE  Documents' = Documents /\ StaysGrounded
<1>1. /\ heap \in [Cells -> Items] /\ held \in SUBSET Cells /\ held \in SUBSET Pointers
      /\ held \ {NULL} = held
      /\ Owned \subseteq Live(heap, lost) /\ Owned \cap fresh = {} /\ Closed(heap, Owned)
      /\ held \subseteq Owned /\ Owned \in SUBSET Cells
  BY DocumentsAreApart
<1>2. \A c \in Owned : heap'[c] = heap[c]
  BY <1>1
<1>3. heap' \in [Cells -> Items]
  BY DEF CJsonInv, Sound, Shape
<1> DEFINE old == Reach(heap, held, FALSE)
           new == Reach(heap', held, FALSE)
<1>4. old = Owned /\ new = Owned'
  BY DEF Owned
<1>5. new \subseteq old
  <2>1. Closed(heap', old)
    BY <1>1, <1>2, <1>4 DEF Closed
  <2>2. old \in SUBSET Cells /\ held \subseteq old
    BY <1>1, <1>4
  <2> HIDE DEF old
  <2> QED  BY <1>1, <1>3, <2>1, <2>2, OwnedFacts
<1>6. old \subseteq new
  <2>1. new \in SUBSET Cells /\ held \subseteq new /\ Closed(heap', new)
    BY <1>1, <1>3, OwnedFacts
  <2> HIDE DEF new
  <2>2. Closed(heap, new)
    BY <1>2, <1>4, <1>5, <2>1 DEF Closed
  <2> QED  BY <1>1, <2>1, <2>2, OwnedFacts
<1>7. Owned' = Owned
  BY <1>4, <1>5, <1>6
<1>8. \A q \in Owned : Kids(heap', q) = Kids(heap, q)
  BY <1>2, OwnedKeepsKids
<1>9. \A q \in Owned : Children(heap', q) = Children(heap, q)
  BY <1>2, OwnedKeepsChildren
<1>10. StaysGrounded
  <2>1. \A c \in Owned : \A x : Leads(heap', c, x) => Leads(heap, c, x)
    BY <1>9 DEF Leads
  <2> QED  BY <1>7, <2>1, GroundedWithLess DEF StaysGrounded
<1> QED  BY <1>7, <1>8, <1>10 DEF Documents

\* The call hands its work over: one tree that the caller did not have.
LEMMA WorkIsMade ==
    ASSUME CellsAssumption, NEW home, NEW fresh, CJsonInv', call' = NoCall, lost' = lost,
           Sound(heap, lost, home, fresh, held \cup CallTops, Filling), CallInv(home, fresh),
           NEW x \in fresh, held' = held \cup {x},
           \A c \in Cells : /\ heap'[c].type = heap[c].type /\ heap'[c].ref = heap[c].ref
                            /\ heap'[c].next = heap[c].next /\ heap'[c].child = heap[c].child
    PROVE  Forest!Make(Documents, Documents') /\ StaysGrounded
<1>1. /\ heap \in [Cells -> Items] /\ held \in SUBSET Cells /\ fresh \in SUBSET Cells
      /\ Owned \subseteq Live(heap, lost) /\ Owned \cap fresh = {} /\ Closed(heap, Owned)
      /\ held \subseteq Owned /\ Owned \in SUBSET Cells
  BY DocumentsAreApart
<1>2. PICK house : Ready(heap', lost', house, held')
  BY ReadyAgain
<1>3. /\ Documents' = Family(heap', lost) /\ DOMAIN Documents' = Live(heap', lost)
  BY <1>2, DocumentsWillBe
<1>4. Live(heap', lost) = Live(heap, lost)
  BY DEF Live
<1> DEFINE F == Freed(heap', x)
<1>5. F \in SUBSET Cells /\ Closed(heap', F) /\ x \in F /\ F \subseteq fresh /\ F \subseteq Live(heap, lost)
  <2>1. heap' \in [Cells -> Items]
    BY <1>2, ReadyFacts
  <2> DEFINE S == {x}
  <2>2. S \in SUBSET Pointers /\ S \ {NULL} = S /\ S \subseteq fresh
    BY <1>1 DEF Pointers, CellsAssumption
  <2>3. /\ Closed(heap, fresh) /\ fresh \subseteq Live(heap, lost)
    BY FreshIsClosed DEF Sound, Shape
  <2>4. Closed(heap', fresh)
    BY <1>1, <2>3 DEF Closed
  <2>5. F = Reach(heap', S, FALSE)
    BY DEF Freed
  <2> HIDE DEF F
  <2>6. x \in S
    OBVIOUS
  <2> HIDE DEF S
  <2> QED  BY <1>1, <2>1, <2>2, <2>3, <2>4, <2>5, <2>6, OwnedFacts
<1>6. Forest!Tree(Documents', x) = F
  <2>1. Forest!Tree(Family(heap', lost'), x) = Freed(heap', x)
    <3>1. x \in held'
      OBVIOUS
    <3> QED  BY <1>2, <3>1, FreedIsTree
  <2> QED  BY <1>3, <2>1
<1> HIDE DEF F
<1>7. Live(heap, lost) \subseteq Owned \cup F
  <2> DEFINE Q == Owned \cup F
  <2>1. Q \in SUBSET Cells /\ held' \subseteq Q /\ Closed(heap', Q)
    BY <1>1, <1>5 DEF Closed
  <2>2. Founded(heap', lost, held')
    BY <1>2 DEF Ready, Sound
  <2> HIDE DEF Q
  <2>3. Live(heap', lost) \subseteq Q
    BY <2>1, <2>2 DEF Founded
  <2> QED  BY <1>4, <2>3 DEF Q
<1>8. \A q \in Owned : Kids(heap', q) = Kids(heap, q)
  <2>1. \A c \in Owned : /\ heap'[c].next = heap[c].next /\ heap'[c].child = heap[c].child
                         /\ heap'[c].ref = heap[c].ref
    BY <1>1
  <2> QED  BY <2>1, OwnedKeepsKids
<1>9. /\ DOMAIN Documents = Owned /\ Documents = [q \in Owned |-> Documents[q]]
      /\ \A q \in Owned : Documents[q] = Documents'[q]
  BY <1>1, <1>3, <1>4, <1>8 DEF Documents, Family
<1> HIDE DEF Documents
<1>10. Forest!Restrict(Documents', DOMAIN Documents) = Documents
  <2>1. Forest!Restrict(Documents', DOMAIN Documents) = [q \in Owned |-> Documents'[q]]
    BY <1>9 DEF Forest!Restrict
  <2> QED  BY <1>9, <2>1
<1>11. Forest!Tree(Documents', x) = DOMAIN Documents' \ DOMAIN Documents
  BY <1>1, <1>3, <1>4, <1>5, <1>6, <1>7, <1>9
<1>12. /\ DOMAIN Documents \subseteq DOMAIN Documents' /\ x \notin DOMAIN Documents
       /\ x \in held' \ held
  BY <1>1, <1>3, <1>4, <1>9
<1>13. ASSUME Grounded(heap, Owned) PROVE Grounded(heap', Owned')
  <2>1. Owned' = Live(heap', lost)
    BY <1>3 DEF Documents
  <2> SUFFICES ASSUME NEW W \in SUBSET Live(heap', lost), W # {}
               PROVE  \E p \in W : \A y \in W : ~Leads(heap', p, y)
    BY <2>1 DEF Grounded
  <2>2. CASE W \cap Owned # {}
    <3>1. PICK p \in W \cap Owned : \A y \in W \cap Owned : ~Leads(heap, p, y)
      BY <1>13, <2>2 DEF Grounded
    <3>2. Children(heap', p) = Children(heap, p)
      <4>1. \A c \in Owned : /\ heap'[c].next = heap[c].next /\ heap'[c].child = heap[c].child
                             /\ heap'[c].ref = heap[c].ref
        BY <1>1
      <4> QED  BY <3>1, <4>1, OwnedKeepsChildren
    <3>3. \A y : Leads(heap', p, y) => Leads(heap, p, y) /\ y \in Owned
      BY <3>1, <3>2, OwnedHasChildren DEF Leads
    <3> QED  BY <3>1, <3>3
  <2>3. CASE W \cap Owned = {}
    <3>1. W \subseteq fresh /\ fresh \subseteq Live(heap, lost)
      BY <1>4, <1>5, <1>7, <2>3 DEF Sound, Shape
    <3>2. \A p \in W : heap'[p].ref => heap'[p].child = NULL
      BY <1>1, <3>1 DEF Sound, RefsInv
    <3>3. Sound(heap', lost, house, {}, held', {})
      BY <1>2 DEF Ready
    <3> QED  BY <3>2, <3>3, ForestIsGrounded
  <2> QED  BY <2>2, <2>3
<1> QED  BY <1>10, <1>11, <1>12, <1>13 DEF Forest!Make, StaysGrounded

\* Before a call starts every item is the caller's, or forgotten.
LEMMA StartIsUnseen ==
    ASSUME CellsAssumption, CJsonInv, CJsonInv', Idle, held' = held,
           NEW n \in Free, \A c \in Cells : c # n => heap'[c] = heap[c]
    PROVE  Documents' = Documents /\ StaysGrounded
<1>1. PICK home \in [Cells -> Pointers], fresh \in SUBSET Cells :
          /\ Sound(heap, lost, home, fresh, held \cup CallTops, Filling)
          /\ CallInv(home, fresh)
  BY DEF CJsonInv
<1>2. \A c \in Live(heap, lost) \ fresh : heap'[c] = heap[c]
  BY DEF Live, Free
<1> QED  BY <1>1, <1>2, WorkIsUnseen

\* The steps that read a text.
LEMMA ParsingIsUnseen ==
    ASSUME CellsAssumption, CJsonInv, CJsonInv',
           ParseStart \/ ParseScalar \/ ParseOpen \/ ParseElement \/ ParseClose
    PROVE  Documents' = Documents /\ held' = held /\ StaysGrounded
<1>1. PICK home \in [Cells -> Pointers], fresh \in SUBSET Cells :
          /\ Sound(heap, lost, home, fresh, held \cup CallTops, Filling)
          /\ CallInv(home, fresh)
  BY DEF CJsonInv
<1>2. held' = held
  BY DEF ParseStart, ParseScalar, ParseOpen, ParseElement, ParseClose
<1>3. /\ heap \in [Cells -> Items] /\ Live(heap, lost) \in SUBSET Cells
      /\ \A n \in Free : n \notin Live(heap, lost)
  BY <1>1, DocumentsAreApart DEF Free, Live
<1>4. CASE ParseStart
  <2>1. PICK n \in Free : heap' = [heap EXCEPT ![n] = Blank]
    BY <1>4 DEF ParseStart
  <2>2. \A c \in Live(heap, lost) \ fresh : heap'[c] = heap[c]
    BY <1>3, <2>1
  <2> QED  BY <1>1, <1>2, <2>2, WorkIsUnseen
<1>5. CASE ParseScalar
  <2>1. call.op = "parse" /\ ~call.failing /\ call.todo # NULL
    BY <1>5 DEF ParseScalar, Working
  <2>2. PICK t \in Scalars : heap' = [heap EXCEPT ![call.todo].type = t]
    BY <1>5 DEF ParseScalar
  <2>3. call.todo \in fresh
    BY <1>1, <2>1, FramesAreFresh
  <2>4. \A c \in Live(heap, lost) \ fresh : heap'[c] = heap[c]
    BY <1>3, <2>2, <2>3
  <2> QED  BY <1>1, <1>2, <2>4, WorkIsUnseen
<1>6. CASE ParseOpen
  <2>1. \A c \in Live(heap, lost) \ fresh : heap'[c] = heap[c]
    BY <1>6 DEF ParseOpen
  <2> QED  BY <1>1, <1>2, <2>1, WorkIsUnseen
<1>7. ASSUME ParseElement \/ ParseClose
      PROVE  /\ call.op = "parse" /\ Top.item \in fresh
             /\ Top.head # NULL => Top.head \in fresh /\ Top.last \in fresh
  <2>1. call.op = "parse" /\ call.stack # <<>>
    BY <1>7 DEF ParseElement, ParseClose, Working
  <2>2. Len(call.stack) \in DOMAIN call.stack
    BY <1>1, <2>1, StackFacts DEF CallInv
  <2> QED  BY <1>1, <2>1, <2>2, FramesAreFresh DEF Top
<1>8. CASE ParseElement
  <2>1. PICK n \in Free, key \in IF Top.type = "object" THEN Keys ELSE {NULL} :
            LET h == [heap EXCEPT ![n] = [Blank EXCEPT !.key = key]] IN
            heap' = IF Top.head = NULL THEN h ELSE Suffix(h, Top.last, n)
    BY <1>8 DEF ParseElement
  <2>2. ASSUME NEW c \in Live(heap, lost) \ fresh PROVE heap'[c] = heap[c]
    <3>1. c # n /\ c \in Cells /\ (Top.head # NULL => c # Top.last)
      BY <1>3, <1>7, <1>8
    <3> DEFINE h == [heap EXCEPT ![n] = [Blank EXCEPT !.key = key]]
    <3>2. h[c] = heap[c] /\ DOMAIN h = Cells
      BY <1>3, <3>1
    <3>3. heap' = IF Top.head = NULL THEN h ELSE Suffix(h, Top.last, n)
      BY <2>1
    <3> HIDE DEF h
    <3> QED  BY <3>1, <3>2, <3>3 DEF Suffix
  <2> QED  BY <1>1, <1>2, <2>2, WorkIsUnseen
<1>9. CASE ParseClose
  <2>1. LET h == IF Top.head = NULL THEN heap ELSE [heap EXCEPT ![Top.head].prev = Top.last] IN
        heap' = [h EXCEPT ![Top.item].type = Top.type, ![Top.item].child = Top.head]
    BY <1>9 DEF ParseClose
  <2>2. ASSUME NEW c \in Live(heap, lost) \ fresh PROVE heap'[c] = heap[c]
    <3>1. c # Top.item /\ c \in Cells /\ (Top.head # NULL => c # Top.head)
      BY <1>3, <1>7, <1>9
    <3> DEFINE h == IF Top.head = NULL THEN heap ELSE [heap EXCEPT ![Top.head].prev = Top.last]
    <3>2. h[c] = heap[c] /\ DOMAIN h = Cells
      BY <1>3, <3>1
    <3>3. heap' = [h EXCEPT ![Top.item].type = Top.type, ![Top.item].child = Top.head]
      BY <2>1
    <3> HIDE DEF h
    <3> QED  BY <3>1, <3>2, <3>3
  <2> QED  BY <1>1, <1>2, <2>2, WorkIsUnseen
<1> QED  BY <1>2, <1>4, <1>5, <1>6, <1>8, <1>9

\* cJSON_Parse gives its tree to the caller.
LEMMA ParseReturnMakes ==
    ASSUME CellsAssumption, CJsonInv, CJsonInv', ParseReturn
    PROVE  Forest!Make(Documents, Documents') /\ StaysGrounded
<1>1. PICK home \in [Cells -> Pointers], fresh \in SUBSET Cells :
          /\ Sound(heap, lost, home, fresh, held \cup CallTops, Filling)
          /\ CallInv(home, fresh)
  BY DEF CJsonInv
<1>2. /\ held' = held \cup {call.root} /\ call' = NoCall /\ lost' = lost /\ heap' = heap
      /\ call.op = "parse"
  BY DEF ParseReturn, Return, Working
<1>3. call.root \in fresh
  BY <1>1, <1>2, FramesAreFresh
<1> QED  BY <1>1, <1>2, <1>3, WorkIsMade

\* The steps that fill an array of numbers.
LEMMA FillingIsUnseen ==
    ASSUME CellsAssumption, CJsonInv, CJsonInv', ArrayStart \/ ArrayElement
    PROVE  Documents' = Documents /\ held' = held /\ StaysGrounded
<1>1. PICK home \in [Cells -> Pointers], fresh \in SUBSET Cells :
          /\ Sound(heap, lost, home, fresh, held \cup CallTops, Filling)
          /\ CallInv(home, fresh)
  BY DEF CJsonInv
<1>2. held' = held
  BY DEF ArrayStart, ArrayElement
<1>3. /\ heap \in [Cells -> Items] /\ Live(heap, lost) \in SUBSET Cells
      /\ \A n \in Free : n \notin Live(heap, lost)
  BY <1>1, DocumentsAreApart DEF Free, Live
<1>4. CASE ArrayStart
  <2>1. PICK n \in Free : heap' = [heap EXCEPT ![n] = [Blank EXCEPT !.type = "array"]]
    BY <1>4 DEF ArrayStart
  <2>2. \A c \in Live(heap, lost) \ fresh : heap'[c] = heap[c]
    BY <1>3, <2>1
  <2> QED  BY <1>1, <1>2, <2>2, WorkIsUnseen
<1>5. CASE ArrayElement
  <2>1. PICK n \in Free, t \in Scalars :
            LET h == [heap EXCEPT ![n] = [Blank EXCEPT !.type = t]] IN
            heap' = IF Top.last = NULL THEN [h EXCEPT ![Top.item].child = n]
                    ELSE Suffix(h, Top.last, n)
    BY <1>5 DEF ArrayElement
  <2>2. call.op = "array" /\ ~call.failing
    BY <1>5 DEF ArrayElement, Working
  <2>3. Top.item \in fresh /\ (Top.last # NULL => Top.last \in fresh)
    <3>1. Len(call.stack) = 1
      BY <1>1, <2>2 DEF CallInv, SourceInv
    <3>2. call.stack # <<>>
      BY <3>1
    <3>3. Len(call.stack) \in DOMAIN call.stack
      BY <1>1, <3>2, StackFacts DEF CallInv
    <3> QED  BY <1>1, <2>2, <3>3, FramesAreFresh DEF Top
  <2>4. ASSUME NEW c \in Live(heap, lost) \ fresh PROVE heap'[c] = heap[c]
    <3>1. c # n /\ c \in Cells /\ c # Top.item /\ (Top.last # NULL => c # Top.last)
      BY <1>3, <2>3
    <3> DEFINE h == [heap EXCEPT ![n] = [Blank EXCEPT !.type = t]]
    <3>2. h[c] = heap[c] /\ DOMAIN h = Cells
      BY <1>3, <3>1
    <3>3. heap' = IF Top.last = NULL THEN [h EXCEPT ![Top.item].child = n]
                  ELSE Suffix(h, Top.last, n)
      BY <2>1
    <3> HIDE DEF h
    <3> QED  BY <3>1, <3>2, <3>3 DEF Suffix
  <2> QED  BY <1>1, <1>2, <2>4, WorkIsUnseen
<1> QED  BY <1>2, <1>4, <1>5

\* The first child of a list is told of the last one: no document looks different.
LEMMA FinishedIsMade ==
    ASSUME CellsAssumption, CJsonInv, CJsonInv', call' = NoCall, lost' = lost,
           call.op \in {"duplicate", "array"}, call.stack # <<>>,
           held' = held \cup {Top.item},
           heap' = IF heap[Top.item].child = NULL THEN heap
                   ELSE [heap EXCEPT ![heap[Top.item].child].prev = Top.last]
    PROVE  Forest!Make(Documents, Documents') /\ StaysGrounded
<1>1. PICK home \in [Cells -> Pointers], fresh \in SUBSET Cells :
          /\ Sound(heap, lost, home, fresh, held \cup CallTops, Filling)
          /\ CallInv(home, fresh)
  BY DEF CJsonInv
<1>2. Top.item \in fresh
  <2>1. Len(call.stack) \in DOMAIN call.stack
    BY <1>1, StackFacts DEF CallInv
  <2> QED  BY <1>1, <2>1, FramesAreFresh DEF Top
<1>3. heap \in [Cells -> Items]
  BY <1>1, DocumentsAreApart
<1> DEFINE x == Top.item
           a == heap[x].child
           l == Top.last
<1>4. heap' = IF a = NULL THEN heap ELSE [heap EXCEPT ![a].prev = l]
  OBVIOUS
<1> HIDE DEF a, l
<1>5. \A c \in Cells : /\ heap'[c].type = heap[c].type /\ heap'[c].ref = heap[c].ref
                       /\ heap'[c].next = heap[c].next /\ heap'[c].child = heap[c].child
  <2> SUFFICES ASSUME NEW c \in Cells
               PROVE  /\ heap'[c].type = heap[c].type /\ heap'[c].ref = heap[c].ref
                      /\ heap'[c].next = heap[c].next /\ heap'[c].child = heap[c].child
    OBVIOUS
  <2>1. heap[c] \in Items /\ (heap'[c] = heap[c] \/ heap'[c] = [heap[c] EXCEPT !.prev = l])
    BY <1>3, <1>4
  <2> QED  BY <2>1 DEF Items
<1>6. x \in fresh /\ held' = held \cup {x}
  BY <1>2
<1> HIDE DEF x
<1> QED  BY <1>1, <1>5, <1>6, WorkIsMade

\* cJSON_CreateIntArray and its like return the array.
LEMMA ArrayReturnMakes ==
    ASSUME CellsAssumption, CJsonInv, CJsonInv', ArrayReturn
    PROVE  Forest!Make(Documents, Documents') /\ StaysGrounded
<1>1. call.op = "array" /\ ~call.failing /\ call' = NoCall /\ lost' = lost
      /\ held' = held \cup {Top.item}
      /\ heap' = IF heap[Top.item].child = NULL THEN heap
                 ELSE [heap EXCEPT ![heap[Top.item].child].prev = Top.last]
  BY DEF ArrayReturn, Return, Working
<1>2. call.stack # <<>>
  BY <1>1 DEF CJsonInv, CallInv, CopyInv
<1> QED  BY <1>1, <1>2, FinishedIsMade

\* cJSON_Duplicate, called for the next child
LEMMA CopyingIsUnseen ==
    ASSUME CellsAssumption, CJsonInv, CJsonInv', DuplicateChild
    PROVE  Documents' = Documents /\ held' = held /\ StaysGrounded
<1>1. PICK home \in [Cells -> Pointers], fresh \in SUBSET Cells :
          /\ Sound(heap, lost, home, fresh, held \cup CallTops, Filling)
          /\ CallInv(home, fresh)
  BY DEF CJsonInv
<1>2. held' = held
  BY DEF DuplicateChild
<1>3. /\ heap \in [Cells -> Items] /\ Live(heap, lost) \in SUBSET Cells
      /\ \A n \in Free : n \notin Live(heap, lost)
  BY <1>1, DocumentsAreApart DEF Free, Live
<1>4. PICK n \in Free : heap' = Copied(heap, n, Top.source)
  BY DEF DuplicateChild
<1>5. \A c \in Live(heap, lost) \ fresh : heap'[c] = heap[c]
  BY <1>3, <1>4 DEF Copied
<1>6. Documents' = Documents /\ StaysGrounded
  BY <1>1, <1>2, <1>5, WorkIsUnseen
<1> QED  BY <1>2, <1>6

\* cJSON_Duplicate starts, and perhaps it is done with that.
LEMMA DuplicateStartMakes ==
    ASSUME CellsAssumption, NamesAssumption, ScalarsAssumption, CJsonInv, CJsonInv',
           DuplicateStart
    PROVE  /\ Forest!Make(Documents, Documents') \/ (Documents' = Documents /\ held' = held)
           /\ IF call' = NoCall THEN StaysFine ELSE StaysGrounded
<1>1. PICK x \in Owned, n \in Free, recurse \in BOOLEAN :
          /\ heap' = Copied(heap, n, x)
          /\ IF recurse THEN held' = held /\ call'.op = "duplicate" ELSE call' = NoCall
  BY DEF DuplicateStart, Return, NoCall
<1>2. CASE recurse
  <2>1. heap \in [Cells -> Items]
    BY DEF CJsonInv, Sound, Shape
  <2>2. \A c \in Cells : c # n => heap'[c] = heap[c]
    BY <1>1, <2>1 DEF Copied
  <2>3. held' = held /\ Idle
    BY <1>1, <1>2 DEF DuplicateStart
  <2>4. call' # NoCall
    BY <1>1, <1>2 DEF NoCall
  <2> QED  BY <2>2, <2>3, <2>4, StartIsUnseen
<1>3. CASE ~recurse
  BY <1>1, <1>3, DuplicateOneMakes
<1> QED  BY <1>2, <1>3

\* A copy of a child is linked; at last the copy of the whole goes to the caller.
LEMMA DuplicateReturnMakes ==
    ASSUME CellsAssumption, CJsonInv, CJsonInv', DuplicateReturn
    PROVE  /\ Forest!Make(Documents, Documents') \/ (Documents' = Documents /\ held' = held)
           /\ StaysGrounded
<1>1. PICK home \in [Cells -> Pointers], fresh \in SUBSET Cells :
          /\ Sound(heap, lost, home, fresh, held \cup CallTops, Filling)
          /\ CallInv(home, fresh)
  BY DEF CJsonInv
<1>2. call.op = "duplicate" /\ ~call.failing /\ lost' = lost
  BY DEF DuplicateReturn, Working
<1>3. call.stack # <<>>
  BY <1>1, <1>2 DEF CallInv, CopyInv
<1> DEFINE n == Top.item
           h == IF heap[n].child = NULL THEN heap
                ELSE [heap EXCEPT ![heap[n].child].prev = Top.last]
           parent == Below[Len(Below)]
<1>4. IF Below = <<>> THEN heap' = h /\ held' = held \cup {n} /\ call' = NoCall
      ELSE /\ heap' = IF parent.last # NULL THEN Suffix(h, parent.last, n)
                      ELSE [h EXCEPT ![parent.item].child = n]
           /\ held' = held
  BY DEF DuplicateReturn, Return
<1>5. CASE Below = <<>>
  BY <1>2, <1>3, <1>4, <1>5, FinishedIsMade
<1>6. CASE Below # <<>>
  <2>1. /\ heap \in [Cells -> Items] /\ Live(heap, lost) \in SUBSET Cells /\ NULL \notin Cells
        /\ fresh \in SUBSET Cells
    BY <1>1, DocumentsAreApart DEF CellsAssumption
  <2>2. /\ Len(call.stack) \in DOMAIN call.stack /\ Below \in Seq(Frames)
        /\ \A k \in DOMAIN Below : Below[k] = call.stack[k] /\ k \in DOMAIN call.stack
    BY <1>1, <1>3, StackFacts DEF CallInv
  <2>3. Len(Below) \in DOMAIN Below
    BY <1>6, <2>2
  <2>4. n \in fresh /\ parent.item \in fresh /\ (parent.last # NULL => parent.last \in fresh)
    <3>1. \A k \in DOMAIN call.stack :
              /\ call.stack[k].item \in fresh
              /\ call.stack[k].last # NULL => call.stack[k].last \in fresh
      BY <1>1, <1>2, FramesAreFresh
    <3> QED  BY <2>2, <2>3, <3>1 DEF Top
  <2>5. heap[n].child # NULL => heap[n].child \in fresh
    <3>1. Top.item \in Cells /\ ~heap[Top.item].ref
      BY <1>1, <1>2, <2>1, <2>2, <2>4 DEF CallInv, CopyInv, OpenCopy, Top
    <3>2. heap[n].child \in Pointers
      BY <2>1, <3>1, FieldTypes
    <3>3. heap[n].child # NULL => Kid(heap, n, heap[n].child) /\ heap[n].child \in Cells
      BY <3>1, <3>2 DEF Kid, Pointers
    <3> QED  BY <1>1, <2>4, <3>3, FramesAreFresh
  <2> HIDE DEF n, parent
  <2>6. ASSUME NEW c \in Live(heap, lost) \ fresh PROVE heap'[c] = heap[c]
    <3>1. c \in Cells /\ c # n /\ c # parent.item /\ (parent.last # NULL => c # parent.last)
          /\ (heap[n].child # NULL => c # heap[n].child)
      BY <2>1, <2>4, <2>5
    <3>2. h[c] = heap[c] /\ DOMAIN h = Cells
      BY <2>1, <3>1
    <3>3. heap' = IF parent.last # NULL THEN Suffix(h, parent.last, n)
                  ELSE [h EXCEPT ![parent.item].child = n]
      BY <1>4, <1>6
    <3> HIDE DEF h
    <3> QED  BY <3>1, <3>2, <3>3 DEF Suffix
  <2>7. held' = held
    BY <1>4, <1>6
  <2> QED  BY <1>1, <2>6, <2>7, WorkIsUnseen
<1> QED  BY <1>5, <1>6

\* What a failing call frees was its own work.
LEMMA UnwindingIsUnseen ==
    ASSUME CellsAssumption, CJsonInv, CJsonInv', Unwind
    PROVE  Documents' = Documents /\ held' = held /\ StaysGrounded
<1>1. PICK home \in [Cells -> Pointers], fresh \in SUBSET Cells :
          /\ Sound(heap, lost, home, fresh, held \cup CallTops, Filling)
          /\ CallInv(home, fresh)
  BY DEF CJsonInv
<1>2. held' = held
  BY DEF Unwind
<1>3. /\ heap \in [Cells -> Items] /\ Live(heap, lost) \in SUBSET Cells /\ fresh \in SUBSET Cells
  BY <1>1, DocumentsAreApart
<1> DEFINE x == IF call.stack # <<>> THEN FreedByFrame ELSE call.root
<1>4. heap' = Delete(heap, x)
  BY DEF Unwind
<1>5. x = NULL \/ x \in fresh
  <2>1. CASE call.stack # <<>>
    <3>1. Len(call.stack) \in DOMAIN call.stack
      BY <1>1, <2>1, StackFacts DEF CallInv
    <3>2. /\ Top.item \in fresh
          /\ call.op = "parse" /\ Top.head # NULL => Top.head \in fresh
      BY <1>1, <3>1, FramesAreFresh DEF Top
    <3> QED  BY <2>1, <3>2 DEF FreedByFrame
  <2>2. CASE call.stack = <<>>
    <3>1. call.op # "parse" => call.root = NULL
      BY <1>1 DEF CallInv, CallType
    <3> QED  BY <1>1, <2>2, <3>1, FramesAreFresh
  <2> QED  BY <2>1, <2>2
<1> HIDE DEF x
<1>6. \A c \in Live(heap, lost) \ fresh : heap'[c] = heap[c]
  <2>1. CASE x = NULL
    BY <1>3, <1>4, <2>1, DeleteNothing
  <2>2. CASE x \in fresh
    <3>1. Closed(heap, fresh) /\ {x} \in SUBSET Pointers /\ {x} \ {NULL} \subseteq fresh
      <4> DEFINE tops == held \cup CallTops
                 open == Filling
      <4>1. Sound(heap, lost, home, fresh, tops, open)
        BY <1>1
      <4> HIDE DEF tops, open
      <4> QED  BY <1>3, <2>2, <4>1, FreshIsClosed DEF Pointers
    <3>2. Freed(heap, x) \subseteq fresh
      BY <1>3, <3>1, OwnedFacts DEF Freed
    <3> QED  BY <1>3, <1>4, <3>2 DEF Delete, Freed
  <2> QED  BY <1>5, <2>1, <2>2
<1>7. Documents' = Documents /\ StaysGrounded
  BY <1>1, <1>2, <1>6, WorkIsUnseen
<1> QED  BY <1>2, <1>7

\* A step that leaves heap and held alone
LEMMA SameDocuments ==
    ASSUME heap' = heap, held' = held
    PROVE  Documents' = Documents /\ StaysGrounded
  BY DEF Documents, Owned, StaysGrounded

\* Every step of the calls is a step on the trees of items, or changes none.
LEMMA StepsAreForestSteps ==
    ASSUME CellsAssumption, NamesAssumption, ScalarsAssumption, CJsonInv, CJsonInv', Next
    PROVE  \/ Forest!Make(Documents, Documents') \/ Forest!Put(Documents, Documents')
           \/ Forest!PutNew(Documents, Documents') \/ Forest!Take(Documents, Documents')
           \/ Forest!Drop(Documents, Documents') \/ Forest!DropChild(Documents, Documents')
           \/ Forest!Swap(Documents, Documents')
           \/ Documents' = Documents /\ held' = held
<1>1. CASE Create
  BY <1>1, CreateMakes
<1>2. CASE DeleteItem
  BY <1>2, DeleteItemDrops
<1>3. CASE AddItemToArray
  BY <1>3, AddItemToArrayPuts
<1>4. CASE AddItemToObject
  BY <1>4, AddItemToObjectPuts
<1>5. CASE AddNewToObject
  BY <1>5, AddNewToObjectPuts
<1>6. CASE AddReference
  BY <1>6, AddReferencePuts
<1>7. CASE CreateReference
  BY <1>7, CreateReferenceMakes
<1>8. CASE DetachItem
  BY <1>8, DetachItemTakes
<1>9. CASE DeleteChild
  BY <1>9, DeleteChildDrops
<1>10. CASE InsertItemInArray
  BY <1>10, InsertItemInArrayPuts
<1>11. CASE ReplaceItemInArray
  BY <1>11, ReplaceItemInArraySwaps
<1>12. CASE ReplaceItemInObject
  BY <1>12, ReplaceItemInObjectSwaps
<1>13. CASE ParseStart \/ ParseScalar \/ ParseOpen \/ ParseElement \/ ParseClose
  BY <1>13, ParsingIsUnseen
<1>14. CASE ParseReturn
  BY <1>14, ParseReturnMakes
<1>15. CASE DuplicateStart
  BY <1>15, DuplicateStartMakes
<1>16. CASE DuplicateChild
  BY <1>16, CopyingIsUnseen
<1>17. CASE DuplicateReturn
  BY <1>17, DuplicateReturnMakes
<1>18. CASE ArrayStart \/ ArrayElement
  BY <1>18, FillingIsUnseen
<1>19. CASE ArrayReturn
  BY <1>19, ArrayReturnMakes
<1>20. CASE Fail
  BY <1>20, SameDocuments DEF Fail
<1>21. CASE Unwind
  BY <1>21, UnwindingIsUnseen
<1> QED  BY <1>1, <1>2, <1>3, <1>4, <1>5, <1>6, <1>7, <1>8, <1>9, <1>10, <1>11, <1>12, <1>13,
            <1>14, <1>15, <1>16, <1>17, <1>18, <1>19, <1>20, <1>21 DEF Next

\* The caller of cJSON.c sees trees of items: whatever a call does to pointers, and in however
\* many steps it builds or frees, the caller's documents change as the forest does.
THEOREM CallsMakeAForest == Spec => ForestSpec
<1>1. ASSUME Init PROVE Forest!Init
  <2>1. Reach(heap, held, FALSE) = {}
    <3> DEFINE none == {}
    <3>1. heap \in [Cells -> Items] /\ held = none
      BY <1>1 DEF Init, Items, Unused, Blank, Types, Pointers
    <3>2. none \in SUBSET Pointers /\ none \in SUBSET Cells /\ none \ {NULL} \subseteq none
          /\ Closed(heap, none)
      BY DEF Closed
    <3> HIDE DEF none
    <3>3. Reach(heap, none, FALSE) \subseteq none
      BY <3>1, <3>2, CellsAssumption, OwnedFacts
    <3> QED  BY <3>1, <3>3 DEF none
  <2> QED  BY <1>1, <2>1 DEF Init, Forest!Init, Owned
<1>2. ASSUME CJsonInv, CJsonInv', [Next]_vars
      PROVE  [Forest!Next]_<<held, [p \in Owned |-> IF heap[p].ref THEN <<>> ELSE Children(heap, p)]>>
  <2>1. Documents = [p \in Owned |-> IF heap[p].ref THEN <<>> ELSE Children(heap, p)]
    BY DEF Documents, Kids
  <2>2. CASE Next
    <3>1. \/ Forest!Make(Documents, Documents') \/ Forest!Put(Documents, Documents')
          \/ Forest!PutNew(Documents, Documents') \/ Forest!Take(Documents, Documents')
          \/ Forest!Drop(Documents, Documents') \/ Forest!DropChild(Documents, Documents')
          \/ Forest!Swap(Documents, Documents')
          \/ Documents' = Documents /\ held' = held
      BY <1>2, <2>2, CellsAssumption, NamesAssumption, ScalarsAssumption, StepsAreForestSteps
    <3> QED  BY <3>1 DEF Forest!Next, Documents, Kids
  <2>3. CASE UNCHANGED vars
    <3>1. Documents' = Documents /\ held' = held
      BY <2>3, SameDocuments DEF vars
    <3> QED  BY <3>1 DEF Documents, Kids
  <2> QED  BY <1>2, <2>2, <2>3
<1> QED  BY <1>1, <1>2, HeapStaysSound, PTL DEF Spec, ForestSpec, Forest!Spec

-----------------------------------------------------------------------------
(* What cJSON_Compare says.                                                  *)

\* Only the items that a text is being read into have no type yet.
Typed ==
    \A c \in Cells : heap[c].type = "invalid" =>
        /\ c \notin Owned /\ c \notin lost /\ call.op = "parse"
        /\ ~call.failing => c \in Filling \/ c = call.todo

\* The caller's items do not lead back to themselves, not even through references.
NoCircles == Grounded(heap, Owned)

\* Between two calls this is so for all the items there are.
LEMMA IdleIsFine ==
    ASSUME CellsAssumption, NEW home, Ready(heap, lost, home, held), Typed, NoCircles, Idle
    PROVE  Fine(heap, lost)
<1>1. Owned = Live(heap, lost)
  BY DocumentsAre DEF Documents
<1> QED  BY <1>1 DEF Fine, Typed, NoCircles, Idle

LEMMA FineIsKept ==
    ASSUME CellsAssumption, NEW home, Ready(heap', lost', home, held'), Fine(heap', lost')
    PROVE  Typed' /\ NoCircles'
<1>1. Owned' = Live(heap', lost')
  BY DocumentsWillBe DEF Documents
<1> QED  BY <1>1 DEF Fine, Typed, NoCircles

\* The calls that are done at once
LEMMA QuickCallsStayFine ==
    ASSUME CellsAssumption, NamesAssumption, ScalarsAssumption, CJsonInv, CJsonInv', Idle,
           call' = NoCall, StaysFine, Typed, NoCircles
    PROVE  Typed' /\ NoCircles'
<1>1. PICK home : Ready(heap, lost, home, held)
  BY IdleIsReady
<1>2. PICK house : Ready(heap', lost', house, held')
  BY ReadyAgain
<1> QED  BY <1>1, <1>2, IdleIsFine, FineIsKept DEF StaysFine

\* A copy, or an array of numbers, has types from the start.
LEMMA CopiesHaveTypes ==
    ASSUME CellsAssumption, NamesAssumption, ScalarsAssumption, CJsonInv, CJsonInv', Typed,
           DuplicateChild \/ DuplicateReturn \/ ArrayStart \/ ArrayElement \/ ArrayReturn
               \/ (DuplicateStart /\ call' # NoCall)
    PROVE  Typed'
<1>1. PICK home \in [Cells -> Pointers], fresh \in SUBSET Cells :
          /\ Sound(heap, lost, home, fresh, held \cup CallTops, Filling)
          /\ CallInv(home, fresh)
  BY DEF CJsonInv
<1>2. call.op # "parse"
  BY DEF DuplicateChild, DuplicateReturn, ArrayStart, ArrayElement, ArrayReturn, DuplicateStart,
         Working, Idle
<1>3. /\ heap \in [Cells -> Items] /\ Owned \subseteq Cells /\ Free \subseteq Cells
      /\ \A c \in Cells : heap[c].type # "invalid"
  BY <1>1, <1>2, DocumentsAreApart DEF Typed, Live, Free
<1> SUFFICES \A c \in Cells : heap'[c].type # "invalid"
  BY DEF Typed
<1>4. ASSUME NEW n \in Free, NEW r \in Items, r.type # "invalid"
      PROVE  /\ [heap EXCEPT ![n] = r] \in [Cells -> Items]
             /\ \A c \in Cells : [heap EXCEPT ![n] = r][c].type # "invalid"
  BY <1>3, <1>4
<1>5. ASSUME NEW n \in Free, NEW x \in Cells, heap' = Copied(heap, n, x)
      PROVE  \A c \in Cells : heap'[c].type # "invalid"
  <2> DEFINE r == [Blank EXCEPT !.type = heap[x].type, !.key = heap[x].key]
  <2>1. heap[x].type \in Types /\ heap[x].key \in Keys \cup {NULL} /\ heap[x].type # "invalid"
    BY <1>3, FieldTypes
  <2>2. r \in Items /\ r.type # "invalid"
    BY <2>1 DEF Items, Blank, Pointers
  <2>3. heap' = [heap EXCEPT ![n] = r]
    BY <1>5 DEF Copied
  <2> HIDE DEF r
  <2> QED  BY <1>4, <2>2, <2>3
<1>6. ASSUME NEW n, NEW l \in Pointers
      PROVE  SameTypes(heap, Finished(heap, n, l))
  <2>1. Finished(heap, n, l) = IF heap[n].child = NULL THEN heap ELSE WithPrev(heap, heap[n].child, l)
    BY DEF Finished, WithPrev
  <2>2. SameTypes(heap, WithPrev(heap, heap[n].child, l)) /\ SameTypes(heap, heap)
    BY <1>3, LinksAreNoTypes DEF SameTypes
  <2> QED  BY <2>1, <2>2
<1>7. call.stack # <<>> => Top \in Frames /\ Top.last \in Pointers /\ Top.item \in Cells
                           /\ Top.source \in Pointers
  BY <1>1, StackFacts DEF CallInv, Frames
<1>8. call.op \in {"duplicate", "array"} /\ ~call.failing => call.stack # <<>>
  BY <1>1 DEF CallInv, CopyInv
<1>9. CASE DuplicateStart
  <2>1. PICK x \in Owned, n \in Free : heap' = Copied(heap, n, x)
    BY <1>9 DEF DuplicateStart
  <2> QED  BY <1>3, <1>5, <2>1
<1>10. CASE DuplicateChild
  <2>1. PICK n \in Free : heap' = Copied(heap, n, Top.source)
    BY <1>10 DEF DuplicateChild
  <2>2. Top.source \in Cells
    BY <1>7, <1>8, <1>10 DEF DuplicateChild, Working, Pointers
  <2> QED  BY <1>5, <2>1, <2>2
<1>11. CASE DuplicateReturn
  <2> DEFINE n == Top.item
             h == Finished(heap, n, Top.last)
             parent == Below[Len(Below)]
  <2>1. Top.last \in Pointers /\ n \in Cells /\ call.stack # <<>>
    BY <1>7, <1>8, <1>11 DEF DuplicateReturn, Working
  <2>2. h \in [Cells -> Items] /\ \A c \in Cells : h[c].type # "invalid"
    BY <1>3, <1>6, <2>1 DEF SameTypes
  <2>3. IF Below = <<>> THEN heap' = h
        ELSE heap' = IF parent.last # NULL THEN Suffix(h, parent.last, n)
                     ELSE WithChild(h, parent.item, n)
    BY <1>11 DEF DuplicateReturn, Finished, WithChild
  <2>4. Below # <<>> => parent \in Frames /\ parent.last \in Pointers
    <3>1. Below \in Seq(Frames)
      BY <1>1, <2>1, StackFacts DEF CallInv
    <3>2. Below # <<>> => Len(Below) \in 1 .. Len(Below)
      BY <3>1
    <3>3. Below # <<>> => Below[Len(Below)] \in Frames
      BY <3>1, <3>2
    <3> QED  BY <3>3 DEF Frames
  <2>5. n \in Pointers
    BY <2>1 DEF Pointers
  <2> HIDE DEF n, h, parent
  <2>6. SameTypes(h, heap')
    <3>1. SameTypes(h, h) /\ SameTypes(h, WithChild(h, parent.item, n))
      BY <2>2, <2>5, LinksAreNoTypes DEF SameTypes
    <3>2. Below # <<>> => SameTypes(h, Suffix(h, parent.last, n))
      BY <2>2, <2>4, <2>5, SuffixHasNoTypes
    <3> QED  BY <2>3, <3>1, <3>2
  <2> QED  BY <2>2, <2>6 DEF SameTypes
<1>12. CASE ArrayStart
  <2>1. PICK n \in Free : heap' = [heap EXCEPT ![n] = [Blank EXCEPT !.type = "array"]]
    BY <1>12 DEF ArrayStart
  <2>2. [Blank EXCEPT !.type = "array"] \in Items /\ [Blank EXCEPT !.type = "array"].type # "invalid"
    BY DEF Items, Blank, Pointers, Types, Containers
  <2> QED  BY <1>4, <2>1, <2>2
<1>13. CASE ArrayElement
  <2>1. PICK n \in Free, t \in Scalars :
            LET h == [heap EXCEPT ![n] = [Blank EXCEPT !.type = t]] IN
            heap' = IF Top.last = NULL THEN [h EXCEPT ![Top.item].child = n]
                    ELSE Suffix(h, Top.last, n)
    BY <1>13 DEF ArrayElement
  <2> DEFINE r == [Blank EXCEPT !.type = t]
             h == [heap EXCEPT ![n] = r]
  <2>2. r \in Items /\ r.type # "invalid"
    BY ScalarsAssumption DEF Items, Blank, Pointers, Types
  <2>3. h \in [Cells -> Items] /\ \A c \in Cells : h[c].type # "invalid"
    BY <1>4, <2>2
  <2>4. heap' = IF Top.last = NULL THEN WithChild(h, Top.item, n) ELSE Suffix(h, Top.last, n)
    BY <2>1 DEF WithChild
  <2>5. Top.last \in Pointers /\ n \in Pointers
    BY <1>3, <1>7, <1>8, <1>13 DEF ArrayElement, Working, Pointers
  <2> HIDE DEF h
  <2>6. SameTypes(h, heap')
    BY <2>3, <2>4, <2>5, LinksAreNoTypes, SuffixHasNoTypes
  <2> QED  BY <2>3, <2>6 DEF SameTypes
<1>14. CASE ArrayReturn
  <2>1. heap' = Finished(heap, Top.item, Top.last)
    BY <1>14 DEF ArrayReturn, Finished
  <2>2. Top.last \in Pointers
    BY <1>7, <1>8, <1>14 DEF ArrayReturn, Working
  <2>3. SameTypes(heap, heap')
    BY <1>6, <2>1, <2>2
  <2> QED  BY <1>3, <2>3 DEF SameTypes
<1> QED  BY <1>9, <1>10, <1>11, <1>12, <1>13, <1>14

\* The containers of a text get their type when they are closed, its other values when they
\* are read.
LEMMA TextsGetTypes ==
    ASSUME CellsAssumption, NamesAssumption, ScalarsAssumption, CJsonInv, CJsonInv', Typed,
           ParseStart \/ ParseScalar \/ ParseOpen \/ ParseElement \/ ParseClose
    PROVE  Typed'
<1>1. PICK home \in [Cells -> Pointers], fresh \in SUBSET Cells :
          /\ Sound(heap, lost, home, fresh, held \cup CallTops, Filling)
          /\ CallInv(home, fresh)
  BY DEF CJsonInv
<1>2. Owned' = Owned /\ lost' = lost /\ call'.op = "parse"
  <2>1. Documents' = Documents
    BY ParsingIsUnseen
  <2>2. lost' = lost /\ call'.op = "parse"
    BY <1>1 DEF ParseStart, ParseScalar, ParseOpen, ParseElement, ParseClose, Working, NoCall,
                CallInv, CallType
  <2> QED  BY <2>1, <2>2 DEF Documents
<1>3. /\ heap \in [Cells -> Items] /\ Owned \subseteq Cells /\ Free \subseteq Cells
      /\ \A n \in Free : n \notin Owned /\ n \notin lost
  BY <1>1, DocumentsAreApart DEF Live, Free, Sound, CellsInv
<1>4. NULL \notin Cells
  BY DEF CellsAssumption
<1>5. call.stack # <<>> => Top \in Frames /\ Top.last \in Pointers /\ Top.item \in Cells
  BY <1>1, StackFacts DEF CallInv, Frames
<1>6. CASE ParseStart
  <2>1. PICK n \in Free : /\ heap' = [heap EXCEPT ![n] = Blank]
                          /\ call' = [NoCall EXCEPT !.op = "parse", !.root = n, !.todo = n]
    BY <1>6 DEF ParseStart
  <2>2. \A c \in Cells : heap[c].type # "invalid"
    BY <1>6 DEF Typed, ParseStart, Idle
  <2>3. call'.todo = n
    BY <2>1 DEF NoCall
  <2>4. \A c \in Cells : heap'[c].type = "invalid" => c = n
    BY <1>3, <2>1, <2>2
  <2> QED  BY <1>2, <1>3, <2>3, <2>4 DEF Typed
<1>7. CASE ParseScalar
  <2>1. PICK t \in Scalars : heap' = [heap EXCEPT ![call.todo].type = t]
    BY <1>7 DEF ParseScalar
  <2>2. /\ call' = [call EXCEPT !.todo = NULL] /\ ~call.failing
    BY <1>7 DEF ParseScalar, Working
  <2>3. Filling' = Filling
    BY <1>1, <2>2 DEF Filling, CallInv, CallType
  <2>4. ASSUME NEW c \in Cells, heap'[c].type = "invalid"
        PROVE  heap[c].type = "invalid" /\ c # call.todo
    <3>1. t # "invalid"
      BY ScalarsAssumption
    <3>2. heap[c] \in Items /\ heap'[c] = IF c = call.todo THEN [heap[c] EXCEPT !.type = t] ELSE heap[c]
      BY <1>3, <2>1
    <3> QED  BY <2>4, <3>1, <3>2 DEF Items
  <2> QED  BY <1>2, <2>2, <2>3, <2>4 DEF Typed
<1>8. CASE ParseOpen
  <2>1. PICK t \in Containers :
            call' = [call EXCEPT !.stack = Append(@, Frame(call.todo, t, NULL)), !.todo = NULL]
    BY <1>8 DEF ParseOpen
  <2>2. heap' = heap /\ ~call.failing
    BY <1>8 DEF ParseOpen, Working
  <2>3. Filling \cup {call.todo} \subseteq Filling'
    <3> DEFINE s == call.stack
               f == Frame(call.todo, t, NULL)
    <3>1. s \in Seq(Frames) /\ call'.stack = Append(s, f)
      BY <1>1, <2>1, StackFacts DEF CallInv, CallType
    <3>2. f.item = call.todo
      BY DEF Frame
    <3> HIDE DEF f, s
    <3>3. /\ Len(Append(s, f)) = Len(s) + 1 /\ Append(s, f)[Len(s) + 1] = f
          /\ \A k \in 1 .. Len(s) : Append(s, f)[k] = s[k]
          /\ DOMAIN Append(s, f) = 1 .. Len(s) + 1 /\ DOMAIN s = 1 .. Len(s) /\ Len(s) \in Nat
      BY <3>1
    <3>4. f.item \in Filling'
      BY <3>1, <3>3 DEF Filling
    <3>5. \A k \in DOMAIN s : s[k].item \in Filling'
      BY <3>1, <3>3 DEF Filling
    <3> QED  BY <3>2, <3>4, <3>5 DEF Filling, s
  <2> QED  BY <1>2, <2>2, <2>3 DEF Typed
<1>9. CASE ParseElement
  <2>1. PICK n \in Free, key \in IF Top.type = "object" THEN Keys ELSE {NULL} :
            LET h == [heap EXCEPT ![n] = [Blank EXCEPT !.key = key]] IN
            /\ heap' = IF Top.head = NULL THEN h ELSE Suffix(h, Top.last, n)
            /\ call' = [call EXCEPT !.todo = n, !.stack[Len(call.stack)] =
                            [Top EXCEPT !.head = IF @ = NULL THEN n ELSE @, !.last = n]]
    BY <1>9 DEF ParseElement
  <2> DEFINE r == [Blank EXCEPT !.key = key]
             h == [heap EXCEPT ![n] = r]
             f == [Top EXCEPT !.head = IF @ = NULL THEN n ELSE @, !.last = n]
  <2>2. call.todo = NULL /\ call.stack # <<>> /\ ~call.failing
    BY <1>9 DEF ParseElement, Working
  <2>3. r \in Items
    BY DEF Items, Blank, Pointers, Types
  <2>4. h \in [Cells -> Items] /\ \A c \in Cells : c # n => h[c] = heap[c]
    BY <1>3, <2>3
  <2>5. heap' = IF Top.head = NULL THEN h ELSE Suffix(h, Top.last, n)
    BY <2>1
  <2>6. call' = [call EXCEPT !.todo = n, !.stack[Len(call.stack)] = f]
    BY <2>1
  <2>7. f.item = Top.item
    BY <1>5, <2>2 DEF Frames
  <2> HIDE DEF h, f
  <2>8. SameTypes(h, heap')
    <3>1. SameTypes(h, h)
      BY <2>4 DEF SameTypes
    <3>2. SameTypes(h, Suffix(h, Top.last, n))
      BY <1>3, <1>5, <2>2, <2>4, SuffixHasNoTypes DEF Pointers
    <3> QED  BY <2>5, <3>1, <3>2
  <2>9. call'.todo = n /\ call'.stack = [call.stack EXCEPT ![Len(call.stack)] = f] /\ call'.failing = FALSE
    BY <1>1, <2>2, <2>6 DEF CallInv, CallType
  <2>10. Filling \subseteq Filling'
    <3>1. /\ call.stack \in Seq(Frames) /\ DOMAIN call.stack = 1 .. Len(call.stack)
          /\ Len(call.stack) \in DOMAIN call.stack
      BY <1>1, <2>2, StackFacts DEF CallInv
    <3>2. DOMAIN call'.stack = DOMAIN call.stack
      BY <2>9, <3>1
    <3>3. \A k \in DOMAIN call.stack : call'.stack[k].item = call.stack[k].item
      BY <2>7, <2>9, <3>1 DEF Top
    <3> QED  BY <3>2, <3>3 DEF Filling
  <2>11. ASSUME NEW c \in Cells, heap'[c].type = "invalid"
         PROVE  c = n \/ heap[c].type = "invalid"
    BY <2>4, <2>8, <2>11 DEF SameTypes
  <2>12. \A c \in Cells : heap[c].type = "invalid" => c \in Filling
    BY <1>4, <2>2 DEF Typed
  <2> QED  BY <1>2, <1>3, <2>9, <2>10, <2>11, <2>12 DEF Typed
<1>10. CASE ParseClose
  <2> DEFINE h == IF Top.head = NULL THEN heap ELSE WithPrev(heap, Top.head, Top.last)
             g == [h EXCEPT ![Top.item].type = Top.type]
  <2>1. /\ call.todo = NULL /\ call.stack # <<>> /\ ~call.failing
        /\ call' = [call EXCEPT !.stack = Below]
        /\ heap' = [h EXCEPT ![Top.item].type = Top.type, ![Top.item].child = Top.head]
    BY <1>10 DEF ParseClose, Working, WithPrev
  <2>2. SameTypes(heap, h)
    BY <1>3, <1>5, <2>1, LinksAreNoTypes DEF SameTypes
  <2>3. heap' = WithChild(g, Top.item, Top.head)
    BY <2>1 DEF WithChild
  <2>4. Top.type \in Containers /\ Top.head \in Pointers /\ Top.item \in Cells
    <3>1. Len(call.stack) \in DOMAIN call.stack
      BY <1>1, <2>1, StackFacts DEF CallInv
    <3>2. Top.type \in Containers
      BY <1>1, <1>10, <3>1 DEF CallInv, ParseInv, OpenText, Top, ParseClose, Working
    <3> QED  BY <1>5, <2>1, <3>2 DEF Frames
  <2> HIDE DEF h
  <2>5. /\ g \in [Cells -> Items] /\ g[Top.item].type = Top.type
        /\ \A c \in Cells : c # Top.item => g[c].type = heap[c].type
    <3>1. \A c \in Cells : h[c] \in Items /\ h[c].type = heap[c].type
      BY <2>2 DEF SameTypes
    <3>2. h \in [Cells -> Items] /\ Top.type \in Types
      BY <2>2, <2>4 DEF SameTypes, Types
    <3>3. [h[Top.item] EXCEPT !.type = Top.type] \in Items
          /\ [h[Top.item] EXCEPT !.type = Top.type].type = Top.type
      BY <2>4, <3>1, <3>2 DEF Items
    <3> QED  BY <2>4, <3>1, <3>2, <3>3
  <2> HIDE DEF g
  <2>6. SameTypes(g, heap')
    BY <2>3, <2>4, <2>5, LinksAreNoTypes
  <2>7. ASSUME NEW c \in Cells, heap'[c].type = "invalid"
        PROVE  heap[c].type = "invalid" /\ c # Top.item
    <3>1. Top.type # "invalid"
      BY <2>4 DEF Containers
    <3> QED  BY <2>5, <2>6, <2>7, <3>1 DEF SameTypes
  <2>8. Filling \subseteq Filling' \cup {Top.item}
    <3>1. /\ DOMAIN call.stack = 1 .. Len(call.stack) /\ DOMAIN Below = 1 .. Len(call.stack) - 1
          /\ Len(call.stack) \in Nat
          /\ \A k \in DOMAIN Below : Below[k] = call.stack[k]
      BY <1>1, <2>1, StackFacts DEF CallInv
    <3>2. call'.stack = Below
      BY <1>1, <2>1 DEF CallInv, CallType
    <3>3. \A k \in DOMAIN call.stack : k \in DOMAIN Below \/ k = Len(call.stack)
      BY <3>1
    <3> QED  BY <3>1, <3>2, <3>3 DEF Filling, Top
  <2>9. \A c \in Cells : heap[c].type = "invalid" => c \in Filling
    BY <1>4, <2>1 DEF Typed
  <2> QED  BY <1>2, <2>7, <2>8, <2>9 DEF Typed
<1> QED  BY <1>6, <1>7, <1>8, <1>9, <1>10

\* A call that fails frees items or leaves them, and in the end leaves none without a type.
LEMMA UnwindingLeavesTypes ==
    ASSUME CellsAssumption, CJsonInv, CJsonInv', Typed, Unwind
    PROVE  Typed'
<1>1. PICK home \in [Cells -> Pointers], fresh \in SUBSET Cells :
          /\ Sound(heap, lost, home, fresh, held \cup CallTops, Filling)
          /\ CallInv(home, fresh)
  BY DEF CJsonInv
<1>2. Owned' = Owned /\ lost' = lost
  <2>1. Documents' = Documents
    BY UnwindingIsUnseen
  <2> QED  BY <2>1 DEF Documents, Unwind
<1>3. \A c \in Cells : heap'[c].type \in {heap[c].type, "free"}
  BY DEF Unwind, Delete, Unused, Blank
<1>4. CASE call.stack # <<>>
  <2>1. call'.op = call.op /\ call'.failing
    BY <1>1, <1>4 DEF Unwind, CallInv, CallType
  <2> QED  BY <1>2, <1>3, <2>1 DEF Typed
<1>5. CASE call.stack = <<>>
  <2>1. call' = NoCall
    BY <1>5 DEF Unwind
  <2>2. PICK house : Ready(heap', lost', house, held')
    BY <2>1, ReadyAgain
  <2>3. Owned' = Live(heap', lost')
    BY <2>2, DocumentsWillBe DEF Documents
  <2>4. \A c \in Cells : heap'[c].type # "invalid"
    BY <1>2, <1>3, <2>3 DEF Typed, Live
  <2> QED  BY <2>4 DEF Typed
<1> QED  BY <1>4, <1>5

\* cJSON_Parse returns a text that was read to its end.
LEMMA ReadTextHasTypes ==
    ASSUME CellsAssumption, CJsonInv, Typed, ParseReturn
    PROVE  Typed'
<1>1. Filling = {} /\ call.todo = NULL /\ ~call.failing /\ heap' = heap
  BY DEF ParseReturn, Working, Filling
<1>2. \A c \in Cells : heap[c].type # "invalid"
  BY <1>1 DEF Typed, CellsAssumption
<1> QED  BY <1>1, <1>2 DEF Typed

\* Whatever the calls do, no document leads back to itself: an item is never put under
\* itself, or under what a reference leads to from it.
LEMMA StepsMakeNoCircles ==
    ASSUME CellsAssumption, NamesAssumption, ScalarsAssumption, CJsonInv, CJsonInv',
           Typed, NoCircles, [Next]_vars
    PROVE  Typed' /\ NoCircles'
<1>1. Idle => call = NoCall
  BY IdleIsReady
<1>2. ASSUME Create \/ DeleteItem \/ AddItemToArray \/ AddItemToObject \/ AddNewToObject
             \/ AddReference \/ CreateReference \/ DetachItem \/ DeleteChild
             \/ InsertItemInArray \/ ReplaceItemInArray \/ ReplaceItemInObject
      PROVE  Typed' /\ NoCircles'
  <2>1. Idle /\ call' = call
    BY <1>2 DEF Create, DeleteItem, AddItemToArray, AddItemToObject, AddNewToObject, AddReference,
            CreateReference, DetachItem, DeleteChild, InsertItemInArray, ReplaceItemInArray,
            ReplaceItemInObject
  <2>2. StaysFine
    BY <1>2, CreateMakes, DeleteItemDrops, AddItemToArrayPuts, AddItemToObjectPuts,
       AddNewToObjectPuts, AddReferencePuts, CreateReferenceMakes, DetachItemTakes,
       DeleteChildDrops, InsertItemInArrayPuts, ReplaceItemInArraySwaps, ReplaceItemInObjectSwaps
  <2> QED  BY <1>1, <2>1, <2>2, QuickCallsStayFine
<1>3. CASE ParseStart \/ ParseScalar \/ ParseOpen \/ ParseElement \/ ParseClose
  BY <1>3, TextsGetTypes, ParsingIsUnseen DEF StaysGrounded, NoCircles
<1>4. CASE ParseReturn
  BY <1>4, ReadTextHasTypes, ParseReturnMakes DEF StaysGrounded, NoCircles
<1>5. CASE DuplicateStart
  <2>1. CASE call' = NoCall
    <3>1. Idle /\ StaysFine
      BY <1>5, <2>1, DuplicateStartMakes DEF DuplicateStart
    <3> QED  BY <2>1, <3>1, QuickCallsStayFine
  <2>2. CASE call' # NoCall
    BY <1>5, <2>2, CopiesHaveTypes, DuplicateStartMakes DEF StaysGrounded, NoCircles
  <2> QED  BY <2>1, <2>2
<1>6. CASE DuplicateChild
  BY <1>6, CopiesHaveTypes, CopyingIsUnseen DEF StaysGrounded, NoCircles
<1>7. CASE DuplicateReturn
  BY <1>7, CopiesHaveTypes, DuplicateReturnMakes DEF StaysGrounded, NoCircles
<1>8. CASE ArrayStart \/ ArrayElement
  BY <1>8, CopiesHaveTypes, FillingIsUnseen DEF StaysGrounded, NoCircles
<1>9. CASE ArrayReturn
  BY <1>9, CopiesHaveTypes, ArrayReturnMakes DEF StaysGrounded, NoCircles
<1>10. CASE Fail
  <2>1. heap' = heap /\ held' = held /\ lost' = lost
    BY <1>10 DEF Fail
  <2>2. /\ call'.op = call.op /\ call'.failing
    BY <1>10 DEF Fail, CJsonInv, CallInv, CallType
  <2>3. Owned' = Owned
    BY <2>1, SameDocuments DEF Documents
  <2>4. Typed'
    BY <2>1, <2>2, <2>3 DEF Typed
  <2> QED  BY <2>1, <2>4, SameDocuments DEF StaysGrounded, NoCircles
<1>11. CASE Unwind
  BY <1>11, UnwindingLeavesTypes, UnwindingIsUnseen DEF StaysGrounded, NoCircles
<1>12. CASE UNCHANGED vars
  <2>1. heap' = heap /\ held' = held /\ lost' = lost /\ call' = call
    BY <1>12 DEF vars
  <2>2. Owned' = Owned
    BY <2>1, SameDocuments DEF Documents
  <2>3. Typed'
    BY <2>1, <2>2 DEF Typed, Filling
  <2> QED  BY <2>1, <2>3, SameDocuments DEF StaysGrounded, NoCircles
<1> QED  BY <1>2, <1>3, <1>4, <1>5, <1>6, <1>7, <1>8, <1>9, <1>10, <1>11, <1>12 DEF Next

\* At the start there is no item.
LEMMA NoneAtTheStart ==
    ASSUME CellsAssumption, Init
    PROVE  Typed /\ NoCircles
<1>1. Owned \subseteq Live(heap, lost) /\ Live(heap, lost) = {}
  <2>1. \A c \in Cells : heap[c].type = "free"
    BY DEF Init, Unused, Blank
  <2>2. Live(heap, lost) = {}
    BY <2>1 DEF Live
  <2>3. PICK home : Ready(heap, lost, home, held)
    BY InitIsSound, IdleIsReady DEF Init, NoCall, Idle
  <2>4. Owned \subseteq Live(heap, lost)
    BY <2>3, DocumentsAre DEF Documents
  <2> QED  BY <2>2, <2>4
<1>2. \A c \in Cells : heap[c].type = "free"
  BY DEF Init, Unused, Blank
<1> QED  BY <1>1, <1>2 DEF Typed, NoCircles, Grounded

\* The value of an item is the solution of its recursion.
LEMMA ValueIs ==
    ASSUME CellsAssumption, NEW sensitive, Within(heap, Cells \ lost), Grounded(heap, Cells \ lost)
    PROVE  \E v : /\ Values(heap, Cells \ lost, sensitive, v)
                  /\ \A x : Value(x, sensitive) = v[x]
<1> DEFINE step(v) == [c \in Cells \ lost |-> WorthOf(heap, sensitive, v, c)]
           value == CHOOSE v : v = step(v)
<1>1. IsFiniteSet(Cells \ lost)
  BY FS_Difference DEF CellsAssumption
<1>2. PICK v : v = step(v)
  BY <1>1, ValuesExist DEF Values
<1>3. value = step(value)
  BY <1>2
<1>4. \A x : Value(x, sensitive) = value[x]
  BY DEF Value, WorthOf
<1> HIDE DEF value
<1>5. Values(heap, Cells \ lost, sensitive, value)
  BY <1>3 DEF Values
<1> QED  BY <1>4, <1>5

\* What a caller's item leads to, when no call is at work.
LEMMA TreeIsWithin ==
    ASSUME CellsAssumption, NEW home, Ready(heap, lost, home, held), NEW x \in held
    PROVE  /\ Tree(heap, x, TRUE) \in SUBSET Live(heap, lost) /\ x \in Tree(heap, x, TRUE)
           /\ Within(heap, Tree(heap, x, TRUE))
<1>1. /\ Sound(heap, lost, home, {}, held, {}) /\ heap \in [Cells -> Items]
      /\ x \in Cells /\ x \in Live(heap, lost) /\ heap[x].next = NULL
      /\ Live(heap, lost) \in SUBSET Cells
  BY DEF Ready, Sound, Shape, Live
<1>2. Tree(heap, x, TRUE) \in SUBSET Cells /\ x \in Tree(heap, x, TRUE)
      /\ ClosedAs(heap, Tree(heap, x, TRUE), TRUE)
  BY <1>1, TreeIsClosed
<1>3. Tree(heap, x, TRUE) \subseteq Live(heap, lost)
  <2> DEFINE C == {heap[x].child}
             L == Live(heap, lost)
  <2>1. ClosedAs(heap, L, TRUE)
    BY <1>1 DEF Sound, CellsInv, ClosedAs
  <2>2. C \in SUBSET Pointers /\ C \ {NULL} \subseteq L
    BY <1>1, FieldTypes DEF Sound, CellsInv
  <2>3. Tree(heap, x, TRUE) = {x} \cup Reach(heap, C, TRUE)
    BY DEF Tree
  <2> HIDE DEF C
  <2>4. L \in SUBSET Cells /\ x \in L /\ TRUE \in BOOLEAN
    BY <1>1
  <2> HIDE DEF L
  <2>5. Reach(heap, C, TRUE) \subseteq L
    BY <1>1, <2>1, <2>2, <2>4, ReachFacts
  <2> QED  BY <2>3, <2>4, <2>5 DEF L
<1> DEFINE T == Tree(heap, x, TRUE)
<1>4. T \in SUBSET Live(heap, lost) /\ x \in T /\ ClosedAs(heap, T, TRUE) /\ T \in SUBSET Cells
  BY <1>2, <1>3
<1> HIDE DEF T
<1>5. ASSUME NEW p \in T PROVE Children(heap, p) \in Seq(T)
  <2>1. Children(heap, p) \in Seq(Live(heap, lost))
    BY <1>1, <1>4, ChildrenBelong
  <2>2. \A j \in 1 .. Len(Children(heap, p)) : Leads(heap, p, Children(heap, p)[j])
    BY DEF Leads
  <2>3. \A y : Leads(heap, p, y) => y \in T
    <3> DEFINE none == {}
    <3>1. Sound(heap, lost, home, none, held, none) /\ none = {} /\ p \in Live(heap, lost)
      BY <1>1, <1>4
    <3> HIDE DEF none
    <3> QED  BY <1>4, <3>1, ClosedHasChildren
  <2>4. \A j \in 1 .. Len(Children(heap, p)) : Children(heap, p)[j] \in T
    BY <2>2, <2>3
  <2> QED  BY <2>1, <2>4
<1> QED  BY <1>4, <1>5 DEF Within, T

\* All items have a value, those that are free as well.
LEMMA AllIsWithin ==
    ASSUME CellsAssumption, NEW home, Ready(heap, lost, home, held), Fine(heap, lost)
    PROVE  /\ Within(heap, Cells \ lost) /\ Grounded(heap, Cells \ lost)
           /\ \A c \in Cells : Children(heap, c) \in Seq(Cells)
<1>1. /\ Sound(heap, lost, home, {}, held, {}) /\ heap \in [Cells -> Items]
      /\ Live(heap, lost) \subseteq Cells \ lost /\ Live(heap, lost) \in SUBSET Cells
  BY DEF Ready, Sound, Shape, Live
<1>2. \A c \in Live(heap, lost) : Children(heap, c) \in Seq(Live(heap, lost))
  BY <1>1, ChildrenBelong
<1>3. Chain(heap, NULL) = <<>> /\ \A x \in Cells : Chain(heap, x) \in Seq(Cells)
  BY <1>1, ChainIsList DEF IsList
<1>4. \A c \in Cells : Children(heap, c) \in Seq(Cells)
  <2>1. \A c \in Cells : heap[c].child \in Pointers
    BY <1>1, FieldTypes
  <2>2. <<>> \in Seq(Cells)
    OBVIOUS
  <2> QED  BY <1>3, <2>1, <2>2 DEF Children, Pointers
<1>5. \A c \in Cells \ lost : c \notin Live(heap, lost) => Children(heap, c) = <<>>
  <2>1. \A c \in Cells \ lost : c \notin Live(heap, lost) => heap[c].child = NULL
    BY <1>1 DEF Live, Sound, CellsInv, Unused, Blank
  <2> QED  BY <1>3, <2>1 DEF Children
<1>6. Within(heap, Cells \ lost)
  <2>1. ASSUME NEW c \in Cells \ lost PROVE Children(heap, c) \in Seq(Cells \ lost)
    <3>1. CASE c \in Live(heap, lost)
      BY <1>1, <1>2, <3>1
    <3>2. CASE c \notin Live(heap, lost)
      <4>1. <<>> \in Seq(Cells \ lost)
        OBVIOUS
      <4> QED  BY <1>5, <3>2, <4>1
    <3> QED  BY <3>1, <3>2
  <2> QED  BY <2>1 DEF Within
<1>7. Grounded(heap, Cells \ lost)
  <2> SUFFICES ASSUME NEW W \in SUBSET (Cells \ lost), W # {}
               PROVE  \E p \in W : \A x \in W : ~Leads(heap, p, x)
    BY DEF Grounded
  <2>1. CASE W \cap Live(heap, lost) # {}
    <3>1. PICK p \in W \cap Live(heap, lost) : \A x \in W \cap Live(heap, lost) : ~Leads(heap, p, x)
      BY <2>1 DEF Fine, Grounded
    <3>2. \A x : Leads(heap, p, x) => x \in Live(heap, lost)
      <4>1. Children(heap, p) \in Seq(Live(heap, lost))
        BY <1>2, <3>1
      <4> QED  BY <4>1 DEF Leads
    <3> QED  BY <3>1, <3>2
  <2>2. CASE W \cap Live(heap, lost) = {}
    <3>1. PICK p \in W : TRUE
      OBVIOUS
    <3>2. Children(heap, p) = <<>>
      BY <1>5, <2>2, <3>1
    <3>3. \A x : ~Leads(heap, p, x)
      BY <3>2 DEF Leads
    <3> QED  BY <3>1, <3>3
  <2> QED  BY <2>1, <2>2
<1> QED  BY <1>4, <1>6, <1>7

\* The names of an object that cJSON_Compare and get_object_item rely on.
LEMMA NamesAreApart ==
    ASSUME CellsAssumption, NamesAssumption, NEW home, Ready(heap, lost, home, held),
           NEW x \in held, NEW sensitive \in BOOLEAN, NamesDiffer(x, sensitive),
           NEW c \in Tree(heap, x, TRUE)
    PROVE  NamesApart(heap, c, sensitive)
<1>1. /\ Sound(heap, lost, home, {}, held, {}) /\ heap \in [Cells -> Items]
      /\ c \in Live(heap, lost) /\ c \in Cells
  BY TreeIsWithin DEF Ready, Sound, Shape, Live
<1>2. Children(heap, c) \in Seq(Live(heap, lost))
  BY <1>1, ChildrenBelong
<1> DEFINE s == Children(heap, c)
<1>3. s \in Seq(Cells) /\ DOMAIN s = 1 .. Len(s)
  BY <1>2 DEF Live
<1>4. ASSUME heap[c].type = "object", NEW i \in 1 .. Len(s)
      PROVE  heap[s[i]].key \in Keys
  <2>1. heap[c].child # NULL
    BY <1>1, <1>4, ChildrenBelong
  <2>2. PICK q \in Live(heap, lost) :
            /\ heap[q].type = heap[c].type /\ \A j \in 1 .. Len(Children(heap, c)) : home[Children(heap, c)[j]] = q
    BY <1>1, <2>1, ChildrenBelong
  <2>3. s[i] \in Cells /\ home[s[i]] = q /\ q \in Cells
    BY <1>3, <1>4, <2>2 DEF Live
  <2>4. heap[s[i]].key # NULL
    <3>1. NULL \notin Cells
      BY DEF CellsAssumption
    <3>2. NamesInv(heap, home)
      BY <1>1 DEF Sound
    <3> HIDE DEF s
    <3> QED  BY <1>4, <2>2, <2>3, <3>1, <3>2 DEF NamesInv
  <2> HIDE DEF s
  <2>5. heap[s[i]].key \in Keys \cup {NULL}
    BY <1>1, <2>3, FieldTypes
  <2> QED  BY <2>4, <2>5
<1>5. ASSUME heap[c].type = "object", NEW i \in 1 .. Len(s), NEW j \in 1 .. Len(s),
             Folded(heap[s[i]].key, sensitive) = Folded(heap[s[j]].key, sensitive)
      PROVE  i = j
  <2>1. SameName(heap[s[i]].key, heap[s[j]].key, sensitive) => i = j
    BY <1>3, <1>5 DEF NamesDiffer
  <2>2. heap[s[i]].key # NULL /\ heap[s[j]].key # NULL
    BY <1>4, <1>5 DEF NamesAssumption
  <2> HIDE DEF s
  <2> QED  BY <1>5, <2>1, <2>2 DEF SameName, Folded
<1> QED  BY <1>4, <1>5 DEF NamesApart

\* Whatever the caller has built: cJSON_Compare tells the values of his items apart, and
\* nothing else.
LEMMA FineItemsCompare ==
    ASSUME CellsAssumption, NamesAssumption, ScalarsAssumption, CJsonInv, Typed, NoCircles
    PROVE  CompareIsEquality
<1> SUFFICES ASSUME Idle, NEW x \in held, NEW y \in held, NEW sensitive \in BOOLEAN,
                    NamesDiffer(x, sensitive), NamesDiffer(y, sensitive)
             PROVE  Compare(heap, x, y, sensitive) <=> Value(x, sensitive) = Value(y, sensitive)
  BY DEF CompareIsEquality
<1>1. PICK home : Ready(heap, lost, home, held)
  BY IdleIsReady
<1>2. Fine(heap, lost)
  BY <1>1, IdleIsFine
<1> DEFINE D == Cells \ lost
           S == Tree(heap, x, TRUE)
           T == Tree(heap, y, TRUE)
<1>3. Within(heap, D) /\ Grounded(heap, D) /\ \A c \in Cells : Children(heap, c) \in Seq(Cells)
  BY <1>1, <1>2, AllIsWithin
<1>4. PICK f : /\ Sames(heap, sensitive, f)
               /\ \A a, b \in Cells : Compare(heap, a, b, sensitive) = f[<<a, b>>]
  BY <1>3, CompareComputes
<1>5. PICK v : /\ Values(heap, D, sensitive, v) /\ \A a : Value(a, sensitive) = v[a]
  BY <1>3, ValueIs
<1>6. /\ S \in SUBSET Live(heap, lost) /\ x \in S /\ Within(heap, S)
      /\ T \in SUBSET Live(heap, lost) /\ y \in T /\ Within(heap, T)
  BY <1>1, TreeIsWithin
<1>7. /\ D \in SUBSET Cells /\ Live(heap, lost) \subseteq D /\ NULL \notin D /\ x \in Cells /\ y \in Cells
  BY <1>6 DEF Live, CellsAssumption
<1>8. \A c \in S \cup T : NamesApart(heap, c, sensitive)
  BY <1>1, NamesAreApart
<1>9. \A c \in Live(heap, lost) : heap[c].type \in Containers \cup Scalars
  <2>1. heap \in [Cells -> Items]
    BY <1>1, ReadyFacts
  <2>2. \A c \in Live(heap, lost) : heap[c].type \in Types /\ heap[c].type \notin {"free", "invalid"}
    BY <1>2, <2>1, FieldTypes DEF Fine, Live
  <2> QED  BY <2>2 DEF Types
<1> HIDE DEF D, S, T
<1>10. S \in SUBSET D /\ T \in SUBSET D
       /\ \A c \in S \cup T : Comparable(heap, D, sensitive, c)
  <2>1. \A c \in S \cup T : c \in D /\ Children(heap, c) \in Seq(D)
    BY <1>3, <1>6, <1>7 DEF Within
  <2> QED  BY <1>6, <1>7, <1>8, <1>9, <2>1 DEF Comparable
<1>11. \A a \in S, b \in T : Agree(f, v, a, b)
  <2>1. Grounded(heap, D) /\ Sames(heap, sensitive, f) /\ Values(heap, D, sensitive, v)
        /\ Within(heap, S) /\ Within(heap, T) /\ D \in SUBSET Cells /\ NULL \notin D
    BY <1>3, <1>4, <1>5, <1>6, <1>7
  <2> QED  BY <1>10, <2>1, SameIsEqual
<1>12. f[<<x, y>>] <=> v[x] = v[y]
  BY <1>6, <1>11 DEF Agree
<1> QED  BY <1>4, <1>5, <1>7, <1>12

\* In every behaviour cJSON_Compare is equality of the values: for any trees a caller can
\* build, however deep, and with references among them.
THEOREM CompareAgrees == Spec => []CompareIsEquality
<1>1. Init => Typed /\ NoCircles
  BY CellsAssumption, NoneAtTheStart
<1>2. CJsonInv /\ CJsonInv' /\ Typed /\ NoCircles /\ [Next]_vars => Typed' /\ NoCircles'
  BY CellsAssumption, NamesAssumption, ScalarsAssumption, StepsMakeNoCircles
<1>3. CJsonInv /\ Typed /\ NoCircles => CompareIsEquality
  BY CellsAssumption, NamesAssumption, ScalarsAssumption, FineItemsCompare
<1> QED  BY <1>1, <1>2, <1>3, HeapStaysSound, PTL DEF Spec
================================================================================
