--------------------------------- MODULE CJson ---------------------------------
(***************************************************************************)
(* The tree of seance6/project/cJSON.c, with which the telemetry monitor   *)
(* reads its configuration: the calls that build it, change it, copy it,   *)
(* compare it and free it.  An item is a cell of the heap; the children of *)
(* an array or object are a list through next, and the prev of the first   *)
(* child is the last one.                                                  *)
(*                                                                         *)
(* Calls that allocate several items (Parse, Duplicate, Create...Array)    *)
(* take one step per item and may fail before each; the others take one    *)
(* step.  Texts and numbers are abstract, and the memory of a name or of a *)
(* text lives and dies with its item.                                      *)
(***************************************************************************)
EXTENDS Integers, Sequences, FiniteSets

CONSTANTS
    Cells,      \* bound: the items there is memory for
    NULL,
    Keys,       \* names of members
    Lower,      \* tolower of each name
    Scalars,    \* values of items that have no children
    Limit,      \* CJSON_NESTING_LIMIT, and CJSON_CIRCULAR_LIMIT
    Count       \* bound: length of the arrays made of numbers or strings

ASSUME CellsAssumption == IsFiniteSet(Cells) /\ NULL \notin Cells
ASSUME NamesAssumption == Lower \in [Keys -> Keys] /\ NULL \notin Keys
ASSUME SizesAssumption == Limit \in Nat /\ Count \in Nat

Containers == {"array", "object"}
Types == Containers \cup Scalars \cup {"free", "invalid"}

\* Each type of cJSON.h is a flag of its own.
ASSUME ScalarsAssumption == Scalars \cap (Containers \cup {"free", "invalid"}) = {}

VARIABLES
    heap,   \* the items
    held,   \* items without a parent that the caller has a pointer to
    lost,   \* items nobody has a pointer to
    call    \* the call that is building a tree

vars == <<heap, held, lost, call>>

\* memset(node, '\0', sizeof(cJSON))
Blank == [type |-> "invalid", ref |-> FALSE, next |-> NULL, prev |-> NULL,
          child |-> NULL, key |-> NULL]
Unused == [Blank EXCEPT !.type = "free"]
NoCall == [op |-> "none", stack |-> <<>>, root |-> NULL, todo |-> NULL, failing |-> FALSE]

Init ==
    /\ heap = [c \in Cells |-> Unused]
    /\ held = {}
    /\ lost = {}
    /\ call = NoCall

-----------------------------------------------------------------------------
(* Walking through a heap h. *)

\* The list that starts at x
Chain(h, x) ==
    LET from[c \in Cells \cup {NULL}] == IF c = NULL THEN <<>> ELSE <<c>> \o from[h[c].next]
    IN from[x]

Children(h, p) == Chain(h, h[p].child)

\* What the pointers of S lead to; a reference does not own its children.
Reach(h, S, throughRefs) ==
    LET Targets(x) == {h[x].next} \cup (IF h[x].ref /\ ~throughRefs THEN {} ELSE {h[x].child})
        from[R \in SUBSET Cells] ==
            LET More == (R \cup UNION {Targets(x) : x \in R}) \ {NULL}
            IN IF More = R THEN R ELSE from[More]
    IN from[S \ {NULL}]

\* x and everything under it, but not the siblings that follow it.
Tree(h, x, throughRefs) ==
    {x} \cup (IF h[x].ref /\ ~throughRefs THEN {} ELSE Reach(h, {h[x].child}, throughRefs))

\* get_array_item
ArrayItem(h, p, index) ==
    LET s == Children(h, p) IN IF index < Len(s) THEN s[index + 1] ELSE NULL

SameName(name, key, sensitive) ==
    /\ name # NULL /\ key # NULL
    /\ IF sensitive THEN name = key ELSE Lower[name] = Lower[key]

\* get_object_item: the search with strcmp ends at an item without a name.
ObjectItem(h, p, name, sensitive) ==
    LET s == Children(h, p)
        Stops(i) == \/ SameName(name, h[s[i]].key, sensitive)
                    \/ sensitive /\ h[s[i]].key = NULL
        First == {i \in 1 .. Len(s) : Stops(i) /\ \A j \in 1 .. i - 1 : ~Stops(j)}
    IN IF name = NULL \/ First = {} THEN NULL
       ELSE LET x == s[CHOOSE i \in First : TRUE] IN IF h[x].key = NULL THEN NULL ELSE x

\* Mutant of Compare: the members of the second object are not looked for in the first.
CompareOneWay(h, x, y, sensitive) ==
    LET Same[pair \in Cells \X Cells] ==
            LET a == pair[1]
                b == pair[2]
                as == Children(h, a)
                bs == Children(h, b)
                Finds(s, other) ==
                    \A i \in DOMAIN s :
                        LET found == ObjectItem(h, other, h[s[i]].key, sensitive)
                        IN found # NULL /\ Same[<<s[i], found>>]
            IN /\ h[a].type = h[b].type /\ h[a].type # "invalid"
               /\ \/ a = b
                  \/ h[a].type \in Scalars
                  \/ /\ h[a].type = "array" /\ Len(as) = Len(bs)
                     /\ \A i \in DOMAIN as : Same[<<as[i], bs[i]>>]
                  \/ h[a].type = "object" /\ Finds(as, b)
    IN Same[<<x, y>>]

\* cJSON_Compare: equal types, then children in order, or by name both ways.
Compare(h, x, y, sensitive) ==
    LET Same[pair \in Cells \X Cells] ==
            LET a == pair[1]
                b == pair[2]
                as == Children(h, a)
                bs == Children(h, b)
                Finds(s, other) ==
                    \A i \in DOMAIN s :
                        LET found == ObjectItem(h, other, h[s[i]].key, sensitive)
                        IN found # NULL /\ Same[<<s[i], found>>]
            IN /\ h[a].type = h[b].type /\ h[a].type # "invalid"
               /\ \/ a = b
                  \/ h[a].type \in Scalars
                  \/ /\ h[a].type = "array" /\ Len(as) = Len(bs)
                     /\ \A i \in DOMAIN as : Same[<<as[i], bs[i]>>]
                  \/ h[a].type = "object" /\ Finds(as, b) /\ Finds(bs, a)
    IN Same[<<x, y>>]

-----------------------------------------------------------------------------
(* Changing a heap h, assignment by assignment. *)

\* cJSON_Delete: the siblings that follow x go too.
Delete(h, x) == [c \in Cells |-> IF c \in Reach(h, {x}, FALSE) THEN Unused ELSE h[c]]

\* suffix_object
Suffix(h, last, x) == [h EXCEPT ![last].next = x, ![x].prev = last]

\* add_item_to_array
AddToArray(h, p, x) ==
    LET first == h[p].child IN
    IF first = NULL THEN [h EXCEPT ![p].child = x, ![x].prev = x, ![x].next = NULL]
    ELSE IF h[first].prev = NULL THEN h
    ELSE [Suffix(h, h[first].prev, x) EXCEPT ![first].prev = x]

\* Mutant of Detach: the first child is not told of the new last one.
DetachKeepingLast(h, p, x) ==
    LET h1 == IF x = h[p].child THEN h ELSE [h EXCEPT ![h[x].prev].next = h[x].next]
        h2 == IF h1[x].next = NULL THEN h1 ELSE [h1 EXCEPT ![h1[x].next].prev = h1[x].prev]
        h3 == IF x = h2[p].child THEN [h2 EXCEPT ![p].child = h2[x].next] ELSE h2
    IN [h3 EXCEPT ![x].prev = NULL, ![x].next = NULL]

\* cJSON_DetachItemViaPointer
Detach(h, p, x) ==
    LET h1 == IF x = h[p].child THEN h ELSE [h EXCEPT ![h[x].prev].next = h[x].next]
        h2 == IF h1[x].next = NULL THEN h1 ELSE [h1 EXCEPT ![h1[x].next].prev = h1[x].prev]
        h3 == IF x = h2[p].child THEN [h2 EXCEPT ![p].child = h2[x].next]
              ELSE IF h2[x].next = NULL THEN [h2 EXCEPT ![h2[p].child].prev = h2[x].prev]
              ELSE h2
    IN [h3 EXCEPT ![x].prev = NULL, ![x].next = NULL]

\* cJSON_InsertItemInArray
Insert(h, p, index, x) ==
    LET after == ArrayItem(h, p, index)
        h1 == [h EXCEPT ![x].next = after, ![x].prev = h[after].prev, ![after].prev = x]
    IN IF after = NULL THEN AddToArray(h, p, x)
       ELSE IF after = h[p].child THEN [h1 EXCEPT ![p].child = x]
       ELSE [h1 EXCEPT ![h1[x].prev].next = x]

\* cJSON_ReplaceItemViaPointer: new gets the neighbours of x, and they and p are told.
ClosesItself(h, x) == h[x].prev = x
WithNeighbours(h, x, new) == [h EXCEPT ![new].next = h[x].next, ![new].prev = h[x].prev]
TellNext(h, new) == IF h[new].next = NULL THEN h ELSE [h EXCEPT ![h[new].next].prev = new]
TellPrevious(h, new) == IF h[new].prev = NULL THEN h ELSE [h EXCEPT ![h[new].prev].next = new]
TellLast(h, p, new) == IF h[new].next = NULL THEN [h EXCEPT ![h[p].child].prev = new] ELSE h
TellParent(h, p, x, new) ==
    IF h[p].child = x
    THEN [h EXCEPT ![new].prev = IF ClosesItself(h, x) THEN new ELSE @, ![p].child = new]
    ELSE TellLast(TellPrevious(h, new), p, new)
Unlinked(h, x) == [h EXCEPT ![x].next = NULL, ![x].prev = NULL]
Swapped(h, p, x, new) ==
    Unlinked(TellParent(TellNext(WithNeighbours(h, x, new), new), p, x, new), x)

\* Mutant of Replace: the list ends at the new item.
ReplaceCuttingTheList(h, p, x, new) ==
    Delete(Unlinked(TellParent([h EXCEPT ![new].prev = h[x].prev], p, x, new), x), x)

Replace(h, p, x, new) == Delete(Swapped(h, p, x, new), x)

-----------------------------------------------------------------------------
(* What a caller may do: he passes items that he holds, and frees or       *)
(* changes no list that a reference still points to.                       *)

Idle == call.op = "none"
Free == {c \in Cells : heap[c].type = "free"}
Owned == Reach(heap, held, FALSE)
References == {r \in Cells \ lost : heap[r].ref}
Unshared(p) == heap[p].child = NULL \/ \A r \in References : heap[r].child # heap[p].child
Parents(type) == {p \in Owned : heap[p].type = type /\ ~heap[p].ref /\ Unshared(p)}
NoRefInto(S) == \A r \in References \ S : heap[r].child \notin S
MayAdd(p, x) == x \in held /\ p \notin Tree(heap, x, TRUE)

Create ==
    /\ Idle
    /\ \E n \in Free, t \in Scalars \cup Containers :
           /\ heap' = [heap EXCEPT ![n] = [Blank EXCEPT !.type = t]]
           /\ held' = held \cup {n}
    /\ UNCHANGED <<lost, call>>

DeleteItem ==
    /\ Idle
    /\ \E x \in held :
           /\ NoRefInto(Tree(heap, x, FALSE))
           /\ heap' = Delete(heap, x)
           /\ held' = held \ {x}
    /\ UNCHANGED <<lost, call>>

AddItemToArray ==
    /\ Idle
    /\ \E p \in Parents("array"), x \in held :
           /\ MayAdd(p, x)
           /\ heap' = AddToArray(heap, p, x)
           /\ held' = held \ {x}
    /\ UNCHANGED <<lost, call>>

\* add_item_to_object; without memory for the name nothing changes.
Named(h, x, key) == [h EXCEPT ![x].key = key]
AddItemToObject ==
    /\ Idle
    /\ \E p \in Parents("object"), x \in held, key \in Keys :
           /\ MayAdd(p, x)
           /\ heap' = AddToArray(Named(heap, x, key), p, x)
           /\ held' = held \ {x}
    /\ UNCHANGED <<lost, call>>

\* cJSON_Add...ToObject; when the name cannot be copied the new item is deleted.
AddNewToObject ==
    /\ Idle
    /\ \E p \in Parents("object"), n \in Free, key \in Keys, t \in Scalars \cup Containers :
           heap' = AddToArray([heap EXCEPT ![n] = [Blank EXCEPT !.type = t, !.key = key]], p, n)
    /\ UNCHANGED <<held, lost, call>>

\* create_reference: a copy of the item that shares its children.
Referring(h, n, x) ==
    [h EXCEPT ![n] = [h[x] EXCEPT !.ref = TRUE, !.key = NULL, !.next = NULL, !.prev = NULL]]
AddReference ==
    /\ Idle
    /\ \E p \in Parents("array") \cup Parents("object"), x \in Owned, n \in Free, key \in Keys :
           /\ p \notin Tree(heap, x, TRUE)
           /\ LET h == Referring(heap, n, x) IN
              IF heap[p].type = "array" THEN heap' = AddToArray(h, p, n) /\ UNCHANGED lost
              ELSE \/ heap' = AddToArray(Named(h, n, key), p, n) /\ UNCHANGED lost
                   \/ heap' = h /\ lost' = lost \cup {n}    \* no memory for the name
    /\ UNCHANGED <<held, call>>

\* cJSON_CreateObjectReference and cJSON_CreateArrayReference, of the children of p.
CreateReference ==
    /\ Idle
    /\ \E p \in Owned, n \in Free :
           /\ heap[p].child # NULL
           /\ heap' = [heap EXCEPT ![n] = [Blank EXCEPT !.type = heap[p].type, !.ref = TRUE,
                                                        !.child = heap[p].child]]
           /\ held' = held \cup {n}
    /\ UNCHANGED <<lost, call>>

\* cJSON_DetachItem... by pointer, by index or by name.
DetachItem ==
    /\ Idle
    /\ \E p \in Parents("array") \cup Parents("object"), index \in 0 .. Cardinality(Cells) :
           LET x == ArrayItem(heap, p, index) IN
           /\ x # NULL
           /\ heap' = Detach(heap, p, x)
           /\ held' = held \cup {x}
    /\ UNCHANGED <<lost, call>>

\* cJSON_DeleteItem... deletes what it detaches.
DeleteChild ==
    /\ Idle
    /\ \E p \in Parents("array") \cup Parents("object"), index \in 0 .. Cardinality(Cells) :
           LET x == ArrayItem(heap, p, index) IN
           /\ x # NULL /\ NoRefInto(Tree(heap, x, FALSE))
           /\ heap' = Delete(Detach(heap, p, x), x)
    /\ UNCHANGED <<held, lost, call>>

InsertItemInArray ==
    /\ Idle
    /\ \E p \in Parents("array"), x \in held, index \in 0 .. Cardinality(Cells) :
           /\ MayAdd(p, x)
           /\ heap' = Insert(heap, p, index, x)
           /\ held' = held \ {x}
    /\ UNCHANGED <<lost, call>>

ReplaceItemInArray ==
    /\ Idle
    /\ \E p \in Parents("array"), new \in held, index \in 0 .. Cardinality(Cells) :
           LET x == ArrayItem(heap, p, index) IN
           /\ MayAdd(p, new) /\ x # NULL /\ NoRefInto(Tree(heap, x, FALSE))
           /\ heap' = Replace(heap, p, x, new)
           /\ held' = held \ {new}
    /\ UNCHANGED <<lost, call>>

\* replace_item_in_object: the old name of new is gone before the new one is
\* there, and new keeps its new name when no member has it.
ReplaceItemInObject ==
    /\ Idle
    /\ \E p \in Parents("object"), new \in held, key \in Keys, sensitive \in BOOLEAN :
           LET h == Named(heap, new, key)
               x == ObjectItem(heap, p, key, sensitive)
           IN /\ MayAdd(p, new)
              /\ \/ heap' = Named(heap, new, NULL) /\ UNCHANGED held    \* no memory
                 \/ x = NULL /\ heap' = h /\ UNCHANGED held
                 \/ /\ x # NULL /\ NoRefInto(Tree(heap, x, FALSE))
                    /\ heap' = Replace(h, p, x, new)
                    /\ held' = held \ {new}
    /\ UNCHANGED <<lost, call>>

-----------------------------------------------------------------------------
(* The calls that build a tree keep a stack of frames: the container being  *)
(* filled, its first and its last child so far, and, for a copy, the next  *)
(* child of the original.                                                  *)

Frame(item, type, source) ==
    [item |-> item, type |-> type, head |-> NULL, last |-> NULL, source |-> source]
Top == call.stack[Len(call.stack)]
Below == SubSeq(call.stack, 1, Len(call.stack) - 1)
Working(op) == call.op = op /\ ~call.failing
\* The call returns x to its caller.
Return(x) == held' = held \cup {x} /\ call' = NoCall

\* cJSON_ParseWithLengthOpts
ParseStart ==
    /\ Idle
    /\ \E n \in Free :
           /\ heap' = [heap EXCEPT ![n] = Blank]
           /\ call' = [NoCall EXCEPT !.op = "parse", !.root = n, !.todo = n]
    /\ UNCHANGED <<held, lost>>

\* parse_value
ParseScalar ==
    /\ Working("parse") /\ call.todo # NULL
    /\ \E t \in Scalars : heap' = [heap EXCEPT ![call.todo].type = t]
    /\ call' = [call EXCEPT !.todo = NULL]
    /\ UNCHANGED <<held, lost>>

\* parse_array and parse_object, up to the bracket
ParseOpen ==
    /\ Working("parse") /\ call.todo # NULL
    /\ Len(call.stack) < Limit
    /\ \E t \in Containers :
           call' = [call EXCEPT !.stack = Append(@, Frame(call.todo, t, NULL)), !.todo = NULL]
    /\ UNCHANGED <<heap, held, lost>>

\* The next element: allocated, attached, and named in an object.
ParseElement ==
    /\ Working("parse") /\ call.todo = NULL /\ call.stack # <<>>
    /\ \E n \in Free, key \in IF Top.type = "object" THEN Keys ELSE {NULL} :
           LET h == [heap EXCEPT ![n] = [Blank EXCEPT !.key = key]] IN
           /\ heap' = IF Top.head = NULL THEN h ELSE Suffix(h, Top.last, n)
           /\ call' = [call EXCEPT !.todo = n, !.stack[Len(call.stack)] =
                           [Top EXCEPT !.head = IF @ = NULL THEN n ELSE @, !.last = n]]
    /\ UNCHANGED <<held, lost>>

\* The end of parse_array and parse_object
ParseClose ==
    /\ Working("parse") /\ call.todo = NULL /\ call.stack # <<>>
    /\ LET h == IF Top.head = NULL THEN heap ELSE [heap EXCEPT ![Top.head].prev = Top.last] IN
       heap' = [h EXCEPT ![Top.item].type = Top.type, ![Top.item].child = Top.head]
    /\ call' = [call EXCEPT !.stack = Below]
    /\ UNCHANGED <<held, lost>>

ParseReturn ==
    /\ Working("parse") /\ call.todo = NULL /\ call.stack = <<>>
    /\ Return(call.root)
    /\ UNCHANGED <<heap, lost>>

\* cJSON_Duplicate_rec, up to its loop: a copy without children, and no reference.
Copied(h, n, x) ==
    [h EXCEPT ![n] = [Blank EXCEPT !.type = h[x].type, !.key = h[x].key]]

DuplicateStart ==
    /\ Idle
    /\ \E x \in Owned, n \in Free, recurse \in BOOLEAN :
           /\ heap' = Copied(heap, n, x)
           /\ IF recurse
              THEN /\ call' = [NoCall EXCEPT !.op = "duplicate",
                                             !.stack = <<Frame(n, heap[x].type, heap[x].child)>>]
                   /\ UNCHANGED held
              ELSE Return(n)
    /\ UNCHANGED lost

DuplicateChild ==
    /\ Working("duplicate") /\ Top.source # NULL
    /\ Len(call.stack) <= Limit
    /\ \E n \in Free :
           LET x == Top.source IN
           /\ heap' = Copied(heap, n, x)
           /\ call' = [call EXCEPT !.stack = Append(@, Frame(n, heap[x].type, heap[x].child))]
    /\ UNCHANGED <<held, lost>>

\* The copy of a child is complete; its caller links it and goes on.
DuplicateReturn ==
    /\ Working("duplicate") /\ Top.source = NULL
    /\ LET n == Top.item
           h == IF heap[n].child = NULL THEN heap ELSE [heap EXCEPT ![heap[n].child].prev = Top.last]
           parent == Below[Len(Below)]
       IN IF Below = <<>> THEN heap' = h /\ Return(n)
          ELSE /\ heap' = IF parent.last # NULL THEN Suffix(h, parent.last, n)
                          ELSE [h EXCEPT ![parent.item].child = n]
               /\ call' = [call EXCEPT !.stack = [Below EXCEPT ![Len(Below)] =
                               [parent EXCEPT !.last = n, !.source = heap[@].next]]]
               /\ UNCHANGED held
    /\ UNCHANGED lost

\* cJSON_CreateIntArray and its three sisters
ArrayStart ==
    /\ Idle
    /\ \E n \in Free :
           /\ heap' = [heap EXCEPT ![n] = [Blank EXCEPT !.type = "array"]]
           /\ call' = [NoCall EXCEPT !.op = "array", !.stack = <<Frame(n, "array", NULL)>>]
    /\ UNCHANGED <<held, lost>>

ArrayElement ==
    /\ Working("array") /\ Len(Children(heap, Top.item)) < Count
    /\ \E n \in Free, t \in Scalars :
           LET h == [heap EXCEPT ![n] = [Blank EXCEPT !.type = t]] IN
           /\ heap' = IF Top.last = NULL THEN [h EXCEPT ![Top.item].child = n]
                      ELSE Suffix(h, Top.last, n)
           /\ call' = [call EXCEPT !.stack = <<[Top EXCEPT !.last = n]>>]
    /\ UNCHANGED <<held, lost>>

ArrayReturn ==
    /\ Working("array")
    /\ LET first == heap[Top.item].child IN
       heap' = IF first = NULL THEN heap ELSE [heap EXCEPT ![first].prev = Top.last]
    /\ Return(Top.item)
    /\ UNCHANGED lost

\* No memory, a text that is not JSON or nests too deep: goto fail.
Fail ==
    /\ ~Idle /\ ~call.failing
    /\ call' = [call EXCEPT !.failing = TRUE]
    /\ UNCHANGED <<heap, held, lost>>

\* Mutant of FreedByFrame: parse_array frees its current item only.
FreedFromLast == IF call.op = "parse" THEN Top.last ELSE Top.item
\* Each frame frees what it has: parse_array its list, the others their item;
\* the root of a text is freed last.
FreedByFrame == IF call.op = "parse" THEN Top.head ELSE Top.item
Unwind ==
    /\ call.failing
    /\ IF call.stack # <<>>
       THEN /\ heap' = Delete(heap, FreedByFrame)
            /\ call' = [call EXCEPT !.stack = Below]
       ELSE /\ heap' = Delete(heap, call.root)
            /\ call' = NoCall
    /\ UNCHANGED <<held, lost>>

Next ==
    \/ Create \/ DeleteItem \/ AddItemToArray \/ AddItemToObject \/ AddNewToObject
    \/ AddReference \/ CreateReference \/ DetachItem \/ DeleteChild \/ InsertItemInArray
    \/ ReplaceItemInArray \/ ReplaceItemInObject
    \/ ParseStart \/ ParseScalar \/ ParseOpen \/ ParseElement \/ ParseClose \/ ParseReturn
    \/ DuplicateStart \/ DuplicateChild \/ DuplicateReturn
    \/ ArrayStart \/ ArrayElement \/ ArrayReturn
    \/ Fail \/ Unwind

Spec == Init /\ [][Next]_vars

-----------------------------------------------------------------------------
(* Properties. *)

Pointers == Cells \cup {NULL}
Items == [type : Types, ref : BOOLEAN, next : Pointers, prev : Pointers, child : Pointers,
          key : Keys \cup {NULL}]
Allocated == Cells \ Free

\* What the call has allocated so far and can still free.
Building ==
    Reach(heap, {call.root} \cup {call.stack[i].item : i \in DOMAIN call.stack}
                            \cup {call.stack[i].head : i \in DOMAIN call.stack}, FALSE)

\* Types of the variables.
TypeOK ==
    /\ heap \in [Cells -> Items]
    /\ held \subseteq Cells /\ lost \subseteq Cells
    /\ call.op \in {"none", "parse", "duplicate", "array"} /\ call.failing \in BOOLEAN

\* No item has two owners, or an owner and a place in the caller's hands: nothing is
\* freed twice.  No pointer of an item leads to freed memory.
Owners(x) == {p \in Allocated : heap[p].next = x} \cup {p \in Allocated : heap[p].child = x /\ ~heap[p].ref}
OneOwnerEach ==
    \A x \in Allocated \ lost :
        /\ Cardinality(Owners(x)) <= IF x \in held THEN 0 ELSE 1
        /\ {heap[x].next, heap[x].prev, heap[x].child} \cap Free = {}

\* Whatever calls came before, and whichever of them failed: the children of an item
\* are a list in both directions whose first element knows the last one, as
\* add_item_to_array needs it; the members of an object have names, as get_object_item
\* needs it; an item in the caller's hands belongs to no list.
ListsAreSound ==
    /\ TypeOK
    /\ OneOwnerEach
    /\ \A x \in held : heap[x].next = NULL /\ heap[x].prev = NULL
    /\ \A p \in Owned :
           LET s == Children(heap, p) IN
           ~heap[p].ref =>
               /\ \A i \in 2 .. Len(s) : heap[s[i]].prev = s[i - 1]
               /\ s # <<>> => heap[s[1]].prev = s[Len(s)]
               /\ heap[p].type = "object" => \A i \in DOMAIN s : heap[s[i]].key # NULL
               /\ heap[p].type \in Scalars => s = <<>>

\* Every item that is allocated can still be freed: the caller holds its root, or the
\* call that allocated it does.  The exception is the reference that
\* cJSON_AddItemReferenceToObject makes and forgets when there is no memory for its name.
NothingLeaks == Allocated = Owned \cup Building \cup lost

\* cJSON_Compare is equality of the values, an object being a function from names to
\* values, as long as no object has two members of the same name.
Folded(key, sensitive) == IF sensitive THEN key ELSE Lower[key]
Value(x, sensitive) ==
    LET value[c \in Cells \ lost] ==
            LET s == Children(heap, c)
                Names == {Folded(heap[s[i]].key, sensitive) : i \in DOMAIN s}
            IN IF heap[c].type = "array" THEN <<"array", [i \in DOMAIN s |-> value[s[i]]]>>
               ELSE IF heap[c].type = "object"
               THEN <<"object", [k \in Names |-> value[s[CHOOSE i \in DOMAIN s :
                                                    Folded(heap[s[i]].key, sensitive) = k]]]>>
               ELSE <<"scalar", heap[c].type>>
    IN value[x]
NamesDiffer(x, sensitive) ==
    \A p \in Tree(heap, x, TRUE) :
        LET s == Children(heap, p) IN
        heap[p].type = "object" =>
            \A i, j \in DOMAIN s : SameName(heap[s[i]].key, heap[s[j]].key, sensitive) => i = j
CompareIsEquality ==
    Idle => \A x, y \in held, sensitive \in BOOLEAN :
        NamesDiffer(x, sensitive) /\ NamesDiffer(y, sensitive) =>
            (Compare(heap, x, y, sensitive) <=> Value(x, sensitive) = Value(y, sensitive))

\* The calls implement trees of items.
Forest == INSTANCE JsonForest WITH
    roots <- held,
    children <- [p \in Owned |-> IF heap[p].ref THEN <<>> ELSE Children(heap, p)]
ForestSpec == Forest!Spec
==============================================================================
