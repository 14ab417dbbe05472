------------------------------- MODULE JsonForest -------------------------------
(* What the calls of cJSON.c do to the documents of their caller: trees of items, *)
(* each the ordered list of its children.                                         *)
EXTENDS Integers, Sequences, SequencesExt, Functions

VARIABLES roots,    \* the trees the caller holds
          children  \* of every item of these trees

\* The items under x, and x
Tree(f, x) ==
    LET under[T \in SUBSET DOMAIN f] ==
            LET U == T \cup UNION {ToSet(f[y]) : y \in T} IN IF U = T THEN T ELSE under[U]
    IN under[{x}]

Without(f, x) == Restrict(f, DOMAIN f \ Tree(f, x))

Init == roots = {} /\ children = [x \in {} |-> <<>>]

\* The steps, from the children f to the children g.  Parse, Duplicate and Create...:
\* a new tree, whatever it looks like.
Make(f, g) ==
    \E x \in roots' \ roots :
        /\ roots' = roots \cup {x}
        /\ DOMAIN f \subseteq DOMAIN g /\ Restrict(g, DOMAIN f) = f
        /\ x \notin DOMAIN f /\ Tree(g, x) = DOMAIN g \ DOMAIN f

\* Add and Insert: a tree of the caller becomes a child.
Put(f, g) ==
    \E x \in roots \ roots' :
        /\ roots' = roots \ {x}
        /\ \E p \in DOMAIN f : \E i \in 1 .. Len(f[p]) + 1 :
               g = [f EXCEPT ![p] = InsertAt(@, i, x)]

\* Add...ToObject and AddItemReference...: the new child is made on the spot.
PutNew(f, g) ==
    /\ roots' = roots
    /\ \E x \in DOMAIN g \ DOMAIN f, p \in DOMAIN f :
           g = [y \in DOMAIN f \cup {x} |->
                    IF y = x THEN <<>> ELSE IF y = p THEN Append(f[p], x) ELSE f[y]]

\* Detach: a child becomes a tree of the caller.
Take(f, g) ==
    \E x \in roots' \ roots :
        /\ roots' = roots \cup {x}
        /\ \E p \in DOMAIN f : \E i \in DOMAIN f[p] :
               f[p][i] = x /\ g = [f EXCEPT ![p] = RemoveAt(@, i)]

\* Delete
Drop(f, g) ==
    \E x \in roots \ roots' : roots' = roots \ {x} /\ g = Without(f, x)

\* DeleteItem...
DropChild(f, g) ==
    /\ roots' = roots
    /\ \E p \in DOMAIN f : \E i \in DOMAIN f[p] :
           f[p][i] \notin DOMAIN g /\ g = Without([f EXCEPT ![p] = RemoveAt(@, i)], f[p][i])

\* Replace: a tree of the caller takes the place of a child, which is deleted.
Swap(f, g) ==
    \E x \in roots \ roots' :
        /\ roots' = roots \ {x}
        /\ \E p \in DOMAIN f : \E i \in DOMAIN f[p] :
               f[p][i] \notin DOMAIN g /\ g = Without([f EXCEPT ![p][i] = x], f[p][i])

Next ==
    LET f == children
        g == children'
    IN \/ Make(f, g) \/ Put(f, g) \/ PutNew(f, g) \/ Take(f, g)
       \/ Drop(f, g) \/ DropChild(f, g) \/ Swap(f, g)

Spec == Init /\ [][Next]_<<roots, children>>
==============================================================================
