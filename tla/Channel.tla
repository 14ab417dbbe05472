-------------------------------- MODULE Channel --------------------------------
(* What one producer and one consumer are promised by what lies between them:   *)
(* numbered words come out once and in the order they went in, and no more than *)
(* Capacity of them are inside.                                                 *)
EXTENDS Integers, Sequences

CONSTANTS Capacity, Modulus     \* Modulus: words are counted modulo this

VARIABLES
    contents,    \* the words inside
    sent,        \* the next word to be put in
    taken        \* the word that came out last

vars == <<contents, sent, taken>>

Init == contents = <<>> /\ sent = 0 /\ taken = Modulus - 1

Put ==
    /\ Len(contents) < Capacity
    /\ contents' = Append(contents, sent)
    /\ sent' = (sent + 1) % Modulus
    /\ UNCHANGED taken

Get ==
    /\ contents # <<>>
    /\ taken' = Head(contents)
    /\ contents' = Tail(contents)
    /\ UNCHANGED sent

Next == Put \/ Get

Spec == Init /\ [][Next]_vars
==============================================================================
