------------------------------- MODULE Catalogue -------------------------------
(***************************************************************************)
(* What the lambda registry promises to those who use it: a catalogue of   *)
(* functions with one name each, a current configuration, the list of the  *)
(* configurations published so far, which only grows, and aliases to       *)
(* places in that list.  Every change happens at once or not at all,       *)
(* whatever becomes of the calls that asked for it.                        *)
(***************************************************************************)
EXTENDS Naturals, Sequences

CONSTANTS Ids, Names, Aliases, Configs

VARIABLES
  catalogue,  \* from the ids of the functions there are to what is kept of each
  drawn       \* ids given so far

-----------------------------------------------------------------------------

Live == DOMAIN catalogue

Put(i, f) ==
  /\ catalogue' = [j \in Live \cup {i} |-> IF j = i THEN f ELSE catalogue[j]]
  /\ drawn' = drawn \cup {i}

Init == catalogue = <<>> /\ drawn = {}

\* A name belongs to one function at a time, an id to one for good.
Create ==
  \E i \in Ids \ drawn, n \in Names, g \in Configs :
    /\ \A j \in Live : catalogue[j].name # n
    /\ Put(i, [name |-> n, latest |-> g, published |-> <<>>, aliases |-> <<>>])

\* With all of its versions and aliases.
Delete ==
  /\ \E i \in Live : catalogue' = [j \in Live \ {i} |-> catalogue[j]]
  /\ UNCHANGED drawn

Update ==
  \E i \in Live, g \in Configs : Put(i, [catalogue[i] EXCEPT !.latest = g])

Publish ==
  \E i \in Live, g \in Configs :
    Put(i, [catalogue[i] EXCEPT !.published = Append(catalogue[i].published, g)])

Pointed(pointers, a, v) == [b \in DOMAIN pointers \cup {a} |-> IF b = a THEN v ELSE pointers[b]]

\* An alias is made or moved, to a version there is.
Point ==
  \E i \in Live, a \in Aliases :
    \E v \in DOMAIN catalogue[i].published :
      Put(i, [catalogue[i] EXCEPT !.aliases = Pointed(catalogue[i].aliases, a, v)])

Next == Create \/ Delete \/ Update \/ Publish \/ Point

Spec == Init /\ [][Next]_<<catalogue, drawn>>

===============================================================================
