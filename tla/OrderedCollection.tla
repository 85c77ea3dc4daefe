------------------------- MODULE OrderedCollection -------------------------
(***************************************************************************)
(* orderedCollection[T] (ordered_collection.go): entries by id, in the     *)
(* order they were reported.  A collection is a record of the sequence ids *)
(* and the function entries; every operator returns the new collection.    *)
(***************************************************************************)
EXTENDS Integers, Sequences

Empty == [ids |-> <<>>, entries |-> [id \in {} |-> 0]]

Has(o, id) == id \in DOMAIN o.entries

Values(o) == [i \in 1..Len(o.ids) |-> o.entries[o.ids[i]]]

\* Mutant: a held id is listed once more.
SetAppends(o, id, value) ==
    [ids     |-> Append(o.ids, id),
     entries |-> [x \in DOMAIN o.entries \cup {id} |->
                    IF x = id THEN value ELSE o.entries[x]]]

\* A new id goes to the end; a held one keeps its place.
Set(o, id, value) ==
    [ids     |-> IF Has(o, id) THEN o.ids ELSE Append(o.ids, id),
     entries |-> [x \in DOMAIN o.entries \cup {id} |->
                    IF x = id THEN value ELSE o.entries[x]]]

\* What a sequence has of a set, in its order.  This is SelectSeq, as a function
\* that a proof can unfold.
Among(s, set) ==
    LET upTo[n \in 0..Len(s)] ==
            IF n = 0 THEN <<>>
            ELSE IF s[n] \in set THEN Append(upTo[n - 1], s[n])
            ELSE upTo[n - 1]
    IN upTo[Len(s)]

\* The entries of the given ids, in their order.
Keep(o, ids) ==
    [ids     |-> Among(o.ids, ids),
     entries |-> [id \in DOMAIN o.entries \cap ids |-> o.entries[id]]]

Delete(o, id) == Keep(o, DOMAIN o.entries \ {id})

\* deleteWhere, given the ids whose entries match.
DeleteWhere(o, matching) == Keep(o, DOMAIN o.entries \ matching)

\* What deleteWhere returns: the place the first match held, counted from 0,
\* or -1.
FirstMatch(o, matching) ==
    IF \E i \in 1..Len(o.ids) : o.ids[i] \in matching
    THEN (CHOOSE i \in 1..Len(o.ids) :
              /\ o.ids[i] \in matching
              /\ \A j \in 1..(i - 1) : o.ids[j] \notin matching) - 1
    ELSE -1

\* Adds values, whose ids are given beside them, at a position, or at the end
\* when the position is outside.  A held id keeps its place; of two values
\* with one id the last one stays, at the place of the first.
InsertAt(o, index, ids, values) ==
    LET isFresh(i) == ~Has(o, ids[i]) /\ \A j \in 1..(i - 1) : ids[j] # ids[i]
        order == Among([i \in DOMAIN ids |-> i], {i \in DOMAIN ids : isFresh(i)})
        fresh == [i \in DOMAIN order |-> ids[order[i]]]
        at == IF index < 0 \/ index > Len(o.ids) THEN Len(o.ids) ELSE index
        last(id) == CHOOSE i \in DOMAIN ids :
                       ids[i] = id /\ \A j \in (i + 1)..Len(ids) : ids[j] # id
        given == {ids[i] : i \in DOMAIN ids}
    IN [ids     |-> SubSeq(o.ids, 1, at) \o fresh \o SubSeq(o.ids, at + 1, Len(o.ids)),
        entries |-> [id \in DOMAIN o.entries \cup given |->
                       IF id \in given THEN values[last(id)] ELSE o.entries[id]]]

Reset(ids, values) == InsertAt(Empty, 0, ids, values)

\* update, given the rewritten entries.
Update(o, entries) == [o EXCEPT !.entries = entries]

\* Every held id is listed once and every listed id is held.
WellFormed(o) ==
    /\ DOMAIN o.entries = {o.ids[i] : i \in 1..Len(o.ids)}
    /\ \A i, j \in 1..Len(o.ids) : o.ids[i] = o.ids[j] => i = j
=============================================================================
