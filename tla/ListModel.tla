----------------------------- MODULE ListModel -----------------------------
(***************************************************************************)
(* The list behind the views (viewmodel/helpers/list_model.h), as          *)
(* operators on sequences. Two items are the same row when their id is the *)
(* same, as operator== of the rows says; everything else of a row may      *)
(* change.                                                                 *)
(***************************************************************************)
EXTENDS Integers, Sequences, FiniteSets, SequencesExt

\* The numbers of a finite set, from the smallest on.
Ascending(numbers) ==
    CHOOSE s \in [1..Cardinality(numbers) -> numbers] :
        \A i, j \in DOMAIN s : i < j => s[i] < s[j]

\* The items at some places of a list, in their order.
ItemsAt(items, places) ==
    LET at == Ascending(places) IN [n \in DOMAIN at |-> items[at[n]]]

\* What a step makes of the base with each of the items in turn.
InTurn(Step(_, _), base, items) ==
    LET after[n \in 0..Len(items)] ==
            IF n = 0 THEN base ELSE Step(after[n - 1], items[n])
    IN  after[Len(items)]

RowsOf(list, id) == {i \in DOMAIN list : list[i].id = id}

\* Every item is put in front of the ones before it: the list is backwards.
ListReset(items) == Reverse(items)

\* A mutant: new rows come in front.
ListInsert_InFront(list, items) == items \o list

\* Appends without looking whether the row is already there.
ListInsert(list, items) == list \o items

\* Takes the first equal row out, and nothing where there is none.
RemoveRow(list, item) ==
    LET rows == RowsOf(list, item.id)
    IN  IF rows = {} THEN list ELSE RemoveAt(list, Min(rows))

\* A mutant: the row is put in without taking the former one out.
UpdateRow_LeavesFormer(list, item) == Append(list, item)

\* A row that is there keeps its place. One that is missing goes before the
\* last row, or becomes the first.
UpdateRow(list, item) ==
    LET rows == RowsOf(list, item.id)
    IN  IF rows # {} THEN ReplaceAt(list, Min(rows), item)
        ELSE IF list = <<>> THEN <<item>>
        ELSE InsertAt(list, Len(list), item)

ListRemove(list, items) == InTurn(RemoveRow, list, items)

ListUpdate(list, items) == InTurn(UpdateRow, list, items)
=============================================================================
