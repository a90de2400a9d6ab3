----------------------------- MODULE EntryList -----------------------------
(***************************************************************************)
(* The linked list that ls works on: entrylist.c, and the sorts of         *)
(* ext2_shell.c, which exchange neighbours by their next pointers.  An     *)
(* item stands in a page of its own; items are numbered in the order they  *)
(* are allocated in, and freed lists those given back, in order.           *)
(***************************************************************************)
EXTENDS Integers, Sequences, SequencesExt

NULL == 0

init_entry_list ==
  [count |-> 0, first |-> NULL, last |-> NULL, next |-> << >>,
   entry |-> << >>, freed |-> << >>]

add_entry_list(list, e) ==
  LET new    == Len(list.entry) + 1
      linked == IF list.count = 0 THEN [list EXCEPT !.first = new]
                ELSE [list EXCEPT !.next[list.last] = new]
  IN  [linked EXCEPT !.count = @ + 1, !.last = new,
                     !.next = Append(@, NULL), !.entry = Append(@, e)]

\* The item that n steps from the first one lead to, or NULL beyond the end.
Nth(list, n) ==
  LET item[k \in 0 .. n] ==
        IF k = 0 THEN list.first
        ELSE IF item[k - 1] = NULL THEN NULL ELSE list.next[item[k - 1]]
  IN  item[n]

\* The items up to NULL; one too many if the chain is closed.
Chain(list) ==
  SelectSeq([k \in 1 .. Len(list.entry) + 1 |-> Nth(list, k - 1)],
            LAMBDA item : item # NULL)

release_entry_list(list) == [list EXCEPT !.freed = @ \o Chain(list)]

\* fs_ls without -a: the first two items are given back.
DropDots(list) ==
  LET second == list.next[list.first]
  IN  [list EXCEPT !.first = list.next[second], !.count = @ - 2,
                   !.freed = @ \o <<second, list.first>>]

\* Mutated form: an exchange of the first two leaves list->first alone.
swap_First(list, a) ==
  LET item_a == Nth(list, a)
      item_b == list.next[item_a]
      linked == [list EXCEPT !.next[item_a] = list.next[item_b],
                             !.next[item_b] = item_a]
  IN  [linked EXCEPT !.next[Nth(linked, IF a = 0 THEN 0 ELSE a - 1)] = item_b]

\* Item a, counted from 0, and the one after it.
swap(list, a) ==
  LET item_a == Nth(list, a)
      item_b == list.next[item_a]
      isLast == a + 1 = list.count - 1
      linked == [list EXCEPT
                   !.next[item_a] = IF isLast THEN NULL ELSE list.next[item_b],
                   !.next[item_b] = item_a,
                   !.last = IF isLast THEN item_a ELSE @]
  IN  IF a = 0 THEN [linked EXCEPT !.first = item_b]
      ELSE [linked EXCEPT !.next[Nth(linked, a - 1)] = item_b]

\* The inner loop: n comparisons.  Neighbours <<e, f>> in above are exchanged;
\* after that the item at hand has moved on by itself.
Pass(list, n, above) ==
  LET Step(at, j) ==
        LET next == at.list.next[at.item]
        IN  IF <<at.list.entry[at.item], at.list.entry[next]>> \in above
            THEN [at EXCEPT !.list = swap(@, j)]
            ELSE [at EXCEPT !.item = next]
  IN  FoldLeft(Step, [list |-> list, item |-> list.first],
               [j \in 1 .. n |-> j - 1]).list

\* alpha_sort, r_alpha_sort and size_sort, by what they compare.
Sorted(list, above) ==
  FoldLeft(LAMBDA l, n : Pass(l, n, above), list,
           [i \in 1 .. list.count - 1 |-> list.count - i])
=============================================================================
