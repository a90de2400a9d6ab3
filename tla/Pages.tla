------------------------------- MODULE Pages -------------------------------
(***************************************************************************)
(* The page allocator and the page lists of a task (src/src/mm.c): pure    *)
(* operators that Kernel.tla applies where the code calls them.            *)
(*                                                                         *)
(* A page is named by its place in mem_map, from 1 on.  User programs use  *)
(* two addresses, the code page 0 and the stack page 1, which share their  *)
(* pud, pmd and pte tables: a task needs four pages of tables, pgd         *)
(* included, for its first user page and none for the second.  That pages  *)
(* run out is not modelled here: beyond the last entry the search goes on  *)
(* in the memory behind mem_map.                                           *)
(***************************************************************************)
EXTENDS Integers, Sequences, SequencesExt, FiniteSetsExt

CONSTANT NPages   \* bound: entries of mem_map, more than are ever taken

ASSUME NPagesAssumption == NPages \in Nat \ {0}

Page   == 1 .. NPages
NoPage == 0
TABLES == 4         \* pgd, pud, pmd, pte
CODE   == "code"    \* virtual page 0, which move_to_user_mode fills
STACK  == "stack"   \* virtual page 1, below regs->sp = 2 * PAGE_SIZE

\* kernel holds kernel_pages[1 .. kernel_pages_count]: map_page counts before
\* it stores, so that entry 0 is never written.
NoMm == [user |-> << >>, kernel |-> << >>]

\* Bound: the pages do not run out.
HasRoom(mem_map, n) == Cardinality(Page \ mem_map) >= n

\* The entry that the search of get_free_page stops at.
first_free(mem_map) == Min(Page \ mem_map)

\* What n calls of get_free_page in a row return.
next_free(mem_map, n) ==
  LET free == Page \ mem_map
  IN  [i \in 1 .. n |->
         CHOOSE p \in free : Cardinality({q \in free : q < p}) = i - 1]

\* The end of map_page: a user page is entered with its address.
Enter(mm, page, va) ==
  [mm EXCEPT !.user = Append(@, [page |-> page, va |-> va])]

\* A table is entered by map_page right after get_free_page.
EnterTable(mm, page) == [mm EXCEPT !.kernel = Append(@, page)]

\* The get_free_page calls for a user page at va of a task with mm.
Requests(mm, va) ==
  <<va>> \o [i \in 1 .. (IF mm.kernel = << >> THEN TABLES ELSE 0) |-> "table"]

\* How many pages copy_virt_memory takes for a copy of mm.
CopySize(mm) == Len(mm.user) + (IF mm.user = << >> THEN 0 ELSE TABLES)

\* copy_virt_memory with the pages it gets, in order: the first user page,
\* then the tables that map it, then the other user pages.
copy_virt_memory(mm, fresh) ==
  [user |-> [i \in DOMAIN mm.user |->
               [mm.user[i] EXCEPT !.page =
                  fresh[IF i = 1 THEN 1 ELSE TABLES + i]]],
   kernel |-> IF mm.user = << >> THEN << >> ELSE SubSeq(fresh, 2, TABLES + 1)]

UserPages(mm) == [i \in DOMAIN mm.user |-> mm.user[i].page]

\* Mutated form: the page tables are not given back.
Returned_UserOnly(mm) == ToSet(UserPages(mm))

\* What the two loops of exit_process free: kernel_pages[0 .. count - 1], of
\* which entry 0 holds no page, and every user page.
Returned(mm) ==
  ToSet(SubSeq(mm.kernel, 1, Len(mm.kernel) - 1)) \cup ToSet(UserPages(mm))
=============================================================================
