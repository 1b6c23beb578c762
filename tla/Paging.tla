------------------------------- MODULE Paging -------------------------------
(***************************************************************************)
(* The page arithmetic of internal/domain/pagination.go, behind every list *)
(* of the API: the rows of a query, in their stable order, are numbered    *)
(* from 1, and a page is LIMIT page_size OFFSET (page - 1) * page_size.    *)
(*                                                                         *)
(* Page and size are ints as the client sends them: from -half to half - 1,*)
(* where half is 2^63 on the platforms the program is built for.           *)
(***************************************************************************)
EXTENDS Integers

MaxPageSize == 100

\* Normalize, for page and page_size; a sort field or an order that is not
\* allowed is refused.
NormalPage(page) == IF page <= 0 THEN 1 ELSE page

NormalSize(size) ==
    IF size <= 0 THEN 20 ELSE IF size > MaxPageSize THEN MaxPageSize ELSE size

\* An int of Go wraps around.
Wrap(n, half) == ((n + half) % (2 * half)) - half

Offset(page, size, half) == Wrap((page - 1) * size, half)

\* LIMIT size OFFSET o; SQLite takes a negative offset for 0.
PageRows(total, page, size, half) ==
    LET o == Offset(page, size, half)
        first == IF o < 0 THEN 0 ELSE o
    IN  {row \in 1..total : first < row /\ row <= first + size}
=============================================================================
