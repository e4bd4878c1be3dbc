------------------------------- MODULE Paging -------------------------------
(***************************************************************************)
(* PaginateQueryFilter: the page a request asks for, and the metadata that *)
(* tell its client which pages there are.                                  *)
(***************************************************************************)
EXTENDS Integers, Sequences, FiniteSetsExt

CONSTANT MaxPageSize

\* The elements of S in the order R, a set of pairs <<x, y>> with x before y.
Rank(x, S, R)     == Cardinality({y \in S : <<y, x>> \in R})
Enumeration(S, R) == [k \in 1..Cardinality(S) |-> CHOOSE x \in S : Rank(x, S, R) = k - 1]

\* A filter is [page, size, sort]; the sort is one of the safelist.
Sorts == {"created_at", "-created_at"}

PermittedValue(sort) == sort \in Sorts

\* Parse refuses only what the tags of the struct exclude.  A page that is no
\* number or a sort outside the safelist is noted as an error too, but Struct
\* drops what was noted before when the tags hold: the default is served.
Accepts(asked) == asked.page >= 1 /\ asked.size \in 1..MaxPageSize
Parsed(asked)  == [asked EXCEPT !.sort = IF PermittedValue(@) THEN @ ELSE "created_at"]

Descending(q) == q.sort = "-created_at"

\* Mutant: page 1 is taken for the second.
OffsetFromZero(q) == q.page * q.size

Offset(q) == (q.page - 1) * q.size
Limit(q)  == q.size

PageOf(rows, q) == SubSeq(rows, Offset(q) + 1, Min({Offset(q) + Limit(q), Len(rows)}))

\* Mutant: the last page only counts when it is full.
FullPages(total, size) == total \div size

LastPage(total, size) == (total + size - 1) \div size

calculateMetadata(total, q) ==
  IF total = 0 THEN [page |-> 0, last |-> 0]
  ELSE [page |-> q.page, last |-> LastPage(total, q.size)]

\* count(...) OVER () stands on the rows of the page: without rows no count.
Counted(rows, q) ==
  LET page == PageOf(rows, q)
  IN [rows |-> page, metadata |-> calculateMetadata(IF page = <<>> THEN 0 ELSE Len(rows), q)]
=============================================================================
