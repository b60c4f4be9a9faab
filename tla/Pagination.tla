------------------------------ MODULE Pagination ------------------------------
(***************************************************************************)
(* The arithmetic of a paginated list: app/http/pagination.py and the page *)
(* SELECT of UserRepository.list.  Rows are numbered by their created_at,  *)
(* the youngest has the highest number and comes first.                    *)
(***************************************************************************)
EXTENDS Integers, FiniteSets

CONSTANT PageSize

\* Query(20, ge=1, le=100).
ASSUME PageSizeAssumption == PageSize \in 1..100

\* Page.build: pages.
TotalPages(total) == (total + PageSize - 1) \div PageSize

\* Mutant: the division rounds down.
HasNextRoundedDown(page, total) == page < total \div PageSize

\* to_pagination.
HasNext(page, total) == page < TotalPages(total)

\* Mutant: the oldest come first.
RankOldestFirst(rows, u) == Cardinality({v \in rows : v <= u})

\* The place of a row in ORDER BY created_at DESC.
Rank(rows, u) == Cardinality({v \in rows : v >= u})

\* LIMIT page_size OFFSET (page - 1) * page_size.
Page(rows, page) ==
  {u \in rows : (page - 1) * PageSize < Rank(rows, u) /\ Rank(rows, u) <= page * PageSize}
==============================================================================
