--------------------------- MODULE ListController ---------------------------
(***************************************************************************)
(* The state of a management list and what a load does to it               *)
(* (frontend/packages/ui/src/list.ts, createListController).  The pages    *)
(* that own a list use these operators in their actions.                   *)
(*                                                                         *)
(* A query is a filter (which stands for filters, page size and sort) and  *)
(* a page.  Rows are named by the query that was asked for and the number  *)
(* of writes the server had seen when it answered.  Of `requestSequence`   *)
(* only one thing is ever asked: whether a newer load has begun; a load    *)
(* under way keeps that as `newest`, so that no counter is needed.  Two    *)
(* superseded loads that are alike are one load.                           *)
(***************************************************************************)
EXTENDS Naturals, FiniteSets

CONSTANTS Filter,        \* filters, page size and sort, taken together
          NoFilter,      \* initialFilters
          Page,          \* page numbers
          MaxWrites      \* bound: writes the server accepts

ASSUME QueriesAreNamed == NoFilter \in Filter /\ 1 \in Page /\ Page \subseteq Nat
ASSUME WritesAreBounded == MaxWrites \in Nat

Query      == [filter : Filter, page : Page]
FirstQuery == [filter |-> NoFilter, page |-> 1]

(* No rows at all are rows of version 0; the server starts at version 1. *)
Rows   == [query : Query, version : 0 .. MaxWrites + 1]
NoRows == [query |-> FirstQuery, version |-> 0]

List == [query : Query, rows : Rows, selected : BOOLEAN, loading : BOOLEAN]
EmptyList == [query |-> FirstQuery, rows |-> NoRows, selected |-> FALSE, loading |-> FALSE]

(* What the commands ask for: the filter or the page of the list as it is  *)
(* shown now, not as a load under way would make it.                       *)
Refreshed(list)    == list.query
Searched(filter)   == [filter |-> filter, page |-> 1]
Turned(list, page) == [list.query EXCEPT !.page = page]

(* `execute` up to its await, and when `validate` throws. *)
Begun(list)   == [list EXCEPT !.loading = TRUE]
Refused(list) == [list EXCEPT !.loading = FALSE]

(* `execute` after its await: the newest load decides, others are dropped. *)
ShownAny(list, load, rows) ==       \* mutant: applies every answer
  [list EXCEPT !.query = load.query, !.rows = rows, !.loading = FALSE,
               !.selected = @ /\ ~load.clears]
Shown(list, load, rows) ==
  IF load.newest
  THEN [list EXCEPT !.query = load.query, !.rows = rows, !.loading = FALSE,
                    !.selected = @ /\ ~load.clears]
  ELSE list

Dropped(list, load) == IF load.newest THEN [list EXCEPT !.loading = FALSE] ELSE list

(* A load that begins makes every other one a replaced one. *)
Replaced(loads) == {[l EXCEPT !.newest = FALSE] : l \in loads}
=============================================================================
