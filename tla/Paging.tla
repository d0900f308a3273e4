------------------------------- MODULE Paging -------------------------------
(***************************************************************************)
(* The paging of the Go services (lib/mysql/mysql.go): how the options and *)
(* the filter of a list request select rows, and how they are rewritten    *)
(* into the next_request that the response hands back.                     *)
(*                                                                         *)
(* A request is one record: page, size and order_by of its CommonOption,   *)
(* the rest of its CommonFilter.  A column that is not named is "", a time *)
(* that is not set is None; times are whole seconds.  group_by and the     *)
(* keyword are left out.                                                   *)
(***************************************************************************)
EXTENDS Integers, FiniteSets

CONSTANTS Ids,          \* the ids of the rows
          DefaultSize,  \* defaultSize
          Duration,     \* defaultDuration
          None          \* a time that is not set, or no row

ASSUME PagingAssumption ==
    /\ IsFiniteSet(Ids)
    /\ DefaultSize \in Nat \ {0}
    /\ Duration \in Nat \ {0}
    /\ None \notin Int

Columns == {"create_at", "update_at"}

smaller(a, b) == IF a <= b THEN a ELSE b

(* CreateQueryConditon writes the page and the size it uses back into the  *)
(* request ("page should equal to 1 when ExcludeIds is not empty").        *)
Normalized(r) ==
    [r EXCEPT !.page = IF @ = 0 \/ r.exclude_ids # {} \/ r.include_ids # {} THEN 1 ELSE @,
              !.size = IF @ = 0 THEN DefaultSize ELSE @]

(* The rows of table t that the filter of r lets through. *)
InWindow(t, r, i) ==
    r.column_name # "" =>
        /\ r.high_time # None => t[i][r.column_name] <= r.high_time
        /\ r.low_time # None => t[i][r.column_name] > r.low_time

Matching(t, r) ==
    {i \in Ids : /\ t[i] # None
                 /\ InWindow(t, r, i)
                 /\ i \notin r.exclude_ids
                 /\ r.include_ids # {} => i \in r.include_ids}

(* Mutant of Skipped: pages are counted from zero. *)
SkippedFromZero(r) == r.page * r.size

(* The number of rows before the page. *)
Skipped(r) == (r.page - 1) * r.size

(* The results the query of r can have.  order_by sorts in descending      *)
(* order; MySQL leaves the order of equal rows, or of all, open.           *)
Ahead(t, r, A, B) ==
    r.order_by # "" => \A a \in A, b \in B : t[a][r.order_by] >= t[b][r.order_by]

Pages(t, r) ==
    LET S == Matching(t, r)
    IN  {P \in SUBSET S : \E Q \in SUBSET (S \ P) :
            /\ Cardinality(Q) = smaller(Skipped(r), Cardinality(S))
            /\ Cardinality(P) = smaller(r.size, Cardinality(S) - Cardinality(Q))
            /\ Ahead(t, r, Q, P)
            /\ Ahead(t, r, P, S \ (P \cup Q))}

(* The highest and the lowest of a non-empty set of times. *)
Highest(T) == CHOOSE h \in T : \A u \in T : u <= h
Lowest(T)  == CHOOSE l \in T : \A u \in T : l <= u

(* The times of a page.  idToTime is empty for any column but the two. *)
Times(t, r, P) ==
    IF r.column_name \in Columns THEN {t[i][r.column_name] : i \in P} ELSE {}

(* Mutants of NextCommonFilter: low_time is cleared before it is used; the *)
(* times are excluded in place of the ids.                                 *)
NextCommonFilterCleared(t, r, P) ==
    LET T == Times(t, r, P)
    IN  IF T = {} THEN [r EXCEPT !.high_time = None, !.low_time = None]
        ELSE [r EXCEPT !.high_time = Highest(T),
                       !.low_time = Lowest(T) - (Highest(T) - Lowest(T)) - Duration,
                       !.exclude_ids = {i \in P : t[i][r.column_name] = Lowest(T)}]

NextCommonFilterTimes(t, r, P) ==
    LET T == Times(t, r, P)
    IN  IF T = {} THEN [r EXCEPT !.high_time = r.low_time, !.low_time = None]
        ELSE [r EXCEPT !.high_time = Highest(T),
                       !.low_time = Lowest(T) - (Highest(T) - Lowest(T)) - Duration,
                       !.exclude_ids = {Lowest(T)}]

(* NextCommonFilter, for page P of table t.  After a page without times    *)
(* the ids stay excluded.                                                  *)
NextCommonFilter(t, r, P) ==
    LET T == Times(t, r, P)
    IN  IF T = {} THEN [r EXCEPT !.high_time = r.low_time, !.low_time = None]
        ELSE [r EXCEPT !.high_time = Highest(T),
                       !.low_time = Lowest(T) - (Highest(T) - Lowest(T)) - Duration,
                       !.exclude_ids = {i \in P : t[i][r.column_name] = Lowest(T)}]

(* NextCommonOption: the page after this one. *)
NextCommonOption(r) == [r EXCEPT !.page = @ + 1]
=============================================================================
