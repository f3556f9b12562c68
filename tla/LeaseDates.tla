----------------------------- MODULE LeaseDates -----------------------------
(***************************************************************************)
(* The date arithmetic of app/services/leases.py.  A range is inclusive at *)
(* both ends; an end of None means that the lease runs on.  Dates are      *)
(* integers, as the difference of two dates is all the code looks at.      *)
(***************************************************************************)
EXTENDS Integers

CONSTANT None

ASSUME NoneIsNoDate == None \notin Int

\* LeaseCreate.validate_date_range: what a request may ask for.
DateRange(Days) ==
  {r \in [starts : Days, ends : Days \cup {None}] : r.ends = None \/ r.starts <= r.ends}

date_ranges_overlap(first_start, first_end, second_start, second_end) ==
  /\ first_end = None \/ second_start <= first_end
  /\ second_end = None \/ first_start <= second_end

\* The date conditions of the WHERE clause of overlapping_lease_query, on a row
\* of the lease table and a request; the second one is added only for a
\* request that has an end.
query_matches_ended_only(row, starts_on, ends_on) ==
  /\ row.ends # None /\ row.ends >= starts_on
  /\ ends_on # None => row.starts <= ends_on
query_matches(row, starts_on, ends_on) ==
  /\ row.ends = None \/ row.ends >= starts_on
  /\ ends_on # None => row.starts <= ends_on

\* Reference: the days a range covers, the ranges that share one.
Covers(r, day) == r.starts <= day /\ (r.ends = None \/ day <= r.ends)
ShareADay(a, b, Days) == \E day \in Days : Covers(a, day) /\ Covers(b, day)
=============================================================================
