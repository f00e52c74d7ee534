----------------------------- MODULE SqlLogic ------------------------------
(* The three-valued logic of SQL conditions, as SQLAlchemy clauses of the  *)
(* repositories are evaluated: a comparison with NULL is "null", and WHERE *)
(* or FILTER selects a row only when its condition is "true".              *)

Sql(b) == IF b THEN "true" ELSE "false"
SqlNot(x) == CASE x = "true" -> "false" [] x = "false" -> "true" [] OTHER -> "null"
SqlAnd(xs) == IF "false" \in xs THEN "false" ELSE IF "null" \in xs THEN "null" ELSE "true"
SqlOr(xs) == IF "true" \in xs THEN "true" ELSE IF "null" \in xs THEN "null" ELSE "false"
=============================================================================
