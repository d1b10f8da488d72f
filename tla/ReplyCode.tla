------------------------------ MODULE ReplyCode ------------------------------
(***************************************************************************)
(* The text of a reply code, as Response::has_code of both Response types *)
(* compares it: the code written digit by digit against the decimal text  *)
(* of a number.                                                            *)
(***************************************************************************)
EXTENDS Integers, Sequences

\* Display for Code: severity, category and detail, one digit each.
CodeDigits(code) == <<code \div 100, (code \div 10) % 10, code % 10>>

\* The decimal digits u16::to_string (or format!("{}", n)) writes for n.
RECURSIVE DecimalDigits(_)
DecimalDigits(n) == IF n < 10 THEN <<n>> ELSE Append(DecimalDigits(n \div 10), n % 10)

=============================================================================
