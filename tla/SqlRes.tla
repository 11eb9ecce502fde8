------------------------------- MODULE SqlRes -------------------------------
(***************************************************************************)
(* The class SqlRes of MySql.h and MySql.cpp: the result of a select, as   *)
(* rows that a cursor goes through.                                        *)
(*                                                                         *)
(* What MySQL returns is a record of the names of the fields and the rows, *)
(* each a sequence with one column per field.                              *)
(***************************************************************************)
EXTENDS Integers, Sequences

NULL == "NULL"      \* an SQL NULL, as a column

(* No SqlRes, and one whose cursor is at its first row.                    *)
NoRes == [is_prepare |-> FALSE, data |-> <<>>, it |-> 0]
ResOf(rows) == [is_prepare |-> TRUE, data |-> rows, it |-> 1]

(* A view of a column, up to its first zero, of which the texts of this    *)
(* program have none; that of a NULL is empty.                             *)
View(column) == IF column = NULL THEN "" ELSE column

(* map::insert keeps the first column of a name.                           *)
RowRes(fields, row) ==
    [name \in {fields[i] : i \in DOMAIN fields} |->
        View(row[CHOOSE i \in DOMAIN fields :
                    /\ fields[i] = name
                    /\ \A j \in 1..(i - 1) : fields[j] # name])]

prepare(result) ==
    ResOf([n \in DOMAIN result.rows |-> RowRes(result.fields, result.rows[n])])

get_num_row(res) == Len(res.data)

(* What the next n calls of get_cur_row return.                            *)
CurRows(res, n) == SubSeq(res.data, res.it, res.it + n - 1)
=============================================================================
