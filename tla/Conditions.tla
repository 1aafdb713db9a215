----------------------------- MODULE Conditions -----------------------------
(***************************************************************************)
(* The tests of [[ ]] and [ ]: src/core/bash_condition.cpp.  The answers   *)
(* of the operating system are a record for a path, [link, info]: link     *)
(* tells whether lstat finds a symbolic link, info is what stat and access *)
(* find, Missing when stat fails.                                          *)
(***************************************************************************)
EXTENDS Exceptions, Integers

CONSTANTS
    Missing,              \* stat fails: no file, or a link to none
    NotANumber            \* eval_arithmetic throws bad_lexical_cast

FileTypes == {"b", "c", "d", "f", "p", "S"}

\* mode and access are sets of the operators they answer with true.
Info == [type : FileTypes, mode : SUBSET {"g", "k", "u"}, access : SUBSET {"r", "w", "x"},
         size : Nat, mine : SUBSET {"O", "G"}, mtime : Nat, atime : Nat, inode : Nat]

ASSUME MissingIsNoInfo == Missing \notin Info

\* test_file_stat: only -L and -h say something of a path that stat does not
\* find, even an operator that does not exist is false there.
test_file_stat(op, file) ==
    IF op \in {"L", "h"} THEN file.link
    ELSE IF file.info = Missing THEN FALSE
    ELSE CASE op \in {"a", "e"} -> TRUE
           [] op \in FileTypes -> op = file.info.type
           [] op \in {"g", "k", "u"} -> op \in file.info.mode
           [] op \in {"r", "w", "x"} -> op \in file.info.access
           [] op = "s" -> file.info.size > 0
           [] op \in {"O", "G"} -> op \in file.info.mine
           [] op = "N" -> file.info.mtime >= file.info.atime
           [] OTHER -> InterpreterException

\* test_unary.  word: the operand is not empty; tty: it is the number of a
\* terminal; file: what the system says of it as a path.
test_unary(op, word, tty, file) ==
    CASE op = "z" -> ~word
      [] op = "n" -> word
      [] op = "o" -> InterpreterException
      [] op = "t" -> tty
      [] OTHER -> test_file_stat(op, file)

\* The status of stat: 0, or -1.
stat_status(info) == IF info = Missing THEN -1 ELSE 0

\* Mutant: a file is compared with the times of one that is missing as 0.
file_comp_BothNeeded(op, lst, rst) ==
    IF stat_status(lst) < 0 \/ stat_status(rst) < 0 THEN FALSE
    ELSE CASE op = "nt" -> lst.mtime > rst.mtime
           [] op = "ot" -> lst.mtime < rst.mtime
           [] op = "ef" -> lst.inode = rst.inode

\* file_comp: -nt, -ot and -ef; inode stands for device and inode.
file_comp(op, lst, rst) ==
    CASE op = "nt" -> \/ stat_status(lst) > stat_status(rst)
                      \/ stat_status(lst) = 0 /\ lst.mtime > rst.mtime
      [] op = "ot" -> \/ stat_status(lst) < stat_status(rst)
                      \/ stat_status(rst) = 0 /\ lst.mtime < rst.mtime
      [] op = "ef" -> stat_status(lst) = 0 /\ stat_status(rst) = 0 /\ lst.inode = rst.inode

\* test_binary for numbers: an operand that cannot be read makes any of them
\* false, -ne as well.
number_comp(op, lhs, rhs) ==
    IF NotANumber \in {lhs, rhs} THEN FALSE
    ELSE CASE op = "eq" -> lhs = rhs
           [] op = "ne" -> lhs # rhs
           [] op = "lt" -> lhs < rhs
           [] op = "le" -> lhs <= rhs
           [] op = "gt" -> lhs > rhs
           [] op = "ge" -> lhs >= rhs

\* test_binary; numbers and files are what the operands are as such.
test_binary(op, lhs, rhs) ==
    IF op \in {"nt", "ot", "ef"} THEN file_comp(op, lhs.info, rhs.info)
    ELSE IF op \in {"eq", "ne", "lt", "le", "gt", "ge"} THEN number_comp(op, lhs.number, rhs.number)
    ELSE InterpreterException
=============================================================================
