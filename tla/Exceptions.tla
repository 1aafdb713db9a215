----------------------------- MODULE Exceptions -----------------------------
(***************************************************************************)
(* The two classes of C++ exceptions that the callers of libbash tell      *)
(* apart (src/include/exceptions.h, src/src/builtins/builtin_exceptions.h) *)
(***************************************************************************)

CONSTANTS
    None,                 \* no exception; also a null pointer to a variable
    InterpreterException, \* libbash::interpreter_exception and its subclasses
    OtherException        \* flow control, suppress_output, Boost, a crash

ASSUME ExceptionsAssumption ==
    /\ None # InterpreterException
    /\ None # OtherException
    /\ InterpreterException # OtherException
=============================================================================
