------------------------------ MODULE MCFacade ------------------------------
(* Small instances of the facade for TLC.                                    *)
EXTENDS Facade

CONSTANTS t1, t2  \* callers
=============================================================================
