----------------------------- MODULE MCModuleInit -----------------------------
(* Small instances of ModuleInit.                                            *)
EXTENDS ModuleInit
=============================================================================
