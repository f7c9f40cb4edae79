------------------------------ MODULE MCSpool ------------------------------
(* Model of Spool for TLC: the constants are given in the MCSpool*.cfg.    *)
EXTENDS Spool

(* All variables but dlq: which old dead-letter files are left decides     *)
(* nothing, so that states that differ in it only are explored once.       *)
View == <<now, plain, gz, lines, synced, offsetFile, up, writerVars, readerVars, janitorVars,
          historyVars>>
=============================================================================
