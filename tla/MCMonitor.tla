----------------------------- MODULE MCMonitor -----------------------------
(***************************************************************************)
(* Monitor for TLC: all sessions run in one directory.  One of them, first, *)
(* has a status file and successive proxies; the others only have windows, *)
(* which is what sessions share.                                           *)
(***************************************************************************)
EXTENDS Monitor

CONSTANTS first, FirstLevels

MCDirOf    == [s \in Sessions |-> "proj"]
MCLevelsOf == [s \in Sessions |-> IF s = first THEN FirstLevels ELSE {}]
MCMaxInc   == [s \in Sessions |-> IF s = first THEN 2 ELSE 1]
=============================================================================
