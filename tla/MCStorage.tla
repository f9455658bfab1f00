------------------------------ MODULE MCStorage ------------------------------
(***************************************************************************)
(* Small instances of three parts of the control server that share         *)
(* nothing: the limits on posted traces, the files of the database and the *)
(* spool of the sandboxed execution.  A behaviour is one of a single part; *)
(* the other two stay as they begin.                                       *)
(***************************************************************************)
EXTENDS RequestLimits, TLC

CONSTANTS
  Jobs, Workers, Nobody, Crashes, GivesUp,
  Tools, Overwrites, MaxCommits, MaxBackups, MaxRestores, MaxStops, MaxPowerLosses,
  id1, id2, id3

ASSUME SpoolAssumption == Nobody \notin Jobs
ASSUME FilesAssumption == MaxCommits \in Nat /\ MaxRestores \in Nat /\ Overwrites \subseteq BOOLEAN

VARIABLES part, spool, client, worker, starts, dir, disk, server, tool, last, expect, spent

Spool == INSTANCE ExecutionSpool WITH None <- Nobody, dir <- spool
Files == INSTANCE DatabaseFiles WITH used <- spent

spooling == <<spool, client, worker, starts>>
database == <<dir, disk, server, tool, last, expect, spent>>

OneLegacy == id1 :> 1
Symmetry == Permutations(Threads)

MCInit == part \in {"limits", "spool", "files"} /\ Init /\ Spool!Init /\ Files!Init

Limits == part = "limits" /\ Next /\ UNCHANGED <<part, spooling, database>>
Spools == part = "spool" /\ Spool!Next /\ UNCHANGED <<part, vars, database>>
Databases == part = "files" /\ Files!Next /\ UNCHANGED <<part, vars, spooling>>

MCSpec == MCInit /\ [][Limits \/ Spools \/ Databases]_<<part, vars, spooling, database>>

(* No command runs twice while somebody waits for it, no torn answer is    *)
(* read, and what is left in the spool cannot run (ExecutionSpool).        *)
SpoolInv == Spool!SpoolInv

(* Whatever is interrupted, the database reads as its last commit or as    *)
(* the backup; copies that have a name are whole, and one of what a        *)
(* restore replaces is durable before it does, as is a backup before it is *)
(* reported (DatabaseFiles).                                               *)
FilesInv == Files!FilesInv
=============================================================================
