---------------------------- MODULE DatabaseFiles ----------------------------
(***************************************************************************)
(* Backup and restore of the database, on a file system that may lose      *)
(* power: what a process sees of a directory (dir) and what is on the disk *)
(* (disk) differ until the directory is synced, and a file that was not    *)
(* synced comes back torn.                                                 *)
(*                                                                         *)
(* A database is its main file and, beside it, a write-ahead log, which    *)
(* holds the commits that the main file does not.  A log is only good for  *)
(* the main file it was written for.  The content of a database is the     *)
(* number of its last commit.  The id of a file says which main file it    *)
(* is, or belongs to; it matters for the log only.                         *)
(***************************************************************************)
EXTENDS Naturals, FiniteSets

CONSTANTS
  Tools,        \* processes of the command line
  Overwrites,   \* whether backups may overwrite: a subset of BOOLEAN
  MaxCommits, MaxBackups, MaxRestores, MaxStops, MaxPowerLosses   \* bounds

VARIABLES
  dir, disk,   \* the files by name, as seen and as durable
  server,      \* "up" or "down"
  tool,        \* what each process does, with its temporary files
  last,        \* number of the last commit
  expect,      \* what the database may contain
  used         \* how often each bounded action happened

files == <<dir, disk>>
vars == <<dir, disk, server, tool, last, expect, used>>

None == [ver |-> 0, id |-> 0, synced |-> TRUE]
Torn == 0
Safety(n) == <<"safety", n>>
Data == {<<"db", 0>>, <<"wal", 0>>} \cup {Safety(n) : n \in 1..MaxRestores}
Backups == {<<"backup", 0>>}
db == <<"db", 0>>
wal == <<"wal", 0>>
backup == <<"backup", 0>>

(* What opening the database would read.                                   *)
Content ==
  IF dir[wal] = None THEN dir[db].ver
  ELSE IF dir[wal].id = dir[db].id THEN dir[wal].ver ELSE Torn

Idle == [pc |-> "idle", overwrite |-> FALSE, tmp |-> 0, synced |-> FALSE, copy |-> 0, n |-> 0, floor |-> 0, prior |-> 0]

Init ==
  /\ dir = [name \in Data \cup Backups |-> IF name = db THEN [ver |-> 1, id |-> 1, synced |-> TRUE] ELSE None]
  /\ disk = dir /\ server = "up" /\ last = 1 /\ expect = {1}
  /\ tool = [p \in Tools |-> Idle]
  /\ used = [commits |-> 0, backups |-> 0, restores |-> 0, stops |-> 0, losses |-> 0, reports |-> 0]

Count(what) == used' = [used EXCEPT ![what] = @ + 1]
Sync(names) == [name \in DOMAIN dir |-> IF name \in names THEN dir'[name] ELSE disk[name]]
Restoring(p) == tool[p].n > 0
Go(p, label) == tool' = [tool EXCEPT ![p].pc = label]

-----------------------------------------------------------------------------
(* The server and its database library.                                    *)

(* A commit is appended to the log and synced; a new log is synced with    *)
(* its directory.                                                          *)
Commit ==
  /\ server = "up" /\ dir[db] # None /\ Content # Torn /\ used.commits < MaxCommits
  /\ last' = last + 1 /\ expect' = {last + 1} /\ Count("commits")
  /\ dir' = [dir EXCEPT ![wal] = [ver |-> last + 1, id |-> dir[db].id, synced |-> TRUE]]
  /\ disk' = Sync(IF dir[wal] = None THEN Data ELSE {wal})
  /\ UNCHANGED <<server, tool>>

(* The main file takes over the log, which is removed.                     *)
Bug_Checkpointed == [dir EXCEPT ![db].ver = dir[wal].ver, ![wal] = None]
Checkpointed == [dir EXCEPT ![db].ver = Content, ![wal] = None]
Checkpoint ==
  /\ server = "up" /\ dir[wal] # None /\ Content # Torn
  /\ dir' = Checkpointed
  /\ disk' = [disk EXCEPT ![db] = IF @.id = dir[db].id THEN dir'[db] ELSE @]
  /\ UNCHANGED <<server, tool, last, expect, used>>

Stop == server = "up" /\ used.stops < MaxStops /\ server' = "down" /\ Count("stops")
        /\ UNCHANGED <<files, tool, last, expect>>

(* The operator starts the server when no restore is running.              *)
Start ==
  /\ server = "down" /\ \A p \in Tools : ~Restoring(p)
  /\ server' = "up"
  /\ UNCHANGED <<files, tool, last, expect, used>>

(* The main file is lost, a log may remain.                                *)
LoseMain ==
  /\ server = "down" /\ used.stops < MaxStops /\ dir[db] # None /\ \A p \in Tools : tool[p].pc = "idle"
  /\ dir' = [dir EXCEPT ![db] = None] /\ disk' = [disk EXCEPT ![db] = None]
  /\ expect' = {} /\ Count("stops")
  /\ UNCHANGED <<server, tool, last>>

-----------------------------------------------------------------------------
(* backup_database()                                                       *)

BeginBackup(p) ==
  /\ tool[p].pc = "idle" /\ used.backups < MaxBackups /\ dir[db] # None
  /\ \E overwrite \in Overwrites :
       /\ overwrite \/ dir[backup] = None
       /\ tool' = [tool EXCEPT ![p].pc = "copy", ![p].overwrite = overwrite,
                               ![p].floor = IF Content = Torn THEN 0 ELSE Content]
  /\ Count("backups")
  /\ UNCHANGED <<files, server, last, expect>>

(* _copy_database(), from the database that is open or from the backup,    *)
(* with its two integrity checks.                                          *)
Bug_Source(p) == IF Restoring(p) THEN dir[backup].ver ELSE dir[db].ver
Source(p) == IF Restoring(p) THEN dir[backup].ver ELSE Content

Copy(p) ==
  /\ tool[p].pc = "copy" /\ Source(p) # Torn
  /\ tool' = [tool EXCEPT ![p].tmp = Source(p), ![p].synced = FALSE,
                          ![p].pc = IF ~Restoring(p) \/ dir[db] = None THEN "sync" ELSE "safety"]
  /\ UNCHANGED <<files, server, last, expect, used>>

Bug_Fsync(p) == Go(p, IF Restoring(p) THEN "checkpoint" ELSE "publish")
Fsync(p) ==
  tool' = [tool EXCEPT ![p].synced = TRUE, ![p].pc = IF Restoring(p) THEN "checkpoint" ELSE "publish"]

FsyncFile(p) ==
  /\ tool[p].pc = "sync" /\ Fsync(p)
  /\ UNCHANGED <<files, server, last, expect, used>>

(* _publish_database(): replace, or link if there is none.                 *)
MayPublish(p) == tool[p].overwrite \/ dir[backup] = None

Publish(p) ==
  /\ tool[p].pc = "publish" /\ MayPublish(p)
  /\ dir' = [dir EXCEPT ![backup] = [ver |-> tool[p].tmp, id |-> 1, synced |-> tool[p].synced]]
  /\ Go(p, "publishsync")
  /\ UNCHANGED <<disk, server, last, expect, used>>

(* Its directory is synced before a backup is reported.                    *)
BackupDone(p) ==
  /\ tool[p].pc = "publishsync"
  /\ UNCHANGED dir /\ disk' = Sync(Backups)
  /\ tool' = [tool EXCEPT ![p] = Idle] /\ Count("reports")
  /\ UNCHANGED <<server, last, expect>>

-----------------------------------------------------------------------------
(* restore_database()                                                      *)

BeginRestore(p) ==
  /\ tool[p].pc = "idle" /\ server = "down" /\ used.restores < MaxRestores
  /\ \A q \in Tools : ~Restoring(q)
  /\ dir[backup] # None /\ dir[backup].ver # Torn
  /\ Count("restores")
  /\ tool' = [tool EXCEPT ![p].pc = "copy", ![p].n = used.restores + 1,
                          ![p].prior = IF dir[db] = None THEN 0 ELSE Content]
  /\ UNCHANGED <<files, server, last, expect>>

CopySafety(p) ==
  /\ tool[p].pc = "safety" /\ Content # Torn
  /\ tool' = [tool EXCEPT ![p].copy = Content, ![p].pc = "link"]
  /\ UNCHANGED <<files, server, last, expect, used>>

(* The copy is synced and linked, and then its directory is synced.        *)
LinkSafety(p) ==
  /\ tool[p].pc = "link" /\ dir[Safety(tool[p].n)] = None
  /\ dir' = [dir EXCEPT ![Safety(tool[p].n)] = [ver |-> tool[p].copy, id |-> 1, synced |-> TRUE]]
  /\ Go(p, "linksync")
  /\ UNCHANGED <<disk, server, last, expect, used>>

Bug_SyncDir(p, next) == UNCHANGED files /\ Go(p, next)
SyncDir(p, next) == UNCHANGED dir /\ disk' = Sync(Data) /\ Go(p, next)

SafetyDone(p) ==
  /\ tool[p].pc = "linksync" /\ SyncDir(p, "sync")
  /\ UNCHANGED <<server, last, expect, used>>

(* _checkpoint_and_remove_sidecars()                                       *)
CheckpointCurrent(p) ==
  /\ tool[p].pc = "checkpoint"
  /\ IF dir[db] = None THEN UNCHANGED files
     ELSE /\ dir' = Checkpointed
          /\ disk' = [disk EXCEPT ![db] = IF @.id = dir[db].id THEN dir'[db] ELSE @]
  /\ Go(p, "unlink")
  /\ UNCHANGED <<server, last, expect, used>>

Bug_Unlinked == dir
Unlinked == [dir EXCEPT ![wal] = None]

RemoveSidecars(p) ==
  /\ tool[p].pc = "unlink"
  /\ dir' = Unlinked /\ Go(p, "unlinksync")
  /\ UNCHANGED <<disk, server, last, expect, used>>

SidecarsDone(p) ==
  /\ tool[p].pc = "unlinksync" /\ SyncDir(p, "replace")
  /\ UNCHANGED <<server, last, expect, used>>

Replace(p) ==
  /\ tool[p].pc = "replace"
  /\ dir' = [dir EXCEPT ![db] = [ver |-> tool[p].tmp, id |-> tool[p].n + 1, synced |-> tool[p].synced]]
  /\ expect' = expect \cup {tool[p].tmp}
  /\ Go(p, "replacesync")
  /\ UNCHANGED <<disk, server, last, used>>

RestoreDone(p) ==
  /\ tool[p].pc = "replacesync"
  /\ SyncDir(p, "verify")
  /\ expect' = {tool[p].tmp}
  /\ UNCHANGED <<server, last, used>>

Verify(p) ==
  /\ tool[p].pc = "verify" /\ tool' = [tool EXCEPT ![p] = Idle]
  /\ UNCHANGED <<files, server, last, expect, used>>

-----------------------------------------------------------------------------
(* An exception or a kill ends a tool at any step; a loss of power ends    *)
(* everything and keeps of each name what was seen or what was durable.    *)

Abort(p) ==
  /\ tool[p].pc # "idle" /\ tool' = [tool EXCEPT ![p] = Idle]
  /\ UNCHANGED <<files, server, last, expect, used>>

PowerLoss ==
  /\ used.losses < MaxPowerLosses /\ Count("losses")
  /\ \E kept \in SUBSET {name \in DOMAIN dir : dir[name] # disk[name]} :
       dir' = [name \in DOMAIN dir |->
                 LET file == IF name \in kept THEN dir[name] ELSE disk[name]
                 IN  IF file.synced THEN file ELSE [file EXCEPT !.ver = Torn, !.synced = TRUE]]
  /\ disk' = dir'
  /\ server' = "down" /\ tool' = [p \in Tools |-> Idle]
  /\ UNCHANGED <<last, expect>>

Step(p) ==
  \/ BeginBackup(p) \/ Copy(p) \/ FsyncFile(p) \/ Publish(p) \/ BackupDone(p)
  \/ BeginRestore(p) \/ CopySafety(p) \/ LinkSafety(p) \/ SafetyDone(p)
  \/ CheckpointCurrent(p) \/ RemoveSidecars(p) \/ SidecarsDone(p) \/ Replace(p) \/ RestoreDone(p) \/ Verify(p)
  \/ Abort(p)

Next == Commit \/ Checkpoint \/ Stop \/ Start \/ LoseMain \/ PowerLoss \/ \E p \in Tools : Step(p)

Spec == Init /\ [][Next]_vars

-----------------------------------------------------------------------------
File == [ver : 0..(MaxCommits + 1), id : 0..(MaxRestores + 1), synced : BOOLEAN]

(* Every variable has its type.                                            *)
TypeOK ==
  /\ dir \in [Data \cup Backups -> File] /\ disk \in [Data \cup Backups -> File]
  /\ dir[db] = None \/ dir[db].ver \in 1..last
  /\ server \in {"up", "down"} /\ last \in 1..(MaxCommits + 1) /\ expect \subseteq 1..last
  /\ \A p \in Tools : tool[p].tmp \in 0..last /\ tool[p].n \in 0..used.restores

(* Whatever is interrupted, the database reads as its last commit, or, from *)
(* the moment it is replaced, as the backup.                               *)
ReadsBack == dir[db] # None => Content \in expect

(* A backup or a safety copy that has its name is whole.                   *)
PublishedIsWhole == \A name \in DOMAIN dir \ {db, wal} : dir[name] # None => dir[name].ver # Torn

(* A database that was replaced has left a safety copy of what it held.    *)
SafetyIsKept ==
  \A p \in Tools : tool[p].pc \in {"checkpoint", "unlink", "unlinksync", "replace", "replacesync", "verify"} /\ tool[p].prior # 0
    => /\ dir[Safety(tool[p].n)].ver = tool[p].prior
       /\ disk[Safety(tool[p].n)].ver = tool[p].prior

(* A backup has every commit made before it began, as long as no restore   *)
(* takes them back.                                                        *)
BackupIsCurrent == used.restores = 0 => \A p \in Tools : tool[p].pc \in {"publish", "publishsync"} => tool[p].tmp >= tool[p].floor

(* Once a backup was reported its name has a whole backup on the disk,     *)
(* whatever is interrupted later, another backup to that name included.    *)
ReportedSurvives == used.reports > 0 => disk[backup] # None /\ disk[backup].ver # Torn

(* What the runs check of the above in every state.                        *)
FilesInv == TypeOK /\ ReadsBack /\ PublishedIsWhole /\ SafetyIsKept /\ BackupIsCurrent /\ ReportedSurvives
=============================================================================
