------------------------------- MODULE MCJobs -------------------------------
(***************************************************************************)
(* Small instances of three kinds of background work, with the fairness    *)
(* that makes it end: the jobs and the outbox of a discussion, the resync  *)
(* jobs and the sandboxed execution.  They share nothing, so a behaviour   *)
(* is one of a single part; the others stay as they begin.                 *)
(***************************************************************************)
EXTENDS DiscussionJobs

CONSTANTS
  Manual, MaxJobs, MaxManual, MaxCommits, MaxFailures,   \* ResyncJobs
  Calls, Sandboxes, None, Crashes, GivesUp               \* ExecutionSpool

ASSUME CommitsAssumption == MaxCommits \in Nat \ {0}
ASSUME CallsAssumption == None \notin Calls

VARIABLES part, head, resyncs, snaps, thread, up, happened, dir, client, sandbox, starts

Resync == INSTANCE ResyncJobs WITH jobs <- resyncs, worker <- thread, used <- happened
Spool == INSTANCE ExecutionSpool WITH Jobs <- Calls, Workers <- Sandboxes, worker <- sandbox

resyncing == <<head, resyncs, snaps, thread, up, happened>>
spooling == <<dir, client, sandbox, starts>>
all == <<part, vars, resyncing, spooling>>

MCInit == part \in {"discussion", "resync", "spool"} /\ Init /\ Resync!Init /\ Spool!Init

Discusses == part = "discussion" /\ Next /\ UNCHANGED <<part, resyncing, spooling>>
ResyncsOrRests ==
  /\ part = "resync" /\ UNCHANGED <<part, vars, spooling>>
  /\ Resync!Next \/ UNCHANGED resyncing
Executes == part = "spool" /\ Spool!Next /\ UNCHANGED <<part, vars, resyncing>>

MCSpec ==
  /\ MCInit /\ [][Discusses \/ ResyncsOrRests \/ Executes]_all
  /\ WF_vars(part = "discussion" /\ Lapse)
  /\ \A w \in Workers : WF_vars(part = "discussion" /\ Work(w))
  /\ WF_resyncing(part = "resync" /\ Resync!Recover)
  /\ \A w \in Workers : WF_resyncing(part = "resync" /\ Resync!Work(w))
  /\ \A c \in Calls : WF_spooling(part = "spool" /\ Spool!Execute(c))
  /\ \A w \in Sandboxes : WF_spooling(part = "spool" /\ Spool!Work(w))
  /\ \A w \in Sandboxes, c \in Calls : SF_spooling(part = "spool" /\ Spool!Claim(w, c))

(* A completed resync is pinned to a ready snapshot of its own with        *)
(* symbols, and an active one has its thread (ResyncJobs).                 *)
ResyncInv == Resync!ResyncInv

(* What has ended stays as it is, whoever comes late: extractions that     *)
(* succeeded (DiscussionJobs), resyncs and snapshots (ResyncJobs).         *)
EndedStays == SuccessIsFinal /\ Resync!EndedStays

(* Extractions and resyncs end, whoever crashes with them (DiscussionJobs, *)
(* ResyncJobs).                                                            *)
JobsEnd == EveryJobEnds /\ Resync!EveryJobEnds

(* With the workers alive every call of execute() comes back without the   *)
(* help of its deadline (ExecutionSpool).                                  *)
EveryCallIsAnswered == Spool!EveryCallIsAnswered
=============================================================================
