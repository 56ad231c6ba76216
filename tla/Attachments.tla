---------------------------- MODULE Attachments ----------------------------
(***************************************************************************)
(* The bytes of attachments: an upload streams its file into place first   *)
(* and stores the row after, in a worker thread under the workspace lock;  *)
(* deletes commit first and remove the file after; an operator may sweep   *)
(* files no row points at into a quarantine (routers/attachments.py,       *)
(* attachments.py, blobs.py, the deletes of sync/commands.py and           *)
(* routers/workspaces.py).                                                 *)
(*                                                                         *)
(* One workspace; an upload stands for the attachment id it makes up.  A   *)
(* command is one step: it holds the lock from its first read to its       *)
(* commit.  Left out: names, types, sizes, --force.                        *)
(***************************************************************************)
EXTENDS Naturals, FiniteSets

CONSTANTS Uploads, Tasks, TaskOf, NoHolder, MaxMishaps

ASSUME AttachmentConstants ==
    /\ TaskOf \in [Uploads -> Tasks]
    /\ NoHolder \notin Uploads
    /\ MaxMishaps \in Nat

VARIABLES
    standing,   \* the workspace exists
    writer,     \* the uploader is a member who may write
    gone,       \* deleted tasks
    row,        \* attachments: "none", "live" or "deleted"
    file,       \* "none", "part", "whole", or "moved" into the quarantine
    upload,     \* where the request is
    holder,     \* of the workspace lock
    chores,     \* files to remove, their delete being committed
    found,      \* what a sweep is about to move
    misfortune  \* crashes, lost commits and failed removals so far

attachmentVars ==
    <<standing, writer, gone, row, file, upload, holder, chores, found, misfortune>>

Free == holder = NoHolder
Mishap == misfortune < MaxMishaps /\ misfortune' = misfortune + 1
Unlink(f, u) == [f EXCEPT ![u] = IF @ = "moved" THEN @ ELSE "none"]
To(u, phase) == upload' = [upload EXCEPT ![u] = phase]

AttachmentsInit ==
    /\ standing = TRUE /\ writer = TRUE /\ gone = {}
    /\ row = [u \in Uploads |-> "none"] /\ file = [u \in Uploads |-> "none"]
    /\ upload = [u \in Uploads |-> "new"]
    /\ holder = NoHolder /\ chores = {} /\ found = {} /\ misfortune = 0

-----------------------------------------------------------------------------
(* An upload *)

\* The check before the stream.
Authorize(u) ==
    /\ upload[u] = "new" /\ standing /\ writer /\ To(u, "admitted")
    /\ UNCHANGED <<standing, writer, gone, row, file, holder, chores, found, misfortune>>

\* The file part has begun.
OpenFile(u) ==
    /\ upload[u] = "admitted"
    /\ To(u, "body") /\ file' = [file EXCEPT ![u] = "part"]
    /\ UNCHANGED <<standing, writer, gone, row, holder, chores, found, misfortune>>

BodyComplete(u) ==
    /\ upload[u] = "body"
    /\ To(u, "queued") /\ file' = [file EXCEPT ![u] = IF @ = "part" THEN "whole" ELSE @]
    /\ UNCHANGED <<standing, writer, gone, row, holder, chores, found, misfortune>>

\* Too large, malformed, cut short, not a file and a task: nothing is kept.
BodyRefused(u) ==
    /\ upload[u] \in {"admitted", "body"}
    /\ To(u, "over") /\ file' = Unlink(file, u)
    /\ UNCHANGED <<standing, writer, gone, row, holder, chores, found, misfortune>>

\* The claim: either the worker starts, or the cancelled handler abandons.
MayAbandonAny(u) == TRUE   \* mutant
MayAbandon(u) == upload[u] = "queued"
Cancel(u) ==
    /\ upload[u] \in {"queued", "working", "committing"} /\ MayAbandon(u)
    /\ file' = Unlink(file, u)
    /\ upload' = [upload EXCEPT ![u] = IF @ = "queued" THEN "over" ELSE @]
    /\ UNCHANGED <<standing, writer, gone, row, holder, chores, found, misfortune>>

StartWorker(u) ==
    /\ upload[u] = "queued" /\ To(u, "working")
    /\ UNCHANGED <<standing, writer, gone, row, file, holder, chores, found, misfortune>>

\* Judged again, and the task looked up, under the lock.
Welcome(u) == standing /\ writer
Storable(u) == Welcome(u) /\ TaskOf[u] \notin gone
Store(u) ==
    /\ upload[u] = "working" /\ Free /\ Storable(u)
    /\ holder' = u /\ To(u, "committing")
    /\ UNCHANGED <<standing, writer, gone, row, file, chores, found, misfortune>>

\* A failure before the commit is a definite rollback: the file goes.
Kept(f, u) == f   \* mutant
Discard(f, u) == Unlink(f, u)
StoreFails(u) ==
    /\ upload[u] = "working" /\ Free /\ ~Storable(u)
    /\ file' = Discard(file, u) /\ To(u, "over")
    /\ UNCHANGED <<standing, writer, gone, row, holder, chores, found, misfortune>>

Committed(u) ==
    /\ upload[u] \in {"committing", "unknown"}
    /\ row' = [row EXCEPT ![u] = "live"]
    /\ holder' = NoHolder /\ To(u, "over")
    /\ UNCHANGED <<standing, writer, gone, file, chores, found, misfortune>>

\* The connection is lost with the commit sent: it may still take effect, so the
\* file stays.
CommitLost(u) ==
    /\ upload[u] = "committing" /\ Mishap
    /\ To(u, "unknown")
    /\ UNCHANGED <<standing, writer, gone, row, file, holder, chores, found>>
CommitVanishes(u) ==
    /\ upload[u] = "unknown"
    /\ holder' = NoHolder /\ To(u, "over")
    /\ UNCHANGED <<standing, writer, gone, row, file, chores, found, misfortune>>

-----------------------------------------------------------------------------
(* Deletes, and everything else that happens under the lock *)

Drop(S) == row' = [u \in Uploads |-> IF u \in S /\ row[u] = "live" THEN "deleted" ELSE row[u]]
LiveOf(S) == {u \in S : row[u] = "live"}

DeleteRows(S) ==
    /\ Free /\ standing /\ LiveOf(S) # {}
    /\ Drop(S) /\ chores' = chores \cup LiveOf(S)

DeleteAttachment(u) ==
    /\ DeleteRows({u})
    /\ UNCHANGED <<standing, writer, gone, file, upload, holder, found, misfortune>>

\* task_delete and project_delete, with their cascade.
Cascade(t) == {u \in Uploads : TaskOf[u] = t}
DeleteTask(t) ==
    /\ Free /\ standing /\ t \notin gone
    /\ gone' = gone \cup {t}
    /\ Drop(Cascade(t)) /\ chores' = chores \cup LiveOf(Cascade(t))
    /\ UNCHANGED <<standing, writer, file, upload, holder, found, misfortune>>

\* Hard delete: the rows go with the workspace, its directory after the commit.
DeleteWorkspace ==
    /\ Free /\ standing
    /\ standing' = FALSE /\ row' = [u \in Uploads |-> "none"]
    /\ chores' = chores \cup Uploads
    /\ UNCHANGED <<writer, gone, file, upload, holder, found, misfortune>>

Demote ==
    /\ Free /\ writer /\ writer' = FALSE
    /\ UNCHANGED <<standing, gone, row, file, upload, holder, chores, found, misfortune>>

\* Best effort.
RemoveBlob(u) ==
    /\ u \in chores /\ chores' = chores \ {u}
    /\ \/ file' = Unlink(file, u) /\ UNCHANGED misfortune
       \/ Mishap /\ UNCHANGED file
    /\ UNCHANGED <<standing, writer, gone, row, upload, holder, found>>

-----------------------------------------------------------------------------
(* Crashes, and the sweep *)

RolledBack(phase) == IF phase = "new" THEN "new" ELSE "over"   \* mutant
AfterCrash(phase) ==
    CASE phase = "new" -> "new"
      [] phase \in {"committing", "unknown"} -> "unknown"
      [] OTHER -> "over"
ServerCrash ==
    /\ Mishap
    /\ upload' = [u \in Uploads |-> AfterCrash(upload[u])] /\ chores' = {}
    /\ UNCHANGED <<standing, writer, gone, row, file, holder, found>>

\* Files older than an hour: an upload is over by then.  The sweep may have been
\* pointed at an empty database.
Candidates == {u \in Uploads : upload[u] = "over" /\ file[u] \in {"part", "whole"}}
Refuses(old, live, orphans) ==
    orphans # {} /\ (live = {} \/ 2 * Cardinality(orphans) > Cardinality(old))
FindOrphans ==
    /\ found = {}
    /\ \E old \in SUBSET Candidates, live \in {{}, {u \in Uploads : row[u] = "live"}} :
         /\ ~Refuses(old, live, old \ live)
         /\ found' = old \ live
    /\ found' # {}
    /\ UNCHANGED <<standing, writer, gone, row, file, upload, holder, chores, misfortune>>

Quarantine(u) ==
    /\ u \in found /\ found' = found \ {u}
    /\ file' = [file EXCEPT ![u] = IF @ = "none" THEN @ ELSE "moved"]
    /\ UNCHANGED <<standing, writer, gone, row, upload, holder, chores, misfortune>>

PurgeQuarantine ==
    /\ \E u \in Uploads : file[u] = "moved"
    /\ file' = [u \in Uploads |-> IF file[u] = "moved" THEN "none" ELSE file[u]]
    /\ UNCHANGED <<standing, writer, gone, row, upload, holder, chores, found, misfortune>>

AttachmentsNext ==
    \/ \E u \in Uploads :
         \/ Authorize(u) \/ OpenFile(u) \/ BodyComplete(u) \/ BodyRefused(u) \/ Cancel(u)
         \/ StartWorker(u) \/ Store(u) \/ StoreFails(u) \/ Committed(u) \/ CommitLost(u) \/ CommitVanishes(u)
         \/ DeleteAttachment(u) \/ RemoveBlob(u) \/ Quarantine(u)
    \/ \E t \in Tasks : DeleteTask(t)
    \/ DeleteWorkspace \/ Demote \/ ServerCrash \/ FindOrphans \/ PurgeQuarantine

AttachmentsSpec == AttachmentsInit /\ [][AttachmentsNext]_attachmentVars

-----------------------------------------------------------------------------
(* Properties *)

\* Types; the lock is held from the judgement to the end of the commit.
AttachmentsTypeOK ==
    /\ gone \subseteq Tasks /\ chores \subseteq Uploads /\ found \subseteq Uploads
    /\ row \in [Uploads -> {"none", "live", "deleted"}]
    /\ file \in [Uploads -> {"none", "part", "whole", "moved"}]
    /\ upload \in [Uploads ->
                    {"new", "admitted", "body", "queued", "working", "committing",
                     "unknown", "over"}]
    /\ {standing, writer} \subseteq BOOLEAN /\ misfortune \in Nat
    /\ \A u \in Uploads : holder = u <=> upload[u] \in {"committing", "unknown"}

\* Whatever is cancelled, lost, deleted or swept meanwhile: an attachment the
\* workspace lists has all its bytes, in place.
LiveHasBytes == \A u \in Uploads : row[u] = "live" => file[u] = "whole"

\* However long the body streamed, no attachment is on a deleted task or in a
\* deleted workspace.
OnLiveTask == \A u \in Uploads : row[u] = "live" => standing /\ TaskOf[u] \notin gone

\* Once requests and removals are done, a file without a row is left only by a
\* crash, a lost commit or a failed removal.
Quiet == chores = {} /\ \A u \in Uploads : upload[u] \in {"new", "over"}
NothingLeftOver ==
    Quiet /\ misfortune = 0 =>
        \A u \in Uploads : file[u] \in {"part", "whole"} => row[u] = "live"
=============================================================================
