------------------------- MODULE AttachmentsProofs -------------------------
(***************************************************************************)
(* What Attachments promises for any uploads, tasks and number of mishaps. *)
(***************************************************************************)
EXTENDS Attachments, TLAPS

\* Up to the commit the file is the request's own, unless the workspace and its
\* directory go; under the lock nothing it was judged by changes.
FileOfUpload ==
    \A u \in Uploads :
        /\ upload[u] \in {"new", "admitted"} => file[u] = "none"
        /\ upload[u] = "body" /\ standing => file[u] = "part"
        /\ upload[u] \in {"queued", "working"} /\ standing => file[u] = "whole"
        /\ upload[u] \in {"committing", "unknown"} =>
             standing /\ TaskOf[u] \notin gone /\ file[u] = "whole"
        /\ upload[u] = "unknown" => misfortune > 0

\* Nothing that removes or moves files is after the file of a live row, or of
\* one that may still become live.
Removals ==
    \A u \in Uploads :
        /\ row[u] = "live" => upload[u] = "over"
        /\ u \in found => upload[u] = "over" /\ row[u] # "live"
        /\ u \in chores => row[u] # "live" /\ (upload[u] = "over" \/ ~standing)

\* Without a mishap an abandoned file is gone, or about to be.
Tidy ==
    misfortune = 0 =>
        \A u \in Uploads : upload[u] = "over" /\ file[u] \in {"part", "whole"} =>
            row[u] = "live" \/ u \in chores

AttachmentsInv ==
    /\ AttachmentsTypeOK /\ FileOfUpload /\ Removals /\ Tidy
    /\ LiveHasBytes /\ OnLiveTask

LEMMA AttachmentsInitHolds == AttachmentsInit => AttachmentsInv
  BY AttachmentConstants
     DEF AttachmentsInit, AttachmentsInv, AttachmentsTypeOK, FileOfUpload, Removals, Tidy,
         LiveHasBytes, OnLiveTask

LEMMA AttachmentsStep ==
    AttachmentsInv /\ [AttachmentsNext]_attachmentVars => AttachmentsInv'
  <1>. SUFFICES ASSUME AttachmentsInv, [AttachmentsNext]_attachmentVars PROVE AttachmentsInv'
    OBVIOUS
  <1>. USE AttachmentConstants
       DEF AttachmentsInv, AttachmentsTypeOK, FileOfUpload, Removals, Tidy, LiveHasBytes, OnLiveTask
  <1>1. CASE UNCHANGED attachmentVars
    BY <1>1 DEF attachmentVars
  <1>2. ASSUME NEW v \in Uploads, Authorize(v) PROVE AttachmentsInv'
    BY <1>2 DEF Authorize, To
  <1>3. ASSUME NEW v \in Uploads, OpenFile(v) PROVE AttachmentsInv'
    BY <1>3 DEF OpenFile, To
  <1>4. ASSUME NEW v \in Uploads, BodyComplete(v) PROVE AttachmentsInv'
    BY <1>4 DEF BodyComplete, To
  <1>5. ASSUME NEW v \in Uploads, BodyRefused(v) PROVE AttachmentsInv'
    BY <1>5 DEF BodyRefused, To, Unlink
  <1>6. ASSUME NEW v \in Uploads, Cancel(v) PROVE AttachmentsInv'
    BY <1>6 DEF Cancel, MayAbandon, Unlink
  <1>7. ASSUME NEW v \in Uploads, StartWorker(v) PROVE AttachmentsInv'
    BY <1>7 DEF StartWorker, To
  <1>8. ASSUME NEW v \in Uploads, Store(v) PROVE AttachmentsInv'
    BY <1>8 DEF Store, To, Free, Storable, Welcome
  <1>9. ASSUME NEW v \in Uploads, StoreFails(v) PROVE AttachmentsInv'
    BY <1>9 DEF StoreFails, To, Discard, Unlink
  <1>10. ASSUME NEW v \in Uploads, Committed(v) PROVE AttachmentsInv'
    BY <1>10 DEF Committed, To
  <1>11. ASSUME NEW v \in Uploads, CommitLost(v) PROVE AttachmentsInv'
    BY <1>11 DEF CommitLost, To, Mishap
  <1>12. ASSUME NEW v \in Uploads, CommitVanishes(v) PROVE AttachmentsInv'
    BY <1>12 DEF CommitVanishes, To
  <1>13. ASSUME NEW v \in Uploads, DeleteAttachment(v) PROVE AttachmentsInv'
    BY <1>13 DEF DeleteAttachment, DeleteRows, Drop, LiveOf, Free
  <1>14. ASSUME NEW v \in Uploads, RemoveBlob(v) PROVE AttachmentsInv'
    BY <1>14 DEF RemoveBlob, Unlink, Mishap
  <1>15. ASSUME NEW v \in Uploads, Quarantine(v) PROVE AttachmentsInv'
    BY <1>15 DEF Quarantine
  <1>16. ASSUME NEW t \in Tasks, DeleteTask(t) PROVE AttachmentsInv'
    BY <1>16 DEF DeleteTask, Drop, LiveOf, Cascade, Free
  <1>17. CASE DeleteWorkspace
    BY <1>17 DEF DeleteWorkspace, Free
  <1>18. CASE Demote
    BY <1>18 DEF Demote, Free
  <1>19. CASE ServerCrash
    BY <1>19 DEF ServerCrash, AfterCrash, Mishap
  <1>20. CASE FindOrphans
    BY <1>20 DEF FindOrphans, Candidates, Refuses
  <1>21. CASE PurgeQuarantine
    BY <1>21 DEF PurgeQuarantine
  <1>. QED
    BY <1>1, <1>2, <1>3, <1>4, <1>5, <1>6, <1>7, <1>8, <1>9, <1>10, <1>11, <1>12, <1>13, <1>14, <1>15, <1>16, <1>17, <1>18, <1>19, <1>20, <1>21 DEF AttachmentsNext

\* Types, and the lock held from the judgement to the end of the commit.
THEOREM AttachmentsTypeCorrect == AttachmentsSpec => []AttachmentsTypeOK
  <1>1. AttachmentsInv => AttachmentsTypeOK
    BY DEF AttachmentsInv
  <1>. QED
    BY <1>1, AttachmentsInitHolds, AttachmentsStep, PTL DEF AttachmentsSpec

\* However cancellations, lost commits, crashes, deletes and sweeps meet an
\* upload, an attachment that is listed has its whole file in place.
THEOREM BytesKept == AttachmentsSpec => []LiveHasBytes
  <1>1. AttachmentsInv => LiveHasBytes
    BY DEF AttachmentsInv
  <1>. QED
    BY <1>1, AttachmentsInitHolds, AttachmentsStep, PTL DEF AttachmentsSpec

\* However long the body streamed, the task it was for is still there.
THEOREM TaskStillThere == AttachmentsSpec => []OnLiveTask
  <1>1. AttachmentsInv => OnLiveTask
    BY DEF AttachmentsInv
  <1>. QED
    BY <1>1, AttachmentsInitHolds, AttachmentsStep, PTL DEF AttachmentsSpec

\* Only a mishap leaves a file without a row for the sweep.
THEOREM LeavesNothing == AttachmentsSpec => []NothingLeftOver
  <1>1. AttachmentsInv => NothingLeftOver
    BY DEF AttachmentsInv, NothingLeftOver, Quiet, FileOfUpload, Tidy
  <1>. QED
    BY <1>1, AttachmentsInitHolds, AttachmentsStep, PTL DEF AttachmentsSpec
=============================================================================
