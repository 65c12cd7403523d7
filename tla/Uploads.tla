-------------------------------- MODULE Uploads -------------------------------
(***************************************************************************)
(* Images: an upload is announced, put into the bucket by the client,      *)
(* confirmed, and consumed by what shows it; images that are replaced or   *)
(* never used are deleted later.  UploadsService, UploadsCleanupService,   *)
(* and the profile of UsersService as the one who consumes.                *)
(*                                                                         *)
(* A definition under "Bug:" is used by no other: it takes the place of    *)
(* the one after it to show that a property notices the bug.               *)
(***************************************************************************)
EXTENDS Integers, FiniteSets

CONSTANTS
    UploadIds,      \* uploads, each with its object key
    NoUpload,
    Places,         \* what shows an image: a profile, a club, an event
    Confirmers,     \* confirmUpload requests being served
    Editors         \* requests that change an image being served

ASSUME UploadAssumption == NoUpload \notin UploadIds \cup Places

VARIABLES
    upload,         \* Upload.status, NONE before the row, GONE after it
    object,         \* the objects in the bucket
    stale,          \* uploads whose expiresAt has passed
    image,          \* the image a place shows
    deletion,       \* PendingFileDeletion of an object key: NONE, DUE or DONE
    confirmer,      \* the upload a confirmUpload read as PENDING
    editor,         \* what a request changes, and the image it read
    cleaning,       \* the expired upload being deleted, and how far
    doubled,        \* uploads with two confirmations at once
    late,           \* uploads that expired while they were being consumed
    raced           \* two requests changed one place at once

uploadVars == <<upload, object, stale, image, deletion, confirmer, editor, cleaning,
                doubled, late, raced>>

-----------------------------------------------------------------------------
UploadStatuses == {"NONE", "PENDING", "TEMPORARY", "USED", "GONE"}
NotEditing == [place |-> NoUpload, new |-> NoUpload, old |-> NoUpload]
NotCleaning == [of |-> NoUpload, erased |-> FALSE]

Editing(p) == \E e \in Editors : editor[e].place = p

UploadInit ==
    /\ upload = [u \in UploadIds |-> "NONE"] /\ object = {} /\ stale = {}
    /\ image = [p \in Places |-> NoUpload]
    /\ deletion = [u \in UploadIds |-> "NONE"]
    /\ confirmer = [c \in Confirmers |-> NoUpload]
    /\ editor = [e \in Editors |-> NotEditing]
    /\ cleaning = NotCleaning
    /\ doubled = {} /\ late = {} /\ raced = FALSE

-----------------------------------------------------------------------------
(* The upload: announced, put, confirmed.                                  *)

CreatePresignedUploadUrl(u) ==
    /\ upload[u] = "NONE"
    /\ upload' = [upload EXCEPT ![u] = "PENDING"]
    /\ UNCHANGED <<object, stale, image, deletion, confirmer, editor, cleaning, doubled, late, raced>>

\* The client, while its URL lasts.
PutObject(u) ==
    /\ upload[u] = "PENDING" /\ u \notin stale
    /\ object' = object \cup {u}
    /\ UNCHANGED <<upload, stale, image, deletion, confirmer, editor, cleaning, doubled, late, raced>>

UploadExpires(u) ==
    /\ upload[u] \in {"PENDING", "TEMPORARY"} /\ u \notin stale
    /\ stale' = stale \cup {u}
    /\ late' = IF \E e \in Editors : editor[e].new = u THEN late \cup {u} ELSE late
    /\ UNCHANGED <<upload, object, image, deletion, confirmer, editor, cleaning, doubled, raced>>

ReadUpload(c, u) ==
    /\ confirmer[c] = NoUpload
    /\ upload[u] = "PENDING" /\ u \notin stale
    /\ confirmer' = [confirmer EXCEPT ![c] = u]
    /\ doubled' = IF \E d \in Confirmers : confirmer[d] = u THEN doubled \cup {u} ELSE doubled
    /\ UNCHANGED <<upload, object, stale, image, deletion, editor, cleaning, late, raced>>

\* The object is there: the row becomes TEMPORARY, whatever it has become.
ConfirmUpload(c) ==
    LET u == confirmer[c] IN
    /\ u # NoUpload /\ u \in object /\ upload[u] # "GONE"
    /\ upload' = [upload EXCEPT ![u] = "TEMPORARY"]
    /\ stale' = IF upload[u] = "USED" THEN stale \ {u} ELSE stale
    /\ confirmer' = [confirmer EXCEPT ![c] = NoUpload]
    /\ UNCHANGED <<object, image, deletion, editor, cleaning, doubled, late, raced>>

\* It is not, or it is no image, or a call fails: the object goes, whatever the
\* row has become, and the row if it is still PENDING.
ConfirmFails(c) ==
    LET u == confirmer[c] IN
    /\ u # NoUpload
    /\ object' = object \ {u}
    /\ upload' = IF upload[u] = "PENDING" THEN [upload EXCEPT ![u] = "GONE"] ELSE upload
    /\ confirmer' = [confirmer EXCEPT ![c] = NoUpload]
    /\ UNCHANGED <<stale, image, deletion, editor, cleaning, doubled, late, raced>>

-----------------------------------------------------------------------------
(* A place changes its image.                                              *)

\* The place is read, and in the transaction the upload (consumeUpload).
BeginEdit(e, p) ==
    /\ editor[e] = NotEditing
    /\ \E u \in UploadIds \cup {NoUpload} :
         /\ u # NoUpload => upload[u] = "TEMPORARY" /\ u \notin stale
         /\ u = NoUpload => image[p] # NoUpload
         /\ editor' = [editor EXCEPT ![e] = [place |-> p, new |-> u, old |-> image[p]]]
    /\ raced' = (raced \/ Editing(p))
    /\ UNCHANGED <<upload, object, stale, image, deletion, confirmer, cleaning, doubled, late>>

\* Bug: it was when it was read, which is enough.
ConsumableOnce(u) == TRUE

\* The upload can still be consumed.
Consumable(u) == upload[u] = "TEMPORARY"

\* Bug: what is removed stays in the bucket.
QueuesReplaced(old, new) == old # NoUpload /\ old # new /\ new # NoUpload

\* queueObjectDeletion, or replaceUpload of what was read.
Queues(old, new) == old # NoUpload /\ old # new

CommitEdit(e) ==
    LET new == editor[e].new  old == editor[e].old  p == editor[e].place IN
    /\ editor[e] # NotEditing
    /\ new # NoUpload => Consumable(new)
    /\ IF new = NoUpload THEN UNCHANGED <<upload, stale>>
       ELSE upload' = [upload EXCEPT ![new] = "USED"] /\ stale' = stale \ {new}
    /\ deletion' = IF Queues(old, new) THEN [deletion EXCEPT ![old] = "DUE"] ELSE deletion
    /\ image' = [image EXCEPT ![p] = new]
    /\ editor' = [editor EXCEPT ![e] = NotEditing]
    /\ UNCHANGED <<object, confirmer, cleaning, doubled, late, raced>>

\* The upload was consumed by another, or the transaction rolls back.
EditFails(e) ==
    /\ editor[e] # NotEditing
    /\ editor' = [editor EXCEPT ![e] = NotEditing]
    /\ UNCHANGED <<upload, object, stale, image, deletion, confirmer, cleaning, doubled, late, raced>>

-----------------------------------------------------------------------------
(* The cleanup, every hour.                                                *)

\* Bug: those that were never confirmed are left.
ExpiredTemporary(u) == upload[u] = "TEMPORARY" /\ u \in stale

\* The uploads that nobody used in their six hours.
Expired(u) == upload[u] \in {"PENDING", "TEMPORARY"} /\ u \in stale

ListExpired(u) ==
    /\ cleaning = NotCleaning
    /\ Expired(u)
    /\ cleaning' = [of |-> u, erased |-> FALSE]
    /\ UNCHANGED <<upload, object, stale, image, deletion, confirmer, editor, doubled, late, raced>>

EraseExpired ==
    /\ cleaning # NotCleaning /\ ~cleaning.erased
    /\ object' = object \ {cleaning.of}
    /\ cleaning' = [of |-> cleaning.of, erased |-> TRUE]
    /\ UNCHANGED <<upload, stale, image, deletion, confirmer, editor, doubled, late, raced>>

\* The row goes, whatever it has become.
DeleteExpired ==
    /\ cleaning.erased
    /\ upload' = [upload EXCEPT ![cleaning.of] = "GONE"]
    /\ cleaning' = NotCleaning
    /\ UNCHANGED <<object, stale, image, deletion, confirmer, editor, doubled, late, raced>>

\* processPendingFileDeletions; what fails is tried again.
ProcessDeletion(u) ==
    /\ deletion[u] = "DUE"
    /\ object' = object \ {u}
    /\ deletion' = [deletion EXCEPT ![u] = "DONE"]
    /\ UNCHANGED <<upload, stale, image, confirmer, editor, cleaning, doubled, late, raced>>

UploadNext ==
    \/ \E u \in UploadIds : \/ CreatePresignedUploadUrl(u)
                            \/ PutObject(u)
                            \/ UploadExpires(u)
                            \/ \E c \in Confirmers : ReadUpload(c, u)
                            \/ ListExpired(u)
                            \/ ProcessDeletion(u)
    \/ \E c \in Confirmers : ConfirmUpload(c) \/ ConfirmFails(c)
    \/ \E e \in Editors : (\E p \in Places : BeginEdit(e, p)) \/ CommitEdit(e) \/ EditFails(e)
    \/ EraseExpired
    \/ DeleteExpired

\* The cleanup runs every hour, on the oldest first.
UploadFairness == /\ \A u \in UploadIds : WF_uploadVars(ListExpired(u))
                  /\ WF_uploadVars(EraseExpired) /\ WF_uploadVars(DeleteExpired)

UploadSpec == UploadInit /\ [][UploadNext]_uploadVars /\ UploadFairness

-----------------------------------------------------------------------------
(* Properties.                                                             *)

UploadTypeOK ==
    /\ upload \in [UploadIds -> UploadStatuses]
    /\ object \cup stale \cup doubled \cup late \subseteq UploadIds
    /\ image \in [Places -> UploadIds \cup {NoUpload}]
    /\ deletion \in [UploadIds -> {"NONE", "DUE", "DONE"}]
    /\ confirmer \in [Confirmers -> UploadIds \cup {NoUpload}]
    /\ editor \in [Editors -> [place : Places \cup {NoUpload}, new : UploadIds \cup {NoUpload},
                               old : UploadIds \cup {NoUpload}]]
    /\ cleaning \in [of : UploadIds \cup {NoUpload}, erased : BOOLEAN] /\ raced \in BOOLEAN

\* Whatever the cleanup deletes meanwhile, what is shown is in the bucket,
\* unless it was confirmed twice at once or expired while it was consumed.
ImageIsThere ==
    ~raced => \A p \in Places : image[p] # NoUpload =>
                  image[p] \in object \cup doubled \cup late

\* "El upload ya fue consumido por otra operacion": an image is shown in one
\* place, unless it was confirmed twice at once.
ConsumedOnce ==
    \A p, q \in Places : p # q /\ image[p] = image[q] /\ image[p] # NoUpload => image[p] \in doubled

\* Nothing is forgotten in the bucket: what was consumed is shown, or it waits
\* for its deletion, unless two requests changed one place at once.
NothingForgotten ==
    ~raced => \A u \in UploadIds : upload[u] = "USED" /\ u \in object =>
                  (\E p \in Places : image[p] = u) \/ deletion[u] # "NONE" \/ u \in doubled

\* What is shown, what is in the bucket and what waits for deletion agree,
\* however confirmations, edits and the cleanup overlap or die.
UploadInv == UploadTypeOK /\ ImageIsThere /\ ConsumedOnce /\ NothingForgotten

\* What nobody used is deleted.
ExpiredIsDeleted == \A u \in UploadIds : u \in stale ~> upload[u] \in {"GONE", "USED"}
=============================================================================
