---------------------------- MODULE VolumeMigration ----------------------------
(***************************************************************************)
(* How volumes and instances are migrated: the handler uploads the disk to *)
(* a temporary image on the source cloud, calls the manager back to        *)
(* migrate that image and to delete its source, creates the volume or      *)
(* instance from the migrated image, and deletes both images in a finally  *)
(* clause (src/sunbeam_migrate/handlers/cinder/volume.py, nova/instance.py,*)
(* glance/image.py).                                                       *)
(***************************************************************************)
EXTENDS HandlerCall

CONSTANTS
    Volumes,      \* the resources of these two types
    Instances,
    Imaged,       \* those whose disk is uploaded: not an instance that is
                  \* booted from a volume
    Labelled      \* volumes with volume_image_metadata

ASSUME VolumeAssumption ==
    /\ Volumes \cup Instances \subseteq Resource
    /\ Imaged \subseteq Volumes \cup Instances
    /\ Volumes \subseteq Imaged
    /\ Labelled \subseteq Volumes

VARIABLES
    sourceImages, \* temporary images on the source cloud, named by the object
                  \* they are made for
    destImages,   \* and on the destination
    imageKnown,   \* destination_image_id is set in the running call
    built,        \* objects whose disk is complete
    labelled      \* volumes whose image metadata has been set

volumeVars == <<sourceImages, destImages, imageKnown, built, labelled>>
images == <<sourceImages, destImages>>

VolumeInit ==
    /\ sourceImages = {}
    /\ destImages = {}
    /\ imageKnown = FALSE
    /\ built = {}
    /\ labelled = {}

\* Requests that come before the upload change nothing; their failure is that
\* of the upload.
BeginVolume ==
    /\ \E r \in Volumes \cup Instances :
          Begin(r, IF r \in Imaged THEN "upload" ELSE "createDisk")
    /\ imageKnown' = FALSE
    /\ UNCHANGED <<images, built, labelled>>

-----------------------------------------------------------------------------
(* The temporary image.                                                    *)

UploadImage ==
    /\ Running("upload")
    /\ sourceImages' = sourceImages \cup {This}
    /\ Goto("uploadWait")
    /\ UNCHANGED <<dest, destImages, imageKnown, built, labelled>>

UploadRefused ==
    /\ Running("upload")
    /\ sourceImages' \in PerhapsAdded(sourceImages, {This})
    /\ FailCall("upload")
    /\ UNCHANGED <<dest, destImages, imageKnown, built, labelled>>

UploadCompletes ==
    /\ Running("uploadWait")
    /\ Goto("imageCopy")
    /\ UNCHANGED <<dest, volumeVars>>

\* An image in error, or the wait timed out: not in the scope of the finally
\* clause.
UploadFails ==
    /\ Running("uploadWait")
    /\ FailCall("upload")
    /\ UNCHANGED <<dest, volumeVars>>

\* A variant of a definition that carries a plausible mistake precedes it; no
\* action uses one.  They are there to see that the properties notice.
CopyImageRecordOnly ==
    /\ Running("imageCopy")
    /\ Goto("imageCleanup")
    /\ UNCHANGED <<dest, volumeVars>>

\* The manager migrates the image.
CopyImage ==
    /\ Running("imageCopy")
    /\ destImages' = destImages \cup {This}
    /\ Goto("imageCleanup")
    /\ UNCHANGED <<dest, sourceImages, imageKnown, built, labelled>>

\* The destination image stays when what fails is the download or the
\* comparison of the checksums.
CopyImageFails ==
    /\ Running("imageCopy")
    /\ destImages' \in PerhapsAdded(destImages, {This})
    /\ RaiseTo("dropSource", "imageCopy")
    /\ UNCHANGED <<dest, sourceImages, imageKnown, built, labelled>>

\* It deletes the source of the migration, and returns.
CleanUpImage ==
    /\ Running("imageCleanup")
    /\ sourceImages' = sourceImages \ {This}
    /\ imageKnown' = TRUE
    /\ Goto("createDisk")
    /\ UNCHANGED <<dest, destImages, built, labelled>>

\* Or it raises, and the handler does not learn the id of the image.
CleanUpImageFails ==
    /\ Running("imageCleanup")
    /\ sourceImages' \in PerhapsRemoved(sourceImages, {This})
    /\ RaiseTo("dropSource", "imageCleanup")
    /\ UNCHANGED <<dest, destImages, imageKnown, built, labelled>>

-----------------------------------------------------------------------------
(* The volume or instance.                                                 *)

NoFinallyClause == "done"
FinallyClause == IF job.res \in Imaged THEN "dropSource" ELSE "done"

CreateDiskUnnoticed ==
    /\ Running("createDisk")
    /\ Goto("provision")
    /\ UNCHANGED <<dest, volumeVars>>

CreateDisk ==
    /\ Running("createDisk")
    /\ dest' = dest \cup {This}
    /\ Goto("provision")
    /\ UNCHANGED volumeVars

CreateDiskFails ==
    /\ Running("createDisk")
    /\ dest' \in PerhapsAdded(dest, {This})
    /\ RaiseTo(FinallyClause, "createDisk")
    /\ UNCHANGED volumeVars

DiskProvisioned ==
    /\ Running("provision")
    /\ built' = built \cup {This}
    /\ Goto(IF job.res \in Labelled THEN "label" ELSE FinallyClause)
    /\ UNCHANGED <<dest, images, imageKnown, labelled>>

ProvisioningFailureLogged ==
    /\ Running("provision")
    /\ LogTo(FinallyClause, "provision")
    /\ UNCHANGED <<dest, volumeVars>>

\* In error, or not available in time.
ProvisioningFails ==
    /\ Running("provision")
    /\ RaiseTo(FinallyClause, "provision")
    /\ UNCHANGED <<dest, volumeVars>>

SetImageMetadata ==
    /\ Running("label")
    /\ labelled' = labelled \cup {This}
    /\ Goto(FinallyClause)
    /\ UNCHANGED <<dest, images, imageKnown, built>>

SetImageMetadataFails ==
    /\ Running("label")
    /\ labelled' \in PerhapsAdded(labelled, {This})
    /\ RaiseTo(FinallyClause, "label")
    /\ UNCHANGED <<dest, images, imageKnown, built>>

-----------------------------------------------------------------------------
(* The finally clause.                                                     *)

\* An image that is already gone is not an error.
DropSourceImage ==
    /\ Finally("dropSource")
    /\ sourceImages' = sourceImages \ {This}
    /\ Goto("dropDest")
    /\ UNCHANGED <<dest, destImages, imageKnown, built, labelled>>

\* The rest of the clause is skipped.
DropSourceImageFails ==
    /\ Finally("dropSource")
    /\ sourceImages' \in PerhapsRemoved(sourceImages, {This})
    /\ RaiseTo("done", "dropSource")
    /\ UNCHANGED <<dest, destImages, imageKnown, built, labelled>>

DropDestImage ==
    /\ Finally("dropDest")
    /\ destImages' = IF imageKnown THEN destImages \ {This} ELSE destImages
    /\ Goto("done")
    /\ UNCHANGED <<dest, sourceImages, imageKnown, built, labelled>>

DropDestImageFails ==
    /\ Finally("dropDest")
    /\ imageKnown
    /\ destImages' \in PerhapsRemoved(destImages, {This})
    /\ RaiseTo("done", "dropDest")
    /\ UNCHANGED <<dest, sourceImages, imageKnown, built, labelled>>

VolumeNext ==
    \/ BeginVolume
    \/ UploadImage \/ UploadRefused \/ UploadCompletes \/ UploadFails
    \/ CopyImage \/ CopyImageFails \/ CleanUpImage \/ CleanUpImageFails
    \/ CreateDisk \/ CreateDiskFails \/ DiskProvisioned \/ ProvisioningFails
    \/ SetImageMetadata \/ SetImageMetadataFails
    \/ DropSourceImage \/ DropSourceImageFails
    \/ DropDestImage \/ DropDestImageFails

-----------------------------------------------------------------------------

\* Where the handler is at work.
VolumePc == {"upload", "uploadWait", "imageCopy", "imageCleanup", "createDisk",
             "provision", "label", "dropSource", "dropDest"}

\* Type invariant of the image-based migrations.
VolumeTypeOK ==
    /\ sourceImages \subseteq Object
    /\ destImages \subseteq Object
    /\ imageKnown \in BOOLEAN
    /\ built \subseteq dest
    /\ labelled \subseteq built

\* An object that lacks nothing of its source.
VolumeWhole(o) == o \in built /\ (o.of \in Labelled => o \in labelled)

\* Instances "will be temporarily uploaded to Glance": once the call has ended,
\* its image is gone from both clouds, unless the upload or a request about
\* the images themselves failed, or the process was killed.  What happens to
\* the volume or instance makes no difference: neither a refused creation nor
\* a timeout leaves an image behind.
NoImageLeft ==
    /\ \A i \in sourceImages :
          \/ ~Idle /\ i = This
          \/ ~Untroubled(i, {"upload", "dropSource", "killed"})
    /\ \A i \in destImages :
          \/ ~Idle /\ i = This
          \/ ~Untroubled(i, {"imageCopy", "imageCleanup", "dropSource",
                             "dropDest", "killed"})

\* Nothing is deleted that may still be needed: the image of the source
\* disk stays until the destination has it or the call is failing, and the
\* destination image until the disk made from it is complete or has failed.
ImageOutlivesCopy ==
    [][/\ \A i \in sourceImages \ sourceImages' : i \in destImages \/ job.raising
       /\ \A i \in destImages \ destImages' :
             i \in built \/ Troubled(i, "createDisk") \/ Troubled(i, "provision")]_
      <<callVars, volumeVars>>

\* "The handler is expected to cleanup failed migrations on the destination
\* side" (manager.py): a retry creates the only volume or instance there is, as
\* long as no handler fails to learn that its request to create one succeeded.
RetriedFromScratch ==
    \A o, x \in dest :
        /\ o.of \in Volumes \cup Instances /\ x.of = o.of
        /\ ~Troubled(o, "createDisk") /\ ~Troubled(x, "createDisk")
        => o = x

=============================================================================
