--------------------------- MODULE DocumentUpload ---------------------------
(***************************************************************************)
(* The field documents are dropped on (components/document-upload.tsx),    *)
(* with the list its parent keeps of them (addAttachments of claim-        *)
(* submission-form.tsx), and the other validation of files the frontend    *)
(* has (lib/file-validation.ts).                                           *)
(*                                                                         *)
(* A file is `good', of a type that is not accepted, or too large.         *)
(***************************************************************************)
EXTENDS Naturals, Sequences, SequencesExt, Lists

CONSTANTS
  MaxFiles,  \* the prop maxFiles; the claim form gives none
  MaxBatch   \* bound: files chosen or dropped at once

ASSUME UploadAssumption == MaxFiles \in Nat /\ MaxBatch \in Nat

VARIABLE upload

FileKind == {"good", "type", "size"}
Batches == SeqOf(FileKind, MaxBatch)

UploadState ==
  [files : SeqOf(FileKind, MaxFiles), error : {"none", "type", "size", "slots"},
   dragging : BOOLEAN]

UploadMounted == [files |-> <<>>, error |-> "none", dragging |-> FALSE]

RemainingSlots(files) == IF Len(files) < MaxFiles THEN MaxFiles - Len(files) ELSE 0

\* The loop's body; after the `break' nothing happens any more.
Sift(sieve, file, slots) ==
  IF sieve.stopped THEN sieve
  ELSE IF file # "good"
       THEN [sieve EXCEPT !.error = IF @ = "none" THEN file ELSE @]
  ELSE IF Len(sieve.accepted) >= slots
       THEN [sieve EXCEPT !.error = IF @ = "none" THEN "slots" ELSE @, !.stopped = TRUE]
  ELSE [sieve EXCEPT !.accepted = Append(@, file)]

\* handleFiles: what is accepted of a batch, and the first error.
HandleFiles(batch, slots) ==
  FoldLeft(LAMBDA sieve, file : Sift(sieve, file, slots),
           [accepted |-> <<>>, error |-> "none", stopped |-> FALSE], batch)

\* An empty batch leaves the last error on screen.
Take(batch) ==
  LET r == HandleFiles(batch, RemainingSlots(upload.files))
  IN IF batch = <<>> THEN upload
     ELSE [upload EXCEPT !.error = r.error, !.files = @ \o r.accepted]

ChooseFiles(batch) == upload' = Take(batch)

DragOver == upload' = [upload EXCEPT !.dragging = TRUE]
DragLeave == upload' = [upload EXCEPT !.dragging = FALSE]
DropFiles(batch) == upload' = [Take(batch) EXCEPT !.dragging = FALSE]

RemoveFile ==
  \E i \in 1..Len(upload.files) : upload' = [upload EXCEPT !.files = RemoveAt(@, i)]

UploadNext ==
  \/ \E batch \in Batches : ChooseFiles(batch) \/ DropFiles(batch)
  \/ DragOver
  \/ DragLeave
  \/ RemoveFile

-----------------------------------------------------------------------------
(* lib/file-validation.ts: how many errors validateFiles finds.            *)

ValidateFile(file) == file = "good"
Valid(files) == Kept(files, {file \in FileKind : ValidateFile(file)})

ValidateFiles(files) ==
  Len(files) - Len(Valid(files)) + IF Len(Valid(files)) > MaxFiles THEN 1 ELSE 0

-----------------------------------------------------------------------------
\* Of whatever comes next the field takes the files that are acceptable, as
\* many as there is room for and in their order, so that the list never
\* grows beyond maxFiles; and it shows an error exactly if a file is left out.
TakesWhatFits ==
  /\ upload \in UploadState
  /\ \A batch \in Batches :
       LET slots == RemainingSlots(upload.files)
           r == HandleFiles(batch, slots)
           good == Valid(batch)
       IN /\ r.accepted = SubSeq(good, 1, IF Len(good) < slots THEN Len(good) ELSE slots)
          /\ (r.error = "none") <=> (r.accepted = batch)

\* The two validations of the frontend say the same of the files that are
\* offered to an empty field.
SameVerdict ==
  upload.files = <<>> =>
    \A batch \in Batches :
      (ValidateFiles(batch) = 0) <=> (HandleFiles(batch, RemainingSlots(<<>>)).error = "none")
=============================================================================
