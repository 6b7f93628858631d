----------------------------- MODULE CampaignUpdate -----------------------------
(***************************************************************************)
(* The form that posts or edits an update of a donation campaign: text,    *)
(* referenced transactions and images (UpdateDonationContext, useUpdateForm,*)
(* UploadDonationImage, update-form). The images live three times: as      *)
(* files and previews in the picker and as data URLs in the form, and the  *)
(* form is written by callbacks that were made in an earlier render.       *)
(* A size is counted in images; the first image of an update is its own id.*)
(***************************************************************************)
EXTENDS Naturals, Sequences, FiniteSets, SequencesExt

CONSTANTS Pictures,    \* images the user can pick
          OldPictures, \* the images of the update that is edited, a sequence
          MaxPictures, \* the limit of IMAGE_CONSTRAINTS
          TxHashes, MaxHashes,
          MaxBatches,  \* times the user picks images
          MaxTyping,   \* edits of the text
          MaxCrossings \* times the user goes on while images are handled

ASSUME UpdateAssumption ==
    /\ {MaxPictures, MaxHashes, MaxBatches, MaxTyping, MaxCrossings} \subseteq Nat
    /\ OldPictures \in Seq(Pictures) /\ Len(OldPictures) <= MaxPictures
    /\ IsFiniteSet(Pictures) /\ IsFiniteSet(TxHashes)

VARIABLES post,       \* the form of the context
          picker,     \* the state of UploadDonationImage
          batches,    \* calls of handleImageChange under way
          reads,      \* FileReader groups whose result is to be written to the form
          published,  \* the update the chain has, with what the page showed at the click
          entered,    \* history: the text and hashes the user has put in
          crossed     \* history: how often the user went on while images were being handled

updateVars == <<post, picker, batches, reads, published, entered, crossed>>

NoUpdate == [none |-> TRUE]
NoBatch  == [stage |-> "none"]
NoText   == [edits |-> 0, hashes |-> {}]
Slots    == 1..2

UpdateInit ==
    /\ \E old \in {<<>>, OldPictures} :
          /\ post = [text |-> NoText, images |-> <<>>, existing |-> old]
          /\ picker = [images |-> <<>>, existing |-> old, previews |-> old,
                       compressing |-> FALSE, picks |-> 0]
    /\ batches = [b \in Slots |-> NoBatch] /\ reads = {}
    /\ published = NoUpdate /\ entered = NoText /\ crossed = 0

Pending == reads # {} \/ \E b \in Slots : batches[b] # NoBatch
Cross(c) == crossed' = crossed + (IF c THEN 1 ELSE 0)
Crossing == Cross(Pending)

\* The page is left once the update has been accepted; crossings are capped.
OnPage == published = NoUpdate /\ crossed < MaxCrossings

-----------------------------------------------------------------------------
(* The text. Every input writes the whole form.                            *)

WriteText(text) ==
    /\ post' = [post EXCEPT !.text = text]
    /\ entered' = text /\ Crossing
    /\ UNCHANGED <<picker, batches, reads, published>>

TypeText ==
    /\ OnPage /\ post.text.edits < MaxTyping
    /\ WriteText([post.text EXCEPT !.edits = @ + 1])

\* The limit is compared before duplicates are dropped.
AddHashes ==
    /\ OnPage
    /\ \E new \in SUBSET TxHashes :
          /\ new # {} /\ Cardinality(post.text.hashes) + Cardinality(new) <= MaxHashes
          /\ WriteText([post.text EXCEPT !.hashes = @ \cup new])

RemoveHash ==
    /\ OnPage
    /\ \E old \in SUBSET post.text.hashes :
          /\ Cardinality(old) = 1 \/ old = post.text.hashes
          /\ old # {} /\ WriteText([post.text EXCEPT !.hashes = @ \ old])

-----------------------------------------------------------------------------
(* The images.                                                             *)

\* A variant that counts the new images only.
LimitOfNew(images, existing) == Len(images) <= MaxPictures

WithinLimit(images, existing) == Len(images) + Len(existing) <= MaxPictures

\* The input is disabled, and a drop ignored, only while images are compressed.
CanPick == ~ picker.compressing /\ Len(picker.images) + Len(picker.existing) < MaxPictures

\* handleImageChange begins: it keeps the state of the render it belongs to.
PickImages ==
    /\ OnPage /\ CanPick /\ picker.picks < MaxBatches
    /\ \E b \in Slots, files \in {<<p>> : p \in Pictures} \cup {SetToSeq(Pictures)} :
          /\ batches[b] = NoBatch /\ \A c \in Slots : c < b => batches[c] # NoBatch
          /\ batches' = [batches EXCEPT ![b] =
                 [stage |-> "checking", files |-> files, text |-> post.text,
                  images |-> picker.images, existing |-> picker.existing]]
    /\ picker' = [picker EXCEPT !.picks = @ + 1] /\ Crossing
    /\ UNCHANGED <<post, reads, published, entered>>

\* The detected types are checked before isCompressing is set.
TypesChecked(b) ==
    /\ batches[b].stage = "checking" /\ UNCHANGED <<post, reads, published, entered, crossed>>
    /\ \/ batches' = [batches EXCEPT ![b] = NoBatch] /\ UNCHANGED picker
       \/ /\ batches' = [batches EXCEPT ![b].stage = "compressing"]
          /\ picker' = [picker EXCEPT !.compressing = TRUE]

\* Some of the places 1..n, in their order.
InOrder(n) == {k \in UNION {[1..m -> 1..n] : m \in 0..n} : \A i, j \in DOMAIN k : i < j => k[i] < k[j]}

\* compressImage: an image comes back smaller or not at all.
CompressImages(files) == {[i \in DOMAIN k |-> files[k[i]]] : k \in InOrder(Len(files))}

\* The write to the form that follows a change of the picker.
Read(text, images, existing) == [text |-> text, images |-> images, existing |-> existing]

Compressed(b) ==
    /\ batches[b].stage = "compressing"
    /\ \E valid \in CompressImages(batches[b].files) :
          LET at == batches[b]   new == at.images \o valid
          IN IF valid # <<>> /\ WithinLimit(new, at.existing)
             THEN /\ picker' = [picker EXCEPT !.images = new, !.previews = at.existing \o new,
                                              !.compressing = FALSE]
                  /\ reads' = reads \cup {Read(at.text, new, at.existing)}
             ELSE picker' = [picker EXCEPT !.compressing = FALSE] /\ UNCHANGED reads
    /\ batches' = [batches EXCEPT ![b] = NoBatch]
    /\ UNCHANGED <<post, published, entered, crossed>>

\* A variant that starts from an empty form.
FormOfImages(r) == [r EXCEPT !.text = NoText]

\* onImagesUpdate: the form of the render in which the callback was made.
OnImagesUpdate(r) == r

ReadDone ==
    \E r \in reads :
        /\ post' = OnImagesUpdate(r) /\ reads' = reads \ {r}
        /\ UNCHANGED <<picker, batches, published, entered, crossed>>

\* Removing a posted image writes the form at once, without the new images.
RemoveExisting(i) ==
    LET kept == RemoveAt(picker.existing, i)
    IN /\ i <= Len(picker.existing)
       /\ picker' = [picker EXCEPT !.existing = kept, !.previews = RemoveAt(@, i)]
       /\ post' = OnImagesUpdate(Read(post.text, <<>>, kept))
       /\ Cross(Pending \/ picker.images # <<>>)
       /\ UNCHANGED reads

RemoveNew(i) ==
    LET n == i - Len(picker.existing)
        kept == IF n \in 1..Len(picker.images) THEN RemoveAt(picker.images, n) ELSE picker.images
    IN /\ i > Len(picker.existing)
       /\ picker' = [picker EXCEPT !.images = kept, !.previews = RemoveAt(@, i)]
       /\ reads' = reads \cup {Read(post.text, kept, picker.existing)}
       /\ Crossing /\ UNCHANGED post

HandleRemoveImage ==
    /\ OnPage
    /\ \E i \in 1..Len(picker.previews) : RemoveExisting(i) \/ RemoveNew(i)
    /\ UNCHANGED <<batches, published, entered>>

HandleRemoveAll ==
    /\ OnPage /\ picker.previews # <<>>
    /\ picker' = [picker EXCEPT !.images = <<>>, !.existing = <<>>, !.previews = <<>>]
    /\ post' = OnImagesUpdate(Read(post.text, <<>>, <<>>)) /\ Crossing
    /\ UNCHANGED <<batches, reads, published, entered>>

-----------------------------------------------------------------------------
(* The submission.                                                         *)

\* The elements of a sequence in each order.
Shuffles(n) == {k \in [1..n -> 1..n] : \A i \in 1..n : \E j \in 1..n : k[j] = i}
InSomeOrder(s) == {[i \in DOMAIN s |-> s[k[i]]] : k \in Shuffles(Len(s))}

\* A variant that puts the uploaded images before the old ones.
UploadsFirst(p) == {new \o p.existing : new \in InSomeOrder(p.images)}

\* uploadDonationImages: the new images become cids behind the old ones. The service
\* puts the uploads in a map and answers in the order it happens to range over it.
ImageCids(p) == {p.existing \o new : new \in InSomeOrder(p.images)}

CanSubmitUpdate == post.text.edits > 0

\* handleSubmit works on the form of the click to its end, so its steps are one;
\* a failure of any of them leaves the form as it is.
SubmitUpdate ==
    /\ OnPage /\ CanSubmitUpdate
    /\ \E cids \in ImageCids(post) :
          published' = [images |-> cids, text |-> post.text, entered |-> entered,
                        shown |-> picker.previews, posted |-> Len(picker.existing),
                        clean |-> crossed = 0 /\ ~ Pending]
    /\ UNCHANGED <<post, picker, batches, reads, entered, crossed>>

UpdateNext ==
    \/ TypeText \/ AddHashes \/ RemoveHash
    \/ PickImages \/ \E b \in Slots : TypesChecked(b) \/ Compressed(b)
    \/ ReadDone \/ HandleRemoveImage \/ HandleRemoveAll
    \/ SubmitUpdate

UpdateSpec == UpdateInit /\ [][UpdateNext]_updateVars

-----------------------------------------------------------------------------

PictureSeqs == UNION {[1..n -> Pictures] : n \in 0..MaxPictures}

\* The state of the page has its type; the form never holds more images than
\* the limit, however its callbacks interleave (UploadDonationImage).
UpdateTypeOK ==
    /\ post.images \in PictureSeqs /\ post.existing \in PictureSeqs
    /\ Len(post.images) + Len(post.existing) <= MaxPictures
    /\ post.text.edits \in 0..MaxTyping /\ post.text.hashes \subseteq TxHashes
    /\ Cardinality(post.text.hashes) <= MaxHashes
    /\ \A r \in reads : Len(r.images) + Len(r.existing) <= MaxPictures
    /\ picker.compressing \in BOOLEAN /\ crossed \in 0..MaxCrossings
    /\ \A b \in Slots : batches[b].stage \in {"none", "checking", "compressing"}

\* Unless the user went on while images were being handled, or took away a
\* posted image with new ones beside it, the form keeps the text as entered and,
\* once the readers are done, the pictures as shown (useUpdateForm).
FormIsShown ==
    crossed = 0 => /\ post.text = entered
                   /\ ~ Pending => post.existing \o post.images = picker.previews

\* What is published is what the page showed at the click, under the same exceptions:
\* the text, the posted images in their order, then the new ones, of which the order
\* is the upload's (UpdateDonationContext, handleSubmit).
PublishedAsShown ==
    published # NoUpdate /\ published.clean =>
        LET posted == SubSeq(published.shown, 1, published.posted)
            new    == SubSeq(published.shown, published.posted + 1, Len(published.shown))
        IN /\ published.text = published.entered
           /\ \E order \in InSomeOrder(new) : published.images = posted \o order
=============================================================================
