--------------------------- MODULE ChatComposer ---------------------------
(***************************************************************************)
(* Writing in the chat of a trading room (ChatSidebar): the draft with its *)
(* text and files, and the message on its way, whose files are uploaded    *)
(* one after the other before it is sent.  The text field and the drop     *)
(* zone stay open while a message is on its way.                           *)
(***************************************************************************)
EXTENDS Naturals, Sequences, SequencesExt

CONSTANTS
    Texts,        \* the texts written in a run, each once
    LongTexts,    \* those over MAX_CHAR_LIMIT, which are cut
    Files,        \* the files attached in a run, each once
    Images,       \* those shown by an object URL
    LargeFiles,   \* those over MAX_FILE_SIZE
    NoText

ASSUME ComposerConstants == /\ LongTexts \subseteq Texts /\ NoText \notin Texts
                            /\ Images \cup LargeFiles \subseteq Files

VARIABLES
    draft,      \* the text and the files picked, in order; the warning of the limit
    outbox,     \* the message on its way
    blobs,      \* the object URLs alive, by file
    delivered,  \* the messages that the chat has taken (history)
    submitted,  \* the messages that were submitted (history)
    unused,     \* what is still to be written: a bound
    givenUp,    \* files left out after maxRetries attempts (history)
    discarded   \* what the writer took back or replaced (history)

composerVars == <<draft, outbox, blobs, delivered, submitted, unused, givenUp, discarded>>

MaxRetries == 3
Idle == [st |-> "idle", text |-> NoText, files |-> <<>>, at |-> 1, retries |-> 0, uploaded |-> <<>>]
EmptyDraft == [text |-> NoText, picked |-> <<>>, warning |-> FALSE]

\* What a text and some files amount to.
Content(text, files) == ({text} \ {NoText}) \cup ToSet(files)

ComposerInit ==
    /\ draft = EmptyDraft /\ outbox = Idle
    /\ blobs = {} /\ delivered = {} /\ submitted = {}
    /\ unused = Texts \cup Files
    /\ givenUp = {} /\ discarded = {}

\* handleTextareaChange cuts a long text and says so.
HandleTextareaChange(t) ==
    /\ t \in unused /\ unused' = unused \ {t}
    /\ draft' = [draft EXCEPT !.text = t, !.warning = (t \in LongTexts)]
    /\ discarded' = discarded \cup Content(draft.text, <<>>)
    /\ UNCHANGED <<outbox, blobs, delivered, submitted, givenUp>>

\* A variant that takes any file.
PickedAnySize(f) ==
    /\ draft' = [draft EXCEPT !.picked = Append(@, f)]
    /\ blobs' = blobs \cup ({f} \cap Images)
    /\ UNCHANGED discarded

\* A file is added to the draft, unless it is too large.
Picked(f) ==
    \/ /\ f \notin LargeFiles
       /\ draft' = [draft EXCEPT !.picked = Append(@, f)]
       /\ blobs' = blobs \cup ({f} \cap Images)
       /\ UNCHANGED discarded
    \/ f \in LargeFiles /\ discarded' = discarded \cup {f} /\ UNCHANGED <<draft, blobs>>

\* The file dialog does not open while a message is on its way.
HandleFileChange(f) ==
    /\ outbox.st = "idle"
    /\ f \in unused /\ unused' = unused \ {f} /\ Picked(f)
    /\ UNCHANGED <<outbox, delivered, submitted, givenUp>>

\* A file can be pasted at any time ...
HandlePaste(f) ==
    /\ f \in unused /\ unused' = unused \ {f} /\ Picked(f)
    /\ UNCHANGED <<outbox, delivered, submitted, givenUp>>

\* ... and dropped on the chat.
HandleDrop(f) ==
    /\ f \in unused /\ unused' = unused \ {f} /\ Picked(f)
    /\ UNCHANGED <<outbox, delivered, submitted, givenUp>>

RemoveFile(i) ==
    /\ blobs' = blobs \ {draft.picked[i]}
    /\ draft' = [draft EXCEPT !.picked = RemoveAt(@, i)]
    /\ discarded' = discarded \cup {draft.picked[i]}
    /\ UNCHANGED <<outbox, delivered, submitted, unused, givenUp>>

\* The submit button and the enter key need something to send.
HasContent == draft.text # NoText \/ draft.picked # <<>>

\* A variant without the reference that marks a message on its way.
SendOverlapping ==
    /\ HasContent
    /\ outbox' = [Idle EXCEPT !.st = "uploading", !.text = draft.text, !.files = draft.picked]
    /\ draft' = EmptyDraft
    /\ submitted' = submitted \cup {[text |-> draft.text, files |-> draft.picked]}
    /\ UNCHANGED <<blobs, delivered, unused, givenUp, discarded>>

\* handleSendMessage clears the draft at once and keeps a copy.
HandleSendMessage ==
    /\ outbox.st = "idle" /\ HasContent
    /\ outbox' = [Idle EXCEPT !.st = "uploading", !.text = draft.text, !.files = draft.picked]
    /\ draft' = EmptyDraft
    /\ submitted' = submitted \cup {[text |-> draft.text, files |-> draft.picked]}
    /\ UNCHANGED <<blobs, delivered, unused, givenUp, discarded>>

Uploading == outbox.st = "uploading" /\ outbox.at <= Len(outbox.files)
File == outbox.files[outbox.at]
NextFile == [outbox EXCEPT !.at = @ + 1, !.retries = 0]

\* uploadAttachmentFile: a place at the CDN, then the PUT of the file.
UploadSucceeds ==
    /\ Uploading
    /\ outbox' = [NextFile EXCEPT !.uploaded = Append(@, File)]
    /\ UNCHANGED <<draft, blobs, delivered, submitted, unused, givenUp, discarded>>

\* An attempt throws; after MaxRetries the file is left out.  An answer without
\* a place is no error: the loop tries again and counts nothing.
UploadFails ==
    /\ Uploading
    /\ \/ /\ outbox.retries + 1 < MaxRetries
          /\ outbox' = [outbox EXCEPT !.retries = @ + 1]
          /\ UNCHANGED givenUp
       \/ /\ outbox.retries + 1 = MaxRetries
          /\ outbox' = NextFile
          /\ givenUp' = givenUp \cup {File}
    /\ UNCHANGED <<draft, blobs, delivered, submitted, unused, discarded>>

\* A variant that puts the files in another order and keeps the images alone.
SendDmReordered ==
    /\ outbox.st = "uploading" /\ outbox.at > Len(outbox.files)
    /\ outbox' = [outbox EXCEPT !.st = "sending", !.uploaded = SelectSeq(Reverse(@), LAMBDA f : f \in Images)]
    /\ UNCHANGED <<draft, blobs, delivered, submitted, unused, givenUp, discarded>>

\* All files are done with: the message goes to the channel.
SendDM ==
    /\ outbox.st = "uploading" /\ outbox.at > Len(outbox.files)
    /\ outbox' = [outbox EXCEPT !.st = "sending"]
    /\ UNCHANGED <<draft, blobs, delivered, submitted, unused, givenUp, discarded>>

\* The object URLs go with the message.
SendSucceeds ==
    /\ outbox.st = "sending"
    /\ delivered' = delivered \cup {[text |-> outbox.text, files |-> outbox.uploaded]}
    /\ blobs' = blobs \ ToSet(outbox.files)
    /\ outbox' = Idle
    /\ UNCHANGED <<draft, submitted, unused, givenUp, discarded>>

\* A variant that frees the object URLs in any case.
SendFailsRevoking ==
    /\ outbox.st = "sending"
    /\ draft' = [draft EXCEPT !.text = outbox.text, !.picked = outbox.files]
    /\ blobs' = blobs \ ToSet(outbox.files)
    /\ outbox' = Idle
    /\ UNCHANGED <<delivered, submitted, unused, givenUp, discarded>>

\* The copy goes back into the draft, over what was written meanwhile.
SendFails ==
    /\ outbox.st = "sending"
    /\ draft' = [draft EXCEPT !.text = outbox.text, !.picked = outbox.files]
    /\ outbox' = Idle
    /\ UNCHANGED <<blobs, delivered, submitted, unused, givenUp, discarded>>

ComposerNext ==
    \/ \E t \in Texts : HandleTextareaChange(t)
    \/ \E f \in Files : HandleFileChange(f) \/ HandlePaste(f) \/ HandleDrop(f)
    \/ \E i \in DOMAIN draft.picked : RemoveFile(i)
    \/ HandleSendMessage
    \/ UploadSucceeds \/ UploadFails \/ SendDM
    \/ SendSucceeds \/ SendFails

ComposerSpec == ComposerInit /\ [][ComposerNext]_composerVars

----------------------------------------------------------------------------

Pieces == (UNION {Content(m.text, m.files) : m \in delivered})
          \cup Content(draft.text, draft.picked) \cup Content(outbox.text, outbox.files)

\* Types of the state.
ComposerTypeOK ==
    /\ draft.text \in Texts \cup {NoText} /\ draft.picked \in Seq(Files \ LargeFiles)
    /\ draft.warning \in BOOLEAN
    /\ outbox.st \in {"idle", "uploading", "sending"} /\ outbox.text \in Texts \cup {NoText}
    /\ outbox.files \in Seq(Files) /\ outbox.uploaded \in Seq(Files)
    /\ outbox.at \in 1..(Len(outbox.files) + 1) /\ outbox.retries \in 0..(MaxRetries - 1)
    /\ blobs \subseteq Images /\ givenUp \subseteq Files

\* What was submitted is on its way, delivered or back in the draft, unless its
\* writer took it back or its upload failed to the end: a failed message loses
\* nothing of its own (what is written meanwhile it may overwrite).
SubmittedIsNotLost ==
    \A m \in submitted : Content(m.text, m.files) \subseteq Pieces \cup givenUp \cup discarded

\* A preview that is shown, or may be shown again when the message fails, has
\* a URL that is alive.
PreviewsAlive == (ToSet(draft.picked) \cup ToSet(outbox.files)) \cap Images \subseteq blobs

\* The files of s are files of w, in the order they have there.
InOrder(s, w) ==
    \A i, j \in DOMAIN s : i <= j =>
        \E a, b \in DOMAIN w : w[a] = s[i] /\ w[b] = s[j] /\ (i < j => a < b)

\* A delivered message is one that was submitted: its text, and its files in
\* their order but for those whose upload failed to the end.
DeliveredAsWritten ==
    \A d \in delivered : \E m \in submitted :
        /\ d.text = m.text /\ InOrder(d.files, m.files)
        /\ ToSet(m.files) \ ToSet(d.files) \subseteq givenUp

\* Nothing that was written is lost on its way through uploads that fail, messages
\* that are refused and a draft that is written meanwhile, and nothing else arrives.
NothingWrittenIsLost == SubmittedIsNotLost /\ PreviewsAlive /\ DeliveredAsWritten
=============================================================================
