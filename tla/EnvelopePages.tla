---------------------------- MODULE EnvelopePages ----------------------------
(***************************************************************************)
(* The pages of a lucky money session that exists: in the browser of one   *)
(* who may claim, the page that opens the envelope and then claims it, in  *)
(* several tabs; in the owner's browser the dashboard and the page of the  *)
(* session, which share a cache of answers, hear the socket, and close the *)
(* session. What the service does is what these pages can see of           *)
(* RedEnvelope; others are the other users, in one.                        *)
(***************************************************************************)
EXTENDS Naturals, Sequences

CONSTANTS ClaimTabs,   \* tabs in which the claim page can be open
          GiftAmounts  \* the amounts in the queue, in their order

ASSUME GiftAssumption == GiftAmounts \in Seq(Nat \ {0})

VARIABLES browser,  \* whose browser it is
          gift,     \* the envelope: its status, its queue, this user's reservation and claim
          opening,  \* the claim page of each tab
          cached,   \* per query: its data, and whether the next mount reads it again
          reading,  \* per query: the read under way
          board,    \* the owner's page: which it is, its modal, its debounce, its request
          heralds,  \* RED_ENVELOPE_LIST_REFRESH events on their way
          untold    \* history, per query: a change nobody told it of since it was last read

giftVars == <<browser, gift, opening, cached, reading, board, heralds, untold>>
ownerVars == <<cached, reading, board, heralds, untold>>

Queries == {"list", "detail"}
Statuses == {"PENDING", "PUBLISHED", "FAILED", "CLOSED"}
NewOpening == [status |-> "none", amount |-> 0, claim |-> "idle"]

GiftInit ==
    /\ browser \in {"claimer", "owner"}
    /\ gift = [status |-> IF browser = "owner" THEN "PENDING" ELSE "PUBLISHED",
               queue |-> GiftAmounts, reserved |-> 0, claim |-> "none", paid |-> 0]
    /\ opening = [t \in ClaimTabs |-> NewOpening]
    /\ cached = [q \in Queries |-> [data |-> "none", stale |-> TRUE]]
    /\ reading = [q \in Queries |-> IF q = "list" THEN "sent" ELSE "none"]
    /\ board = [view |-> "list", modal |-> FALSE, timer |-> FALSE, closing |-> "none"]
    /\ heralds = 0
    /\ untold = [q \in Queries |-> FALSE]

-----------------------------------------------------------------------------
(* The claim page.                                                         *)

Becomes(t, p) == opening' = [opening EXCEPT ![t] = p]

\* The page is loaded, again or for the first time; its timer of 2.5 s runs as
\* long as its status is idle.
ClaimPageLoaded(t) ==
    /\ opening[t].status \in {"none", "success", "error"}
    /\ Becomes(t, [NewOpening EXCEPT !.status = "idle"])
    /\ UNCHANGED <<browser, gift, ownerVars>>

\* The timer fires: handleClaimAmount.
OpensItself(t) ==
    /\ opening[t].status = "idle"
    /\ Becomes(t, [opening[t] EXCEPT !.status = "pending"])
    /\ UNCHANGED <<browser, gift, ownerVars>>

\* A variant of the script that takes an amount whenever it is asked.
PopsAgain ==
    /\ gift.queue # <<>>
    /\ gift' = [gift EXCEPT !.reserved = Head(gift.queue), !.queue = Tail(@)]

\* attemptClaimScript: the amount that was reserved, or the next of the queue.
AttemptClaim ==
    IF gift.reserved # 0 THEN UNCHANGED gift
    ELSE /\ gift.queue # <<>>
         /\ gift' = [gift EXCEPT !.reserved = Head(gift.queue), !.queue = Tail(@)]

\* ClaimAmountRedEnvelope: refused once a claim is on record, or without a turn;
\* a lost answer leaves the reservation.
AmountAnswered(t) ==
    /\ opening[t].status = "pending"
    /\ \/ /\ gift.claim = "none" /\ AttemptClaim
          /\ \/ Becomes(t, [opening[t] EXCEPT !.status = "success", !.amount = gift'.reserved])
             \/ Becomes(t, [opening[t] EXCEPT !.status = "error"])
       \/ Becomes(t, [opening[t] EXCEPT !.status = "error"]) /\ UNCHANGED gift
    /\ UNCHANGED <<browser, ownerVars>>

\* The button of RevealedScreen is disabled once it was pressed.
HandleClaim(t) ==
    /\ opening[t].status = "success" /\ opening[t].claim = "idle"
    /\ Becomes(t, [opening[t] EXCEPT !.claim = "pending"])
    /\ UNCHANGED <<browser, gift, ownerVars>>

\* ClaimRedEnvelope: VerifyReservation and ExecuteClaim, whose transfer may fail.
Claims ==
    /\ gift.status = "PUBLISHED" /\ gift.claim = "none" /\ gift.reserved # 0
    /\ \/ gift' = [gift EXCEPT !.claim = "SUCCESS", !.paid = gift.reserved]
       \/ gift' = [gift EXCEPT !.claim = "FAILED"]

ClaimAnswered(t) ==
    /\ opening[t].claim = "pending"
    /\ \/ /\ Claims
          /\ \/ gift'.claim = "SUCCESS" /\ Becomes(t, [opening[t] EXCEPT !.claim = "success"])
             \/ Becomes(t, [opening[t] EXCEPT !.claim = "error"])
       \/ Becomes(t, [opening[t] EXCEPT !.claim = "error"]) /\ UNCHANGED gift
    /\ UNCHANGED <<browser, ownerVars>>

OthersOpen ==
    /\ browser = "claimer" /\ gift.queue # <<>>
    /\ gift' = [gift EXCEPT !.queue = Tail(@)]
    /\ UNCHANGED <<browser, opening, ownerVars>>

\* The time to live of both keys of the queue is over.
QueueExpires ==
    /\ browser = "claimer" /\ (gift.queue # <<>> \/ gift.reserved # 0)
    /\ gift' = [gift EXCEPT !.queue = <<>>, !.reserved = 0]
    /\ UNCHANGED <<browser, opening, ownerVars>>

-----------------------------------------------------------------------------
(* The cache of the owner's browser.                                       *)

FirstRead(q) == reading[q] # "none" /\ cached[q].data = "none"

\* A variant that waits for whatever read is under way.
ReadJoined(q) == reading[q] # "none"

\* A fetch takes the place of the one under way, but not of a first one.
Joins(q) == FirstRead(q)

\* invalidateQueries of qs, and with only the mounted one, refetch: what is mounted
\* is read, the rest marked for its next mount.
Invalidate(qs) ==
    LET read == {q \in qs : q = board'.view /\ ~ Joins(q)}
    IN /\ cached' = [q \in Queries |-> IF q \in qs THEN [cached[q] EXCEPT !.stale = TRUE] ELSE cached[q]]
       /\ reading' = [q \in Queries |-> IF q \in read THEN "sent" ELSE reading[q]]
       /\ untold' = [q \in Queries |-> untold[q] \/ (q \in qs /\ reading[q] # "none" /\ (q # board'.view \/ FirstRead(q)))]

ReadServed(q) ==
    /\ reading[q] = "sent"
    /\ reading' = [reading EXCEPT ![q] = gift.status]
    /\ untold' = [untold EXCEPT ![q] = FALSE]
    /\ UNCHANGED <<browser, gift, opening, cached, board, heralds>>

\* An answer clears the mark, also one that was set after the read was served.
ReadAnswered(q) ==
    /\ reading[q] \notin {"none", "sent"}
    /\ cached' = [cached EXCEPT ![q] = [data |-> reading[q], stale |-> FALSE]]
    /\ reading' = [reading EXCEPT ![q] = "none"]
    /\ UNCHANGED <<browser, gift, opening, board, heralds, untold>>

\* Both tries of a read fail; the data stay.
ReadFailed(q) ==
    /\ reading[q] # "none"
    /\ reading' = [reading EXCEPT ![q] = "none"]
    /\ untold' = [untold EXCEPT ![q] = TRUE]
    /\ UNCHANGED <<browser, gift, opening, cached, board, heralds>>

\* DEFAULT_STALE_TIME passes.
GetsStale(q) ==
    /\ ~ cached[q].stale
    /\ cached' = [cached EXCEPT ![q].stale = TRUE]
    /\ UNCHANGED <<browser, gift, opening, reading, board, heralds, untold>>

-----------------------------------------------------------------------------
(* The owner's pages.                                                      *)

\* A variant that does not clear its timer.
LeaveTimer == UNCHANGED untold /\ board' = [board EXCEPT !.view = "detail", !.modal = FALSE]

\* The effect's cleanup drops a notice that waits for its timer.
LeaveList ==
    /\ untold' = [untold EXCEPT !["list"] = @ \/ board.timer]
    /\ board' = [board EXCEPT !.view = "detail", !.timer = FALSE]

LeaveDetail == board' = [board EXCEPT !.view = "list", !.modal = FALSE] /\ UNCHANGED untold

\* A mount reads what has no fresh data and is not being read.
Navigate ==
    /\ browser = "owner"
    /\ IF board.view = "list" THEN LeaveList ELSE LeaveDetail
    /\ reading' = [q \in Queries |-> IF q = board'.view /\ cached[q].stale /\ reading[q] = "none"
                                     THEN "sent" ELSE reading[q]]
    /\ UNCHANGED <<browser, gift, opening, cached, heralds>>

\* The indexer decides about the deposit and tells the owner.
GiftDecided ==
    /\ browser = "owner" /\ gift.status = "PENDING"
    /\ \E s \in {"PUBLISHED", "FAILED"} : gift' = [gift EXCEPT !.status = s]
    /\ heralds' = heralds + 1
    /\ UNCHANGED <<browser, opening, cached, reading, board, untold>>

\* The job, or another device, ends the session; nobody is told.
EndsSilently ==
    /\ gift.status \in {"PENDING", "PUBLISHED"}
    /\ gift' = [gift EXCEPT !.status = "CLOSED"]
    /\ untold' = [q \in Queries |-> browser = "owner"]
    /\ UNCHANGED <<browser, opening, cached, reading, board, heralds>>

\* handleRedEnvelopeUpdated of the page, handleRedEnvelopeListRefresh of the list.
HeraldArrives ==
    /\ heralds > 0 /\ heralds' = heralds - 1
    /\ IF board.view = "list"
       THEN /\ board' = [board EXCEPT !.timer = TRUE]
            /\ untold' = [untold EXCEPT !["detail"] = @ \/ cached["detail"].data # "none" \/ reading["detail"] # "none"]
            /\ UNCHANGED <<cached, reading>>
       ELSE /\ UNCHANGED <<board, cached>>
            /\ reading' = [reading EXCEPT !["detail"] = IF Joins("detail") THEN @ ELSE "sent"]
            /\ untold' = [q \in Queries |-> untold[q] \/ q = "list" \/ FirstRead(q)]
    /\ UNCHANGED <<browser, gift, opening>>

\* WS_INVALIDATE_DELAY is over.
DebounceFires ==
    /\ board.timer
    /\ board' = [board EXCEPT !.timer = FALSE]
    /\ Invalidate({"list"})
    /\ UNCHANGED <<browser, gift, opening, heralds>>

IsClosable == cached["detail"].data = "PUBLISHED"

\* onOpenCloseSessionModal and the modal's two buttons.
CloseModal ==
    /\ board.view = "detail" /\ board.closing = "none"
    /\ \/ ~ board.modal /\ IsClosable /\ board' = [board EXCEPT !.modal = TRUE]
       \/ board.modal /\ board' = [board EXCEPT !.modal = FALSE]
       \/ board.modal /\ board' = [board EXCEPT !.modal = FALSE, !.closing = "sent"]
    /\ UNCHANGED <<browser, gift, opening, cached, reading, heralds, untold>>

\* CloseSession asks for the owner only.
CloseServed ==
    /\ board.closing = "sent"
    /\ gift' = [gift EXCEPT !.status = "CLOSED"]
    /\ board' = [board EXCEPT !.closing = "served"]
    /\ UNCHANGED <<browser, opening, cached, reading, heralds, untold>>

CloseSucceeds ==
    /\ board.closing = "served"
    /\ board' = [board EXCEPT !.closing = "none"]
    /\ Invalidate(Queries)
    /\ UNCHANGED <<browser, gift, opening, heralds>>

\* The request was refused, or it or its answer got lost: a toast.
CloseFails ==
    /\ board.closing # "none"
    /\ board' = [board EXCEPT !.closing = "none"]
    /\ untold' = [q \in Queries |-> untold[q] \/ board.closing = "served"]
    /\ UNCHANGED <<browser, gift, opening, cached, reading, heralds>>

GiftNext ==
    \/ /\ browser = "claimer"
       /\ \/ \E t \in ClaimTabs : \/ ClaimPageLoaded(t) \/ OpensItself(t) \/ AmountAnswered(t)
                                  \/ HandleClaim(t) \/ ClaimAnswered(t)
          \/ OthersOpen \/ QueueExpires
    \/ EndsSilently
    \/ /\ browser = "owner"
       /\ \/ \E q \in Queries : ReadServed(q) \/ ReadAnswered(q) \/ ReadFailed(q) \/ GetsStale(q)
          \/ Navigate \/ GiftDecided \/ HeraldArrives \/ DebounceFires
          \/ CloseModal \/ CloseServed \/ CloseSucceeds \/ CloseFails

GiftSpec == GiftInit /\ [][GiftNext]_giftVars

-----------------------------------------------------------------------------
\* Types; the debounce lives as long as the list, the modal as long as the page of
\* the session (useCreatedRedEnvelops, RedEnvelopeDetail).
GiftTypeOK ==
    /\ gift.status \in Statuses /\ gift.claim \in {"none", "SUCCESS", "FAILED"}
    /\ \A t \in ClaimTabs : opening[t].claim # "idle" => opening[t].amount # 0
    /\ \A q \in Queries : /\ cached[q].data \in Statuses \cup {"none"}
                          /\ reading[q] \in Statuses \cup {"none", "sent"}
    /\ board.timer => board.view = "list"
    /\ board.modal => board.view = "detail"

\* A user is paid the amount that every page of his has shown him, in whichever tab
\* he claims it and however often he opened the envelope (attemptClaimScript,
\* VerifyReservation).
ClaimedAsShown ==
    gift.claim = "SUCCESS" => \A t \in ClaimTabs : opening[t].amount \in {0, gift.paid}

\* At rest a page of the owner shows the status the service has, unless a change was
\* never told to it: made by the job or another device, or announced while the page
\* was not mounted, while its debounce was running out, or while the very first read
\* was under way (useRedEnvelopes, useRedEnvelopeDetail).
StatusAsAnnounced ==
    \A q \in Queries :
        browser = "owner" /\ board.view = q /\ reading[q] = "none" /\ heralds = 0
        /\ ~ board.timer /\ board.closing = "none" /\ ~ untold[q]
            => cached[q].data = gift.status
=============================================================================
