----------------------------- MODULE EnvelopeForm -----------------------------
(***************************************************************************)
(* The page that creates a lucky money session: the form whose fields are  *)
(* validated against each other and against a balance that arrives later   *)
(* (red-envelope-basic-info, red-envelope-form), and the sequence behind   *)
(* its button (CreateRedEnvelopeContext): the envelope is created, the     *)
(* deposit is sent by the browser, and a socket event or a timer ends the  *)
(* wait. The side panel shows the QR code of the envelope (qr-review).     *)
(* The server's and the indexer's part is what the page can see of         *)
(* RedEnvelope.                                                            *)
(***************************************************************************)
EXTENDS Naturals, FiniteSets

CONSTANTS TopTotal,      \* how much can be typed: the total,
          TopCount,      \* the count,
          TopShare,      \* and the limits of a share
          UserBalance,   \* the balance of the user once it is loaded
          MaxCount,      \* MAX_PARTICIPANT_COUNT
          MaxEnvelopes   \* submissions

ASSUME FormAssumption ==
    {TopTotal, TopCount, TopShare, UserBalance, MaxCount, MaxEnvelopes} \subseteq Nat

VARIABLES fields,     \* the values of the form
          faults,     \* fields under which an error message is shown
          unchecked,  \* history: inputs that came back after the last check of them
          early,      \* history: the total was checked before the balance came
          funds,      \* userBalance, 0 until it is loaded
          phase,      \* where the button's sequence is
          shownQr,    \* generatedEnvelope, 0 for null
          awaited,    \* pendingEnvelopeId, 0 for null
          isSuccess,
          timer,      \* the fallback timer runs
          timeoutId,  \* timeoutId is not null
          lapsed,     \* history: a wait of this page was given up by its timer
          sessions,   \* the envelopes in the database
          deposits,   \* envelopes whose deposit the chain has accepted
          notices     \* RED_ENVELOPE_LIST_REFRESH events on their way

form == <<fields, faults, unchecked, early, funds>>
clock == <<timer, timeoutId, lapsed>>
flow == <<phase, shownQr, awaited, isSuccess, clock>>
back == <<sessions, deposits, notices>>
formVars == <<form, flow, back>>

Amounts4 == {"total", "count", "min", "max"}
Ids      == 1..MaxEnvelopes
Phases   == {"edit", "confirm", "creating", "paying", "marking", "waiting"}

-----------------------------------------------------------------------------
(* The rules of the inputs. A rule skips what is still empty (0).          *)

TotalFault(f, available) ==
    \/ f.total < 1 \/ f.total > available
    \/ f.count > 0 /\ IF f.random
                      THEN \/ f.min > 0 /\ f.total < f.min * f.count
                           \/ f.max > 0 /\ f.total > f.max * f.count
                      ELSE f.total < f.count

\* A variant without the limit on the number of participants.
CountUnbounded(f) == f.count < 1 \/ (f.total > 0 /\ f.total < f.count)

CountFault(f) == f.count < 1 \/ f.count > MaxCount \/ (f.total > 0 /\ f.total < f.count)

MinFault(f) == \/ f.min < 1 \/ (f.max > 0 /\ f.min > f.max)
               \/ f.count > 0 /\ f.total > 0 /\ f.total < f.min * f.count

MaxFault(f) == \/ f.max < 1 \/ f.max < f.min
               \/ f.count > 0 /\ f.total > 0 /\ f.total > f.max * f.count

\* The inputs on the page; a check passes over one that is not mounted.
Mounted(f) == Amounts4 \ (IF f.random THEN {} ELSE {"min", "max"})

FaultsOf(f, available, inputs) ==
    {x \in inputs : CASE x = "total" -> TotalFault(f, available) [] x = "count" -> CountFault(f)
                      [] x = "min"   -> MinFault(f)              [] x = "max"   -> MaxFault(f)}

Faults(f, available) == FaultsOf(f, available, Mounted(f))

\* ValidateRequest of the service.
Accepts(f) ==
    /\ f.total >= f.count /\ f.count <= MaxCount
    /\ f.random => f.min <= f.max /\ f.min * f.count <= f.total /\ f.total <= f.max * f.count

\* A variant that checks no other field again.
NoneRevalidated(x) == {x}

\* triggerIfDirty: the fields a change checks again, if they have been filled in.
Revalidated(x) == CASE x \in {"total", "count"} -> Amounts4
                    [] x = "min" -> {"total", "min", "max"}
                    [] x = "max" -> {"total", "min", "max"}

Dirty(f) == {x \in Amounts4 : f[x] > 0}

-----------------------------------------------------------------------------
(* The form.                                                               *)

Typeable(x) == 0..(CASE x = "total" -> TopTotal [] x = "count" -> TopCount [] OTHER -> TopShare)

TypeField(x) ==
    /\ phase # "confirm" /\ ~ isSuccess
    /\ x \in {"min", "max"} => fields.random
    /\ \E v \in Typeable(x) :
          /\ v # fields[x]
          /\ fields' = [fields EXCEPT ![x] = v]
          /\ LET checked == {x} \cup (Revalidated(x) \cap Dirty(fields'))
             IN /\ faults' = (faults \ checked) \cup (Faults(fields', funds) \cap checked)
                /\ early' = IF "total" \in checked THEN funds = 0 ELSE early
                /\ unchecked' = unchecked \ checked
    /\ UNCHANGED <<funds, flow, back>>

\* Every field is checked again, before the inputs of the limits come or go: those
\* that come are passed over, and lose their messages.
ToggleRandom ==
    /\ phase # "confirm" /\ ~ isSuccess
    /\ fields' = [fields EXCEPT !.random = ~ @]
    /\ faults' = FaultsOf(fields', funds, Mounted(fields))
    /\ unchecked' = Mounted(fields') \ Mounted(fields)
    /\ early' = (funds = 0)
    /\ UNCHANGED <<funds, flow, back>>

\* fetchUserBalance; nothing is checked again.
BalanceLoads ==
    /\ funds = 0
    /\ funds' = UserBalance
    /\ UNCHANGED <<fields, faults, unchecked, early, flow, back>>

-----------------------------------------------------------------------------
(* The button's sequence.                                                  *)

\* handleSubmit checks everything before initiateCreation.
InitiateCreation ==
    /\ phase = "edit" /\ ~ isSuccess
    /\ faults' = Faults(fields, funds) /\ early' = (funds = 0) /\ unchecked' = {}
    /\ IF faults' = {} THEN phase' = "confirm" /\ shownQr' = 0 ELSE UNCHANGED <<phase, shownQr>>
    /\ UNCHANGED <<fields, funds, awaited, isSuccess, clock, back>>

\* RedEnvelopeConfirmDialog: confirm, or leave.
AnswerDialog ==
    /\ phase = "confirm"
    /\ \/ phase' = "creating" /\ \E e \in Ids : sessions[e] = "none"
       \/ phase' = "edit"
    /\ UNCHANGED <<form, shownQr, awaited, isSuccess, clock, back>>

Newest == CHOOSE e \in Ids \cup {0} :
              (e > 0 => sessions[e] # "none") /\ \A d \in Ids : d > e => sessions[d] = "none"

\* The answer of the POST; a lost answer leaves the envelope behind.
EnvelopeCreated ==
    /\ phase = "creating"
    /\ \/ sessions' = [sessions EXCEPT ![Newest + 1] = "PENDING"] /\ phase' \in {"paying", "edit"}
       \/ phase' = "edit" /\ UNCHANGED sessions
    /\ shownQr' = IF phase' = "edit" THEN 0 ELSE shownQr
    /\ UNCHANGED <<form, awaited, isSuccess, clock, deposits, notices>>

\* A variant that starts to wait without its timer.
WithoutTimer == UNCHANGED clock

\* A timer that fired left its id. Over it, the cleanup of the effect resets the id that
\* was just set, and then, for that change, clears the new timer.
StartTimer == timer' = ~ timeoutId /\ timeoutId' = ~ timeoutId /\ UNCHANGED lapsed

WaitForEvent == phase' = "waiting" /\ awaited' = Newest /\ shownQr' = Newest /\ StartTimer

\* The transfer's answer: success with a hash, success without one, or failure,
\* which also stands for an answer that was lost after the chain took the deposit.
DepositAnswered ==
    /\ phase = "paying"
    /\ \/ deposits' = deposits \cup {Newest} /\ WaitForEvent
       \/ /\ deposits' = deposits \cup {Newest} /\ phase' = "edit" /\ shownQr' = 0
          /\ UNCHANGED <<awaited, clock>>
       \/ /\ deposits' \in {deposits, deposits \cup {Newest}} /\ phase' = "marking"
          /\ UNCHANGED <<shownQr, awaited, clock>>
    /\ UNCHANGED <<form, isSuccess, sessions, notices>>

\* updateRedEnvelopeStatus of the envelope that could not be paid, or its failure.
MarkedFailed ==
    /\ phase = "marking"
    /\ phase' = "edit"
    /\ \/ /\ sessions[Newest] = "PENDING"
          /\ sessions' = [sessions EXCEPT ![Newest] = "FAILED"] /\ UNCHANGED shownQr
       \/ shownQr' = 0 /\ UNCHANGED sessions
    /\ UNCHANGED <<form, awaited, isSuccess, clock, deposits, notices>>

\* The indexer reports the deposit's block; the owner is told whichever it is.
StatusDecided(e) ==
    /\ sessions[e] = "PENDING" /\ e \in deposits
    /\ \E s \in {"PUBLISHED", "FAILED"} : sessions' = [sessions EXCEPT ![e] = s]
    /\ notices' = notices \cup {e}
    /\ UNCHANGED <<form, flow, deposits>>

\* A variant that takes the event of any envelope for its own.
AnyEventCounts(e) == awaited # 0

EventCounts(e) == awaited = e

\* A variant that leaves the timer running after the event came.
TimerLeft == UNCHANGED clock

ClearPendingTimeout == timer' = FALSE /\ timeoutId' = FALSE /\ UNCHANGED lapsed

\* onRedEnvelopeStatusUpdated: the status in the event is not looked at.
NoticeArrives(e) ==
    /\ e \in notices /\ notices' = notices \ {e}
    /\ IF EventCounts(e) /\ phase = "waiting"
       THEN /\ phase' = "edit" /\ isSuccess' = TRUE /\ awaited' = 0 /\ ClearPendingTimeout
            /\ funds' \in {0, UserBalance}
       ELSE UNCHANGED <<phase, isSuccess, awaited, clock, funds>>
    /\ UNCHANGED <<fields, faults, unchecked, early, shownQr, sessions, deposits>>

\* TIMEOUT_MS: the wait is given up, for good; the timer's id stays.
TimerFires ==
    /\ timer
    /\ timer' = FALSE /\ lapsed' = TRUE /\ phase' = "edit" /\ awaited' = 0
    /\ UNCHANGED <<form, shownQr, isSuccess, timeoutId, back>>

-----------------------------------------------------------------------------
FormInit ==
    /\ fields = [total |-> 0, count |-> 0, min |-> 0, max |-> 0, random |-> TRUE]
    /\ faults = {} /\ unchecked = {} /\ early = TRUE /\ funds = 0
    /\ phase = "edit" /\ shownQr = 0 /\ awaited = 0 /\ isSuccess = FALSE
    /\ timer = FALSE /\ timeoutId = FALSE /\ lapsed = FALSE
    /\ sessions = [e \in Ids |-> "none"] /\ deposits = {} /\ notices = {}

FormNext ==
    \/ \E x \in Amounts4 : TypeField(x)
    \/ ToggleRandom \/ BalanceLoads \/ InitiateCreation \/ AnswerDialog \/ EnvelopeCreated
    \/ DepositAnswered \/ MarkedFailed \/ TimerFires
    \/ \E e \in Ids : StatusDecided(e) \/ NoticeArrives(e)

FormSpec == FormInit /\ [][FormNext]_formVars

-----------------------------------------------------------------------------
FormTypeOK ==
    /\ fields \in [total : 0..TopTotal, count : 0..TopCount, min : 0..TopShare,
                   max : 0..TopShare, random : BOOLEAN]
    /\ faults \subseteq Amounts4 /\ unchecked \subseteq {"min", "max"}
    /\ funds \in {0, UserBalance} /\ phase \in Phases
    /\ {timer, timeoutId, lapsed} \subseteq BOOLEAN
    /\ shownQr \in Ids \cup {0} /\ awaited \in Ids \cup {0}
    /\ deposits \subseteq Ids /\ notices \subseteq deposits
    /\ timer => phase = "waiting" /\ awaited # 0 /\ timeoutId
    /\ isSuccess => phase = "edit" /\ ~ timer

(* What the form lets through to the confirmation, the service's own       *)
(* validation accepts: the client's rules imply the server's, whatever was *)
(* typed before and whichever inputs are hidden (BasicInfo's rules and     *)
(* ValidateRequest).                                                       *)
ConfirmedIsAccepted == phase = "confirm" => Accepts(fields) /\ fields.total <= UserBalance

(* A message under a field that has been filled in says what is wrong now, *)
(* and there is one if something is: a change elsewhere that mends or      *)
(* breaks it checks it again. Two exceptions: the balance may arrive after *)
(* the check, and the inputs that the switch to random amounts brings back *)
(* are wrong in silence until they are checked (triggerIfDirty).           *)
ErrorsAreCurrent ==
    \A x \in Dirty(fields) \cap Mounted(fields) : (x = "total" => ~ early) =>
        LET wrong == x \in Faults(fields, UserBalance)
        IN (x \in faults => wrong) /\ (wrong => x \in faults \cup unchecked)

(* The page does not wait for nothing: while it waits the event is still   *)
(* due or the timer runs, so that the button comes back. The exception is  *)
(* a page whose timer gave up a wait before: the id it leaves costs the    *)
(* next wait its timer (CreateRedEnvelopeContext's fallback timer).        *)
WaitingEnds == phase = "waiting" => timer \/ lapsed

(* The QR code offered for sharing is that of an envelope whose deposit    *)
(* was sent and whose status the server has decided, not of another one    *)
(* the user created earlier (onRedEnvelopeStatusUpdated).                  *)
SharedIsDecided ==
    isSuccess /\ shownQr # 0 => shownQr \in deposits /\ sessions[shownQr] # "PENDING"

(* The form keeps its word to its user: what it confirms is accepted, its  *)
(* messages are about what is typed, its button comes back and what it     *)
(* shares is decided, over any number of submissions                       *)
(* (CreateRedEnvelopeContext).                                             *)
FormIsHonest == ConfirmedIsAccepted /\ ErrorsAreCurrent /\ WaitingEnds /\ SharedIsDecided
==============================================================================
