-------------------------- MODULE PaymentAccounts --------------------------
(***************************************************************************)
(* The bank accounts of a seller: the table of the dong-service, which has *)
(* one row for each bank of a user, the profile page that edits them in    *)
(* one tab, and the payment section of a new SELL offer in another.  Each  *)
(* tab shows the accounts it has fetched last.                             *)
(***************************************************************************)
EXTENDS Naturals

CONSTANTS
    Banks,      \* bank names; a row's id stands for its bank
    Numbers,    \* account numbers (with the name of their holder)
    NoNumber,   \* an empty field
    NoBank,
    AccountTurns    \* how often the accounts are changed in a run

ASSUME AccountConstants == /\ NoNumber \notin Numbers /\ NoBank \notin Banks /\ AccountTurns \in Nat
                           /\ Banks # {}

VARIABLES
    table,      \* user_payment_info
    deletions,  \* deletions under way, with what each of them has read
    saved,      \* the accounts as fetched, by tab
    fields,     \* the payment section: what it holds, and payment_info_id
    saving,     \* its update on the way
    confirm,    \* the offer to be confirmed, with the account shown
    behind,     \* an edit that the tab of the form, or the offer to be confirmed, does not show (history)
    misled,     \* an offer was created with an account other than shown (history)
    waived,     \* the primary account was given up by an edit, was not seen to be primary when
                \* it was deleted, its promotion failed, or deletions overlapped (history)
    turns

accountVars == <<table, deletions, saved, fields, saving, confirm, behind, misled, waived, turns>>

AccountTabs == {"profile", "offer"}
Row == [number : Numbers \cup {NoNumber}, live : BOOLEAN, primary : BOOLEAN]
NoRow == [number |-> NoNumber, live |-> FALSE, primary |-> FALSE]
Live(t) == {b \in Banks : t[b].live}
NoList == [b \in Banks |-> NoRow]
EmptyFields == [bank |-> NoBank, number |-> NoNumber, primary |-> FALSE, id |-> NoBank, filled |-> FALSE, open |-> FALSE]
NoUpdate == [bank |-> NoBank, number |-> NoNumber, primary |-> FALSE]
NoConfirm == [id |-> NoBank, bank |-> NoBank, number |-> NoNumber]

AccountsInit ==
    /\ table \in [Banks -> {NoRow} \cup [number : Numbers, live : {TRUE}, primary : {TRUE}]]
    /\ \A b, c \in Live(table) : b = c
    /\ deletions = {} /\ saved = [t \in AccountTabs |-> NoList]
    /\ fields = EmptyFields /\ saving = NoUpdate /\ confirm = NoConfirm
    /\ behind = FALSE /\ misled = FALSE /\ waived = FALSE /\ turns = AccountTurns

----------------------------------------------------------------------------
(* The service *)

\* A variant that lets the other accounts keep the flag.
UpsertedBeside(u) ==
    [b \in Banks |-> IF b = u.bank THEN [number |-> u.number, live |-> TRUE, primary |-> u.primary \/ Live(table) = {}]
                     ELSE table[b]]

\* UpsertPaymentInfo, one transaction: the row of the bank is written, whatever
\* id the request named; the first account is primary, and a primary account
\* takes the flag from the others.
Upserted(u) ==
    LET primary == u.primary \/ Live(table) = {}
    IN [b \in Banks |-> CASE b = u.bank -> [number |-> u.number, live |-> TRUE, primary |-> primary]
                          [] b # u.bank /\ primary /\ table[b].live -> [table[b] EXCEPT !.primary = FALSE]
                          [] OTHER -> table[b]]

\* The update gives up the primary account.
GivesUp(u) == ~u.primary /\ Live(table) # {} /\ table[u.bank].primary

\* DeletePaymentInfo is four statements without a lock. GetPrimaryByUserID finds the
\* primary account or, without one, the oldest of them, or fails, which counts as
\* another one ...
DeletePaymentInfo(b) ==
    /\ \E primary \in BOOLEAN :
          /\ primary => table[b].primary \/ (table[b].live /\ \A c \in Banks : ~table[c].primary)
          /\ deletions' = deletions \cup {[step |-> "delete", bank |-> b, primary |-> primary]}
    /\ waived' = (waived \/ deletions # {})

Look == [step |-> "look", bank |-> NoBank, primary |-> TRUE]
Promote(b) == [step |-> "promote", bank |-> b, primary |-> TRUE]

\* A variant that promotes no other account.
NothingFollows(d) == {}

\* ... the row is marked as deleted, and the deletion goes on if it was the primary one ...
Follows(d) == IF d.primary THEN {Look} ELSE {}

\* ... unless it is gone already, which is answered with an error ...
DeleteRow(d) ==
    /\ d \in deletions /\ d.step = "delete"
    /\ IF table[d.bank].live
       THEN /\ table' = [table EXCEPT ![d.bank].live = FALSE, ![d.bank].primary = FALSE]
            /\ deletions' = (deletions \ {d}) \cup Follows(d)
            /\ behind' = TRUE /\ waived' = (waived \/ (table[d.bank].primary /\ ~d.primary))
       ELSE deletions' = deletions \ {d} /\ UNCHANGED <<table, behind, waived>>
    /\ UNCHANGED <<saved, fields, saving, confirm, misled, turns>>

\* ... GetByUserID looks for the accounts that are left, a primary one first ...
LookForAnother ==
    /\ Look \in deletions
    /\ \/ \E b \in Live(table) :
             /\ table[b].primary \/ \A c \in Banks : ~table[c].primary
             /\ deletions' = (deletions \ {Look}) \cup {Promote(b)}
       \/ Live(table) = {} /\ deletions' = deletions \ {Look}
    /\ UNCHANGED <<table, saved, fields, saving, confirm, behind, misled, waived, turns>>

\* ... and SetPrimary of the first one, which may be gone by now.
SetPrimary(b) ==
    /\ Promote(b) \in deletions /\ deletions' = deletions \ {Promote(b)}
    /\ table' = [c \in Banks |-> IF table[c].live THEN [table[c] EXCEPT !.primary = (c = b)] ELSE table[c]]
    /\ UNCHANGED <<saved, fields, saving, confirm, behind, misled, waived, turns>>

\* A statement fails: an error of the promotion is passed over.
StatementFails(d) ==
    /\ d \in deletions /\ deletions' = deletions \ {d}
    /\ waived' = (waived \/ d.step # "delete")
    /\ UNCHANGED <<table, saved, fields, saving, confirm, behind, misled, turns>>

----------------------------------------------------------------------------
(* PaymentSection of the form of a new offer *)

\* matchedSavedInfo: the saved account that the fields show, in a list.
Matched(list, f) == IF f.bank # NoBank /\ list[f.bank].live /\ list[f.bank].number = f.number
                    THEN f.bank ELSE NoBank

\* hasChanges
HasChanges(list, f) ==
    IF Matched(list, f) = NoBank THEN f.number # NoNumber \/ f.primary
    ELSE f.primary # list[f.bank].primary

\* A variant that never takes an id back.
IdKept(list, f) == IF Matched(list, f) # NoBank THEN [f EXCEPT !.id = Matched(list, f)] ELSE f

\* The effect that keeps payment_info_id in step with the fields.
IdFollows(list, f) == [f EXCEPT !.id = Matched(list, f)]

\* The effect that fills in the primary account, once, when there is a list.
AutoFilled(list, f) ==
    IF ~f.open \/ f.filled \/ Live(list) = {} THEN f
    ELSE LET first == CHOOSE b \in Live(list) : list[b].primary \/ \A c \in Live(list) : ~list[c].primary
         IN [f EXCEPT !.bank = first, !.number = list[first].number, !.primary = list[first].primary,
                      !.id = first, !.filled = TRUE]

\* The fields after the effects of a render.
Rendered(list, f) == IdFollows(list, AutoFilled(list, f))

\* The accounts arrive in a tab: at first, after a change, when the window has the
\* focus again.
AccountsFetched(t) ==
    /\ LET list == [b \in Banks |-> IF table[b].live THEN table[b] ELSE NoRow]
       IN /\ saved' = [saved EXCEPT ![t] = list]
          /\ fields' = IF t = "offer" /\ fields.open THEN Rendered(list, fields) ELSE fields
    /\ behind' = (behind /\ (t = "profile" \/ confirm # NoConfirm))
    /\ UNCHANGED <<table, deletions, saving, confirm, misled, waived, turns>>

\* The form opens on the SELL side; the fields keep what they held.
OpenForm ==
    /\ ~fields.open
    /\ LET first == IF fields.bank = NoBank THEN [fields EXCEPT !.bank = CHOOSE b \in Banks : TRUE] ELSE fields
       IN fields' = Rendered(saved["offer"], [first EXCEPT !.open = TRUE, !.filled = FALSE])
    /\ UNCHANGED <<table, deletions, saved, saving, confirm, behind, misled, waived, turns>>

CloseForm ==
    /\ fields.open /\ confirm = NoConfirm
    /\ fields' = [fields EXCEPT !.open = FALSE]
    /\ UNCHANGED <<table, deletions, saved, saving, confirm, behind, misled, waived, turns>>

\* The switch of sides resets the whole form; the section is on the SELL side only.
SwitchSide ==
    /\ fields.open /\ confirm = NoConfirm
    /\ fields' = EmptyFields
    /\ UNCHANGED <<table, deletions, saved, saving, confirm, behind, misled, waived, turns>>

\* handleBankChange fills in the account saved for the bank.
HandleBankChange(b) ==
    /\ fields.open /\ confirm = NoConfirm /\ b # fields.bank
    /\ fields' = Rendered(saved["offer"], [fields EXCEPT !.bank = b, !.number = saved["offer"][b].number,
                                                         !.primary = saved["offer"][b].primary])
    /\ UNCHANGED <<table, deletions, saved, saving, confirm, behind, misled, waived, turns>>

\* The number (or the name) and the switch can be typed while a save is under way.
TypeAccount(n, p) ==
    /\ fields.open /\ confirm = NoConfirm /\ <<n, p>> # <<fields.number, fields.primary>>
    /\ fields' = Rendered(saved["offer"], [fields EXCEPT !.number = n, !.primary = p])
    /\ UNCHANGED <<table, deletions, saved, saving, confirm, behind, misled, waived, turns>>

\* handleCancel of the section goes back to the account saved, or to nothing.
CancelEdit ==
    /\ fields.open /\ confirm = NoConfirm /\ saving = NoUpdate /\ HasChanges(saved["offer"], fields)
    /\ LET m == Matched(saved["offer"], fields)
       IN fields' = Rendered(saved["offer"],
              IF m = NoBank THEN [fields EXCEPT !.number = NoNumber, !.primary = FALSE]
              ELSE [fields EXCEPT !.primary = saved["offer"][m].primary])
    /\ UNCHANGED <<table, deletions, saved, saving, confirm, behind, misled, waived, turns>>

\* handleSaveChanges
HandleSaveChanges ==
    /\ fields.open /\ confirm = NoConfirm /\ saving = NoUpdate /\ turns > 0
    /\ HasChanges(saved["offer"], fields) /\ fields.number # NoNumber
    /\ saving' = [bank |-> fields.bank, number |-> fields.number, primary |-> fields.primary]
    /\ turns' = turns - 1
    /\ UNCHANGED <<table, deletions, saved, fields, confirm, behind, misled, waived>>

\* useUpdatePaymentInfo answers, with an error that is shown or not.
SaveAnswered ==
    /\ saving # NoUpdate /\ saving' = NoUpdate
    /\ \/ table' = Upserted(saving) /\ behind' = TRUE /\ waived' = (waived \/ GivesUp(saving))
       \/ UNCHANGED <<table, behind, waived>>
    /\ UNCHANGED <<deletions, saved, fields, confirm, misled, turns>>

\* The submit button, the schema, and onPreSubmit: there is an account, saved as shown.
CanSubmit ==
    /\ fields.open /\ confirm = NoConfirm
    /\ ~HasChanges(saved["offer"], fields) /\ fields.number # NoNumber /\ fields.id # NoBank

\* A variant that takes the id of the primary account.
PreSubmitPrimary ==
    /\ CanSubmit
    /\ \E b \in Live(saved["offer"]) : /\ saved["offer"][b].primary
                                      /\ confirm' = [id |-> b, bank |-> fields.bank, number |-> fields.number]
    /\ UNCHANGED <<table, deletions, saved, fields, saving, behind, misled, waived, turns>>

\* onPreSubmit keeps the data for the confirmation.
OnPreSubmit ==
    /\ CanSubmit
    /\ confirm' = [id |-> fields.id, bank |-> fields.bank, number |-> fields.number]
    /\ UNCHANGED <<table, deletions, saved, fields, saving, behind, misled, waived, turns>>

\* CreateOffer looks the account up by its id; a row that is deleted is not found.
CreateOffer ==
    /\ confirm # NoConfirm /\ confirm' = NoConfirm
    /\ misled' = \/ misled
                 \/ /\ confirm.id # NoBank /\ table[confirm.id].live /\ ~behind
                    /\ <<confirm.id, table[confirm.id].number>> # <<confirm.bank, confirm.number>>
    /\ UNCHANGED <<table, deletions, saved, fields, saving, behind, waived, turns>>

----------------------------------------------------------------------------
(* BankPaymentAccountsTab and its dialogs *)

\* What BankPaymentAccountsModal can submit: a bank of the list, a number that is
\* not empty, and the switch.
DialogValues == [bank : Banks, number : Numbers, primary : BOOLEAN]

\* What the row of an account offers in the tab.
RowOffers(row) ==
    IF ~row.live THEN {}
    ELSE {"edit", "delete"} \cup (IF row.primary THEN {} ELSE {"set as primary"})

\* handleSubmit of the dialog to add or to edit.  The bank of an account that is
\* edited can be changed: its number is written to the row of the other bank.
DialogSaved(u) ==
    /\ turns > 0 /\ turns' = turns - 1
    /\ table' = Upserted(u) /\ waived' = (waived \/ GivesUp(u))
    /\ behind' = TRUE
    /\ UNCHANGED <<deletions, saved, fields, saving, confirm, misled>>

\* handleSetPrimary writes the whole row as the tab has it: what was changed in
\* another tab is undone, and a deleted account is back.
HandleSetPrimary(b) ==
    /\ "set as primary" \in RowOffers(saved["profile"][b]) /\ turns > 0
    /\ table' = Upserted([bank |-> b, number |-> saved["profile"][b].number, primary |-> TRUE])
    /\ turns' = turns - 1 /\ behind' = TRUE
    /\ UNCHANGED <<deletions, saved, fields, saving, confirm, misled, waived>>

\* confirmDelete of an account shown.
ConfirmDelete(b) ==
    /\ "delete" \in RowOffers(saved["profile"][b]) /\ turns > 0 /\ turns' = turns - 1
    /\ DeletePaymentInfo(b)
    /\ UNCHANGED <<table, saved, fields, saving, confirm, behind, misled>>

AccountsNext ==
    \/ \E d \in deletions : DeleteRow(d) \/ StatementFails(d)
    \/ LookForAnother \/ \E b \in Banks : SetPrimary(b)
    \/ \E t \in AccountTabs : AccountsFetched(t)
    \/ OpenForm \/ CloseForm \/ SwitchSide \/ CancelEdit \/ HandleSaveChanges \/ SaveAnswered
    \/ \E b \in Banks : HandleBankChange(b) \/ HandleSetPrimary(b) \/ ConfirmDelete(b)
    \/ \E n \in Numbers \cup {NoNumber}, p \in BOOLEAN : TypeAccount(n, p)
    \/ \E u \in DialogValues : DialogSaved(u)
    \/ OnPreSubmit \/ CreateOffer

AccountsSpec == AccountsInit /\ [][AccountsNext]_accountVars

----------------------------------------------------------------------------

Deletions == [step : {"delete", "look", "promote"}, bank : Banks \cup {NoBank}, primary : BOOLEAN]

\* Types of the state; at most one account is primary, and none that is deleted.
AccountsTypeOK ==
    /\ table \in [Banks -> Row] /\ saved \in [AccountTabs -> [Banks -> Row]]
    /\ deletions \subseteq Deletions
    /\ {fields.bank, fields.id, saving.bank} \subseteq Banks \cup {NoBank}
    /\ \A b, c \in Banks : table[b].primary /\ table[c].primary => b = c
    /\ \A b \in Banks : table[b].primary => table[b].live

\* The row an offer would refer to is the account shown in the form, as far as
\* the tab knows: after any typing, change of bank, save or fetch.
IdMatchesAccount ==
    fields.open /\ fields.id # NoBank =>
        /\ fields.id = fields.bank
        /\ saved["offer"][fields.id].live /\ saved["offer"][fields.id].number = fields.number

\* An offer refers to the account that its seller has seen, unless an account was
\* edited that the tab did not show, or that was shown after the submission.
OfferedAsShown == ~misled

\* A seller with accounts has a primary one, also after it was deleted, unless an
\* edit gave it up, the first statement of its deletion did not see that it was
\* primary, one of the promotion failed, or deletions overlapped (DeletePaymentInfo).
PrimaryKept ==
    ~waived /\ deletions = {} /\ Live(table) # {} => \E b \in Banks : table[b].primary

\* The account an offer refers to is the one shown, and one of them is primary,
\* though two tabs edit the table and the form is changed while it is saved.
AccountsAgree == IdMatchesAccount /\ OfferedAsShown /\ PrimaryKept
=============================================================================
