------------------------------ MODULE CampaignPages ------------------------------
(***************************************************************************)
(* Creating and managing donation campaigns: the create page with its      *)
(* one-time wallet (CreateCampaignContext, donation-wallet, campaign-      *)
(* actions), the edit page in several tabs of the creator, and the part of *)
(* the service both call (handlers/donation_campaign.go and its            *)
(* repository), whose checks and writes are separate statements. All       *)
(* campaigns here have the same name, so that their slugs compete; the     *)
(* texts an edit changes are left out.                                     *)
(***************************************************************************)
EXTENDS Naturals, Sequences, FiniteSets, FiniteSetsExt

CONSTANTS EditTabs,      \* tabs that show the edit page
          MaxCampaigns,  \* rows of donation_campaign
          MaxWallets,    \* wallets generated
          Calls          \* requests that can be under way

ASSUME CampaignAssumption == {MaxCampaigns, MaxWallets} \subseteq Nat /\ Calls \subseteq Nat

VARIABLES campaigns,  \* donation_campaign, with the wallet of campaign_statistics
          creation,   \* the create page
          wallets,    \* how many wallets have been generated
          keys,       \* history: wallets whose key file has been downloaded
          edits,      \* the edit pages
          calls,      \* requests under way
          raced       \* history: campaigns whose status changed between a check and its write

serverVars   == <<campaigns, raced>>
creationVars == <<creation, wallets, keys>>
campaignVars == <<campaigns, creation, wallets, keys, edits, calls, raced>>

CampaignIds == 1..MaxCampaigns
NoCampaign  == [status |-> "none"]
NoCall      == [op |-> "none"]
NoEdit      == [of |-> 0, status |-> "none"]
NewPage     == [filled |-> FALSE, wallet |-> 0, downloaded |-> FALSE, dialog |-> FALSE]
Stored      == {c \in CampaignIds : campaigns[c] # NoCampaign}
LiveRows    == {c \in Stored : ~ campaigns[c].deleted}

CampaignInit ==
    /\ campaigns = [c \in CampaignIds |-> NoCampaign] /\ raced = {}
    /\ creation = NewPage /\ wallets = 0 /\ keys = {}
    /\ edits = [t \in EditTabs |-> NoEdit] /\ calls = [s \in Calls |-> NoCall]

FreeCall(s) == calls[s] = NoCall /\ \A r \in Calls : r < s => calls[r] # NoCall
Ends(s)     == calls' = [calls EXCEPT ![s] = NoCall]

-----------------------------------------------------------------------------
(* The create page.                                                        *)

FillBasics ==
    /\ ~ creation.filled /\ ~ creation.dialog
    /\ creation' = [creation EXCEPT !.filled = TRUE]
    /\ UNCHANGED <<serverVars, wallets, keys, edits, calls>>

\* A variant that does not insist on the download.
GenerateQuietly ==
    /\ creation.wallet = 0 /\ wallets < MaxWallets
    /\ wallets' = wallets + 1
    /\ creation' = [creation EXCEPT !.wallet = wallets']
    /\ UNCHANGED <<serverVars, keys, edits, calls>>

\* handleGenerateWallet: the button is disabled once there is a wallet.
GenerateWallet ==
    /\ creation.wallet = 0 /\ wallets < MaxWallets
    /\ wallets' = wallets + 1
    /\ creation' = [creation EXCEPT !.wallet = wallets', !.dialog = TRUE]
    /\ UNCHANGED <<serverVars, keys, edits, calls>>

\* handleDownload, the only way out of the dialog.
HandleDownload ==
    /\ creation.dialog
    /\ keys' = keys \cup {creation.wallet}
    /\ creation' = [creation EXCEPT !.downloaded = TRUE, !.dialog = FALSE]
    /\ UNCHANGED <<serverVars, wallets, edits, calls>>

\* A variant that is content with a wallet.
WalletIsEnough(p) == p.filled /\ p.wallet # 0

\* validateForm: isAllComplete.
IsAllComplete(p) == p.filled /\ p.wallet # 0 /\ p.downloaded

\* "Save draft" and the publish dialog; neither waits for a request under way.
\* A confirmation behind the wallet dialog cannot be reached.
HandleCreate ==
    /\ IsAllComplete(creation)
    /\ \E s \in Calls, status \in {"Draft", "Active"} :
          /\ FreeCall(s)
          /\ calls' = [calls EXCEPT ![s] = [op |-> "create", wallet |-> creation.wallet,
                                            status |-> status, slug |-> 0, fresh |-> FALSE]]
    /\ UNCHANGED <<serverVars, creationVars, edits>>

\* The page is left, or loaded again.
LeaveCreation ==
    /\ creation # NewPage /\ creation' = NewPage
    /\ UNCHANGED <<serverVars, wallets, keys, edits, calls>>

-----------------------------------------------------------------------------
(* Create and CreateAndActive of the repository.                           *)

\* A variant that numbers a slug by the campaigns of the name that are live.
SlugByCount == IF \A c \in LiveRows : campaigns[c].slug # 1 THEN 1 ELSE Cardinality(LiveRows) + 1

\* GenerateUniqueSlug: CheckSlugExists skips deleted rows, the numbering does not.
\* Slug 1 is the bare one, n + 1 the one with suffix n, 0 none yet.
GenerateUniqueSlug ==
    IF \A c \in LiveRows : campaigns[c].slug # 1 THEN 1
    ELSE Max({campaigns[c].slug : c \in Stored}) + 1

ChooseSlug(s) ==
    /\ calls[s].op = "create" /\ calls[s].slug = 0
    /\ calls' = [calls EXCEPT ![s].slug = GenerateUniqueSlug, ![s].fresh = TRUE]
    /\ UNCHANGED <<serverVars, creationVars, edits>>

\* Both inserts of the transaction; slug and wallet are unique columns.
InsertCampaign(s) ==
    LET r == calls[s]   id == Cardinality(Stored) + 1
    IN /\ r.op = "create" /\ r.slug # 0
       /\ IF /\ \A c \in Stored : campaigns[c].slug # r.slug /\ campaigns[c].wallet # r.wallet
             /\ id \in CampaignIds
          THEN /\ campaigns' = [campaigns EXCEPT ![id] =
                     [status |-> r.status, deleted |-> FALSE, wallet |-> r.wallet,
                      slug |-> r.slug]]
               /\ calls' = [t \in Calls |-> CASE t = s -> NoCall
                                              [] t # s /\ calls[t].op = "create" ->
                                                     [calls[t] EXCEPT !.fresh = FALSE]
                                              [] OTHER -> calls[t]]
               /\ creation' = IF creation.wallet = r.wallet THEN NewPage ELSE creation
          ELSE Ends(s) /\ UNCHANGED <<campaigns, creation>>
       /\ UNCHANGED <<raced, wallets, keys, edits>>

-----------------------------------------------------------------------------
(* The edit page. Its campaign is what the last query returned.            *)

\* EditCampaignContent: every answer of useCampaign fills the form again.
CampaignLoaded(t) ==
    /\ \E c \in LiveRows :
          /\ edits[t].of \in {0, c}
          /\ edits' = [edits EXCEPT ![t] =
                 [of |-> c, status |-> campaigns[c].status]]
    /\ UNCHANGED <<serverVars, creationVars, calls>>

Busy(t, ops) == \E s \in Calls : calls[s].op \in ops /\ calls[s].tab = t

Call(t, op) == [op |-> op, tab |-> t, of |-> edits[t].of, seen |-> "none"]

\* CampaignActions: the requests a button of the edit page sends. "Publish"
\* starts the edit without waiting for it and then activates.
Actions(t) ==
    {ops \in {<<"edit">>, <<"edit", "activate">>, <<"close">>, <<"delete">>} :
        CASE ops = <<"edit">>   -> ~ Busy(t, {"edit"})
          [] ops = <<"delete">> -> edits[t].status = "Draft" /\ ~ Busy(t, {"delete"})
          [] ops = <<"close">>  -> edits[t].status = "Active" /\ ~ Busy(t, {"activate", "close"})
          [] OTHER -> edits[t].status # "Active" /\ ~ Busy(t, {"activate", "close"})}

ClickAction(t) ==
    /\ edits[t].of # 0
    /\ \E ops \in Actions(t), s \in Calls :
          /\ FreeCall(s) /\ s + Len(ops) - 1 \in Calls
          /\ \A i \in 1..Len(ops) : calls[s + i - 1] = NoCall
          /\ calls' = [r \in Calls |-> IF r \in s..(s + Len(ops) - 1)
                                       THEN Call(t, ops[r - s + 1]) ELSE calls[r]]
    /\ UNCHANGED <<serverVars, creationVars, edits>>

LeaveEdit(t) ==
    /\ edits[t].of # 0 /\ edits' = [edits EXCEPT ![t] = NoEdit]
    /\ UNCHANGED <<serverVars, creationVars, calls>>

-----------------------------------------------------------------------------
(* The handlers behind it: GetByIDAndCreator, a check, an unconditional    *)
(* UPDATE of a row that is not deleted.                                    *)

\* A variant that lets whatever is not active be deleted.
AcceptsClosed(op, status) ==
    CASE op = "activate" -> status # "Active" [] op = "close"  -> status = "Active"
      [] op = "delete"   -> status # "Active" [] op = "edit"   -> TRUE

AcceptsStatus(op, status) ==
    CASE op = "activate" -> status # "Active" [] op = "close"  -> status = "Active"
      [] op = "delete"   -> status = "Draft"  [] op = "edit"   -> TRUE

Checked(s) ==
    LET r == calls[s]
    IN /\ r.op \notin {"none", "create"} /\ r.seen = "none"
       /\ IF r.of \in LiveRows /\ AcceptsStatus(r.op, campaigns[r.of].status)
          THEN calls' = [calls EXCEPT ![s].seen = campaigns[r.of].status]
          ELSE Ends(s)
       /\ UNCHANGED <<serverVars, creationVars, edits>>

Written(c, r) ==
    CASE r.op = "activate" -> [c EXCEPT !.status = "Active"]
      [] r.op = "close"    -> [c EXCEPT !.status = "Closed"]
      [] r.op = "delete"   -> [c EXCEPT !.deleted = TRUE]
      [] r.op = "edit"     -> c

\* On success the page goes to the campaign, or to the list.
WriteCampaign(s) ==
    LET r == calls[s]
    IN /\ r.op \notin {"none", "create"} /\ r.seen # "none"
       /\ IF r.of \in LiveRows
          THEN /\ campaigns' = [campaigns EXCEPT ![r.of] = Written(@, r)]
               /\ raced' = raced \cup (IF campaigns[r.of].status # r.seen THEN {r.of} ELSE {})
               /\ edits' = [edits EXCEPT ![r.tab] = NoEdit]
          ELSE UNCHANGED <<campaigns, raced, edits>>
       /\ Ends(s) /\ UNCHANGED creationVars

CampaignNext ==
    \/ FillBasics \/ GenerateWallet \/ HandleDownload \/ HandleCreate \/ LeaveCreation
    \/ \E s \in Calls : ChooseSlug(s) \/ InsertCampaign(s) \/ Checked(s) \/ WriteCampaign(s)
    \/ \E t \in EditTabs : \/ CampaignLoaded(t) \/ ClickAction(t) \/ LeaveEdit(t)

CampaignSpec == CampaignInit /\ [][CampaignNext]_campaignVars

-----------------------------------------------------------------------------

\* Rows, pages and requests have their type; slugs and wallets are unique, and
\* the wallet dialog stays open until its key is on the disk (donation-wallet).
CampaignTypeOK ==
    /\ \A c \in Stored : /\ campaigns[c].status \in {"Draft", "Active", "Closed"}
                         /\ campaigns[c].slug \in Nat \ {0}
                         /\ \A d \in Stored : c # d => /\ campaigns[c].slug # campaigns[d].slug
                                                       /\ campaigns[c].wallet # campaigns[d].wallet
    /\ raced \subseteq Stored /\ keys \subseteq 1..wallets /\ wallets \in 0..MaxWallets
    /\ creation.wallet # 0 => (creation.dialog <=> creation.wallet \notin keys)
    /\ \A t \in EditTabs : edits[t].of \in {0} \cup Stored

\* Whoever donates to a stored campaign pays into a wallet whose key the creator
\* has saved, although the page forgets the key when it is left (validateForm).
WalletsAreHeld == \A c \in Stored : campaigns[c].wallet \in keys

\* Only drafts disappear: a campaign that has been public is deleted only when it
\* was published between the check and the UPDATE of a deletion (DeleteDraft).
DeletedIsDraft ==
    \A c \in Stored : campaigns[c].deleted => campaigns[c].status = "Draft" \/ c \in raced

\* A slug that was just chosen is free, except that a deleted campaign may hold
\* the bare one, and then no campaign of the name can be created (GenerateUniqueSlug).
ChosenSlugIsFree ==
    \A s \in Calls : calls[s].op = "create" /\ calls[s].fresh =>
        \A c \in Stored : campaigns[c].slug = calls[s].slug =>
            calls[s].slug = 1 /\ campaigns[c].deleted
=============================================================================
