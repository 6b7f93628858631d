------------------------- MODULE CampaignPagesProofs -------------------------
(***************************************************************************)
(* The pages of the donation campaigns: the forms and the requests behind   *)
(* them, the form of an update, the feed, the lists and the viewer of       *)
(* images, for any number of campaigns, wallets, pictures, posts, pages and *)
(* requests. Each part has its inductive invariant here.                    *)
(***************************************************************************)
EXTENDS CampaignPages, CampaignUpdate, CampaignFeed, CampaignList, ImageViewer, SumTheorems,
        SequenceTheorems, WellFoundedInduction, TLAPS

-----------------------------------------------------------------------------
(* The forms and requests of the campaigns (CampaignPages).                *)

RowStatuses == {"Draft", "Active", "Closed"}
CampaignRows == [status : RowStatuses, deleted : BOOLEAN, wallet : 1..MaxWallets, slug : Nat \ {0}]
CreatePages == [filled : BOOLEAN, wallet : 0..MaxWallets, downloaded : BOOLEAN, dialog : BOOLEAN]
CreateCalls == [op : {"create"}, wallet : 1..MaxWallets, status : {"Draft", "Active"}, slug : Nat, fresh : BOOLEAN]
EditCalls == [op : {"edit", "activate", "close", "delete"}, tab : EditTabs, of : CampaignIds,
              seen : {"none"} \cup RowStatuses]
EditForms == [of : {0} \cup CampaignIds, status : {"none"} \cup RowStatuses]

\* The rows of a table, and what they are to the keys saved and the races noted.
RowsIn(table) == {c \in CampaignIds : table[c] # NoCampaign}
GoodRow(row, c, saved, races) ==
    row.wallet \in saved /\ (row.deleted => row.status = "Draft" \/ c \in races)
GoodRows(table, saved, races) ==
    /\ table \in [CampaignIds -> {NoCampaign} \cup CampaignRows]
    /\ \E n \in 0..MaxCampaigns : RowsIn(table) = 1..n
    /\ \A c, d \in RowsIn(table) : c # d => table[c].slug # table[d].slug /\ table[c].wallet # table[d].wallet
    /\ \A c \in RowsIn(table) : GoodRow(table[c], c, saved, races)
    /\ races \subseteq RowsIn(table)

SlugIsFree(n, table) == \A c \in RowsIn(table) : table[c].slug = n => n = 1 /\ table[c].deleted

\* A call under way names a wallet whose key was saved, or a row; a slug that was just
\* chosen is free, and a deletion that was let through saw a draft.
GoodCall(r, saved, table) ==
    \/ r = NoCall
    \/ r \in CreateCalls /\ r.wallet \in saved /\ (r.fresh => SlugIsFree(r.slug, table))
    \/ /\ r \in EditCalls /\ r.of \in RowsIn(table)
       /\ r.op = "delete" /\ r.seen # "none" => r.seen = "Draft"

GoodTab(e, table) == e \in EditForms /\ e.of \in {0} \cup RowsIn(table)

\* The create page lets go of a wallet only when its key is saved.
CreationInv ==
    /\ wallets \in 0..MaxWallets /\ keys \subseteq 1..wallets
    /\ creation \in CreatePages /\ creation.wallet <= wallets
    /\ creation.dialog => creation.wallet # 0
    /\ creation.wallet # 0 => (creation.dialog <=> creation.wallet \notin keys)
    /\ creation.downloaded => creation.wallet # 0 /\ creation.wallet \in keys

CallsInv == calls = [s \in Calls |-> calls[s]] /\ \A s \in Calls : GoodCall(calls[s], keys, campaigns)
TabsInv == edits = [t \in EditTabs |-> edits[t]] /\ \A t \in EditTabs : GoodTab(edits[t], campaigns)

CampaignInv == GoodRows(campaigns, keys, raced) /\ CreationInv /\ CallsInv /\ TabsInv

-----------------------------------------------------------------------------
(* Facts about rows and calls.                                             *)

LEMMA RowsOfTable ==
    ASSUME NEW table, NEW saved, NEW races, GoodRows(table, saved, races)
    PROVE  \A c \in RowsIn(table) : c \in CampaignIds /\ table[c] \in CampaignRows
BY DEF RowsIn, GoodRows

LEMMA NoRow == \A row \in CampaignRows : row # NoCampaign
<1> SUFFICES ASSUME NEW row \in CampaignRows PROVE row # NoCampaign
  OBVIOUS
<1>1. row.status # "none"
  BY DEF CampaignRows, RowStatuses
<1>2. NoCampaign.status = "none"
  BY DEF NoCampaign
<1> QED BY <1>1, <1>2

LEMMA KindsOfCalls ==
    ASSUME NEW r, NEW saved, NEW table, GoodCall(r, saved, table)
    PROVE  /\ r.op = "create" => r \in CreateCalls /\ r.wallet \in saved /\ (r.fresh => SlugIsFree(r.slug, table))
           /\ r.op \notin {"none", "create"} =>
                /\ r \in EditCalls /\ r.of \in RowsIn(table)
                /\ r.op = "delete" /\ r.seen # "none" => r.seen = "Draft"
<1>1. NoCall.op = "none"
  BY DEF NoCall
<1>2. \A x \in CreateCalls : x.op = "create"
  BY DEF CreateCalls
<1>3. \A x \in EditCalls : x.op \notin {"none", "create"}
  BY DEF EditCalls
<1> HIDE DEF SlugIsFree
<1> QED BY <1>1, <1>2, <1>3 DEF GoodCall

\* The table may gain no row, and lose none, while slugs stay and deletions last.
LEMMA CallsStayGood ==
    ASSUME NEW r, NEW saved, NEW saved2, NEW table, NEW table2, GoodCall(r, saved, table),
           saved \subseteq saved2, RowsIn(table2) = RowsIn(table),
           \A c \in RowsIn(table) : table2[c].slug = table[c].slug /\ (table[c].deleted => table2[c].deleted)
    PROVE  GoodCall(r, saved2, table2)
<1>1. \A n : SlugIsFree(n, table) => SlugIsFree(n, table2)
  BY DEF SlugIsFree
<1> HIDE DEF SlugIsFree
<1> QED BY <1>1 DEF GoodCall

-----------------------------------------------------------------------------
(* The create page.                                                        *)

LEMMA SavesMore ==
    ASSUME CampaignInv, UNCHANGED <<serverVars, edits, calls>>, keys \subseteq keys', CreationInv'
    PROVE  CampaignInv'
<1>1. campaigns' = campaigns /\ raced' = raced /\ edits' = edits /\ calls' = calls
  BY DEF serverVars
<1>2. GoodRows(campaigns, keys', raced)
  BY DEF CampaignInv, GoodRows, GoodRow
<1>3. \A s \in Calls : GoodCall(calls[s], keys', campaigns)
  BY CallsStayGood DEF CampaignInv, CallsInv
<1> QED BY <1>1, <1>2, <1>3 DEF CampaignInv, CallsInv, TabsInv

LEMMA CreatePageSteps ==
    ASSUME CampaignAssumption, CampaignInv, FillBasics \/ GenerateWallet \/ HandleDownload \/ LeaveCreation
    PROVE  CampaignInv'
<1>0. creation \in CreatePages /\ wallets \in 0..MaxWallets /\ keys \subseteq 1..wallets /\ MaxWallets \in Nat
  BY DEF CampaignInv, CreationInv, CampaignAssumption
<1>1. CASE FillBasics
  <2>1. creation' = [creation EXCEPT !.filled = TRUE] /\ UNCHANGED <<serverVars, wallets, keys, edits, calls>>
    BY <1>1 DEF FillBasics
  <2>2. /\ creation' \in CreatePages /\ creation'.wallet = creation.wallet
        /\ creation'.downloaded = creation.downloaded /\ creation'.dialog = creation.dialog
    BY <1>0, <2>1 DEF CreatePages
  <2>3. CreationInv'
    BY <2>1, <2>2 DEF CampaignInv, CreationInv
  <2> QED BY <2>1, <2>3, SavesMore
<1>2. CASE GenerateWallet
  <2>1. /\ creation.wallet = 0 /\ wallets < MaxWallets /\ wallets' = wallets + 1
        /\ creation' = [creation EXCEPT !.wallet = wallets', !.dialog = TRUE]
        /\ UNCHANGED <<serverVars, keys, edits, calls>>
    BY <1>2 DEF GenerateWallet
  <2>2. wallets' \in 1..MaxWallets /\ wallets' \notin keys /\ keys \subseteq 1..wallets'
    BY <1>0, <2>1
  <2>3. /\ creation' \in CreatePages /\ creation'.wallet = wallets'
        /\ creation'.downloaded = creation.downloaded /\ creation'.dialog
    <3>1. wallets' \in 0..MaxWallets
      BY <1>0, <2>2
    <3> HIDE DEF CampaignInv
    <3> QED BY <1>0, <2>1, <3>1 DEF CreatePages
  <2>4. ~ creation.downloaded
    BY <2>1 DEF CampaignInv, CreationInv
  <2>5. wallets' \in 0..MaxWallets /\ wallets' # 0 /\ wallets' <= wallets'
    BY <1>0, <2>2
  <2>6. CreationInv'
    BY <2>5, <2>1, <2>2, <2>3, <2>4 DEF CreationInv
  <2> QED BY <2>1, <2>6, SavesMore
<1>3. CASE HandleDownload
  <2>1. /\ creation.dialog /\ keys' = keys \cup {creation.wallet}
        /\ creation' = [creation EXCEPT !.downloaded = TRUE, !.dialog = FALSE]
        /\ UNCHANGED <<serverVars, wallets, edits, calls>>
    BY <1>3 DEF HandleDownload
  <2>2. /\ creation' \in CreatePages /\ creation'.wallet = creation.wallet
        /\ creation'.downloaded /\ ~ creation'.dialog
    BY <1>0, <2>1 DEF CreatePages
  <2>3. creation.wallet # 0 /\ creation.wallet <= wallets
    BY <2>1 DEF CampaignInv, CreationInv
  <2>4. creation.wallet \in 1..wallets
    BY <1>0, <2>3 DEF CreatePages
  <2>5. CreationInv'
    BY <1>0, <2>1, <2>2, <2>3, <2>4 DEF CreationInv
  <2> QED BY <2>1, <2>5, SavesMore
<1>4. CASE LeaveCreation
  <2>1. creation' = NewPage /\ UNCHANGED <<serverVars, wallets, keys, edits, calls>>
    BY <1>4 DEF LeaveCreation
  <2>2. /\ NewPage \in CreatePages /\ NewPage.wallet = 0 /\ ~ NewPage.dialog /\ ~ NewPage.downloaded
        /\ NewPage.wallet <= wallets
    BY <1>0 DEF NewPage, CreatePages
  <2>3. CreationInv'
    BY <1>0, <2>1, <2>2 DEF CreationInv
  <2> QED BY <2>1, <2>3, SavesMore
<1> QED BY <1>1, <1>2, <1>3, <1>4

-----------------------------------------------------------------------------
(* Calls.                                                                  *)

\* A call is made, goes on or ends, and nothing else changes.
LEMMA CallChanges ==
    ASSUME CampaignInv, UNCHANGED <<serverVars, creationVars, edits>>,
           calls' = [s \in Calls |-> calls'[s]],
           \A s \in Calls : GoodCall(calls'[s], keys, campaigns)
    PROVE  CampaignInv'
<1>1. campaigns' = campaigns /\ raced' = raced /\ creation' = creation /\ wallets' = wallets /\ keys' = keys /\ edits' = edits
  BY DEF serverVars, creationVars
<1>2. CreationInv' /\ TabsInv'
  BY <1>1 DEF CampaignInv, CreationInv, TabsInv
<1>3. CallsInv'
  BY <1>1 DEF CallsInv
<1> QED BY <1>1, <1>2, <1>3 DEF CampaignInv

LEMMA OneCallChanges ==
    ASSUME CampaignInv, UNCHANGED <<serverVars, creationVars, edits>>, NEW s \in Calls, NEW r,
           calls' = [calls EXCEPT ![s] = r], GoodCall(r, keys, campaigns)
    PROVE  CampaignInv'
<1>1. calls = [t \in Calls |-> calls[t]] /\ \A t \in Calls : GoodCall(calls[t], keys, campaigns)
  BY DEF CampaignInv, CallsInv
<1>2. calls' = [t \in Calls |-> calls'[t]]
  BY <1>1
<1>3. \A t \in Calls : calls'[t] = IF t = s THEN r ELSE calls[t]
  BY <1>1
<1>4. \A t \in Calls : GoodCall(calls'[t], keys, campaigns)
  BY <1>1, <1>3
<1> QED BY <1>2, <1>4, CallChanges

LEMMA EndedCall == \A saved, table : GoodCall(NoCall, saved, table)
BY DEF GoodCall

LEMMA CreateCalled == ASSUME CampaignAssumption, CampaignInv, HandleCreate PROVE CampaignInv'
<1>1. PICK s \in Calls, status \in {"Draft", "Active"} :
        calls' = [calls EXCEPT ![s] = [op |-> "create", wallet |-> creation.wallet,
                                       status |-> status, slug |-> 0, fresh |-> FALSE]]
  BY DEF HandleCreate
<1>2. IsAllComplete(creation) /\ UNCHANGED <<serverVars, creationVars, edits>>
  BY DEF HandleCreate
<1> DEFINE r == [op |-> "create", wallet |-> creation.wallet, status |-> status, slug |-> 0, fresh |-> FALSE]
<1>3. creation.wallet \in keys /\ creation.wallet \in 1..MaxWallets
  <2>1. creation.wallet # 0 /\ creation.downloaded
    BY <1>2 DEF IsAllComplete
  <2>2. creation.wallet \in keys /\ creation.wallet \in 0..MaxWallets
    BY <2>1 DEF CampaignInv, CreationInv, CreatePages
  <2> QED BY <2>1, <2>2 DEF CampaignAssumption
<1>4. r \in CreateCalls /\ r.wallet \in keys /\ ~ r.fresh
  BY <1>3 DEF CreateCalls
<1>5. GoodCall(r, keys, campaigns)
  <2> HIDE DEF r
  <2> QED BY <1>4 DEF GoodCall
<1> QED BY <1>1, <1>2, <1>5, OneCallChanges

LEMMA CheckedCall == ASSUME CampaignInv, NEW s \in Calls, Checked(s) PROVE CampaignInv'
<1> DEFINE r == calls[s]
<1>1. /\ r.op \notin {"none", "create"} /\ UNCHANGED <<serverVars, creationVars, edits>>
      /\ IF r.of \in LiveRows /\ AcceptsStatus(r.op, campaigns[r.of].status)
         THEN calls' = [calls EXCEPT ![s].seen = campaigns[r.of].status]
         ELSE Ends(s)
  BY DEF Checked
<1>2. GoodCall(r, keys, campaigns)
  BY DEF CampaignInv, CallsInv
<1>3. r \in EditCalls /\ r.of \in RowsIn(campaigns)
  <2> HIDE DEF r
  <2> QED BY <1>1, <1>2, KindsOfCalls
<1>4. CASE r.of \in LiveRows /\ AcceptsStatus(r.op, campaigns[r.of].status)
  <2> DEFINE q == [r EXCEPT !.seen = campaigns[r.of].status]
  <2>1. calls' = [calls EXCEPT ![s] = q]
    BY <1>1, <1>4
  <2>2. campaigns[r.of].status \in RowStatuses
    BY <1>3, RowsOfTable DEF CampaignInv, CampaignRows
  <2>3. q \in EditCalls /\ q.of = r.of /\ q.op = r.op /\ q.seen = campaigns[r.of].status
    <3> HIDE DEF r
    <3> QED BY <1>3, <2>2 DEF EditCalls
  <2>4. r.op = "delete" => campaigns[r.of].status = "Draft"
    BY <1>4 DEF AcceptsStatus
  <2>5. GoodCall(q, keys, campaigns)
    <3> HIDE DEF q, r
    <3> QED BY <1>3, <2>3, <2>4 DEF GoodCall
  <2> HIDE DEF q
  <2> QED BY <1>1, <2>1, <2>5, OneCallChanges
<1>5. CASE ~ (r.of \in LiveRows /\ AcceptsStatus(r.op, campaigns[r.of].status))
  <2>1. calls' = [calls EXCEPT ![s] = NoCall]
    BY <1>1, <1>5 DEF Ends
  <2> QED BY <1>1, <2>1, EndedCall, OneCallChanges
<1> QED BY <1>4, <1>5

LEMMA ActionClicked == ASSUME CampaignInv, NEW t \in EditTabs, ClickAction(t) PROVE CampaignInv'
<1>1. PICK ops \in Actions(t), s \in Calls :
        calls' = [r \in Calls |-> IF r \in s..(s + Len(ops) - 1) THEN Call(t, ops[r - s + 1]) ELSE calls[r]]
  BY DEF ClickAction
<1>2. edits[t].of # 0 /\ UNCHANGED <<serverVars, creationVars, edits>>
  BY DEF ClickAction
<1>3. GoodTab(edits[t], campaigns) /\ \A r \in Calls : GoodCall(calls[r], keys, campaigns)
  BY DEF CampaignInv, CallsInv, TabsInv
<1>4. edits[t].of \in RowsIn(campaigns) /\ edits[t].of \in CampaignIds
  BY <1>2, <1>3 DEF GoodTab, RowsIn
<1>5. ops \in {<<"edit">>, <<"edit", "activate">>, <<"close">>, <<"delete">>}
  BY DEF Actions
<1>6. \A op \in {"edit", "activate", "close", "delete"} : GoodCall(Call(t, op), keys, campaigns)
  <2> SUFFICES ASSUME NEW op \in {"edit", "activate", "close", "delete"} PROVE GoodCall(Call(t, op), keys, campaigns)
    OBVIOUS
  <2>1. Call(t, op) \in EditCalls /\ Call(t, op).of = edits[t].of /\ Call(t, op).seen = "none"
    BY <1>4 DEF Call, EditCalls
  <2> QED BY <1>4, <2>1 DEF GoodCall
<1>7. \A r \in Calls : r \in s..(s + Len(ops) - 1) => ops[r - s + 1] \in {"edit", "activate", "close", "delete"}
  <2> SUFFICES ASSUME NEW r \in Calls, r \in s..(s + Len(ops) - 1)
               PROVE  ops[r - s + 1] \in {"edit", "activate", "close", "delete"}
    OBVIOUS
  <2>1. r - s + 1 \in 1..Len(ops)
    BY <1>5, CampaignAssumption DEF CampaignAssumption
  <2> QED BY <1>5, <2>1
<1>8. \A r \in Calls : calls'[r] = IF r \in s..(s + Len(ops) - 1) THEN Call(t, ops[r - s + 1]) ELSE calls[r]
  BY <1>1
<1>9. \A r \in Calls : GoodCall(calls'[r], keys, campaigns)
  <2> SUFFICES ASSUME NEW r \in Calls PROVE GoodCall(calls'[r], keys, campaigns)
    OBVIOUS
  <2>1. CASE r \in s..(s + Len(ops) - 1)
    BY <1>6, <1>7, <1>8, <2>1
  <2>2. CASE r \notin s..(s + Len(ops) - 1)
    BY <1>3, <1>8, <2>2
  <2> QED BY <2>1, <2>2
<1>10. calls' = [r \in Calls |-> calls'[r]]
  BY <1>1
<1> QED BY <1>2, <1>9, <1>10, CallChanges

-----------------------------------------------------------------------------
(* The rows.                                                               *)

\* A finite set of naturals that is not empty has its greatest element.
LEMMA GreatestNatural ==
    ASSUME NEW S \in SUBSET Nat, IsFiniteSet(S), S # {}
    PROVE  Max(S) \in S /\ \A y \in S : y <= Max(S)
<1> DEFINE K == {T \in SUBSET S : T # {} => \E x \in T : \A y \in T : x >= y}
<1>1. {} \in K
  OBVIOUS
<1>2. \A T \in SUBSET S : \A x \in S \ T : T \in K => T \cup {x} \in K
  <2> SUFFICES ASSUME NEW T \in SUBSET S, NEW x \in S \ T, T \in K
               PROVE  \E g \in T \cup {x} : \A y \in T \cup {x} : g >= y
    OBVIOUS
  <2>1. CASE T = {}
    BY <2>1
  <2>2. CASE T # {}
    <3>1. PICK g \in T : \A y \in T : g >= y
      BY <2>2
    <3>2. g \in Nat /\ x \in Nat
      OBVIOUS
    <3>3. CASE g >= x
      BY <3>1, <3>3
    <3>4. CASE ~ (g >= x)
      <4>1. \A y \in T : x >= y
        BY <3>1, <3>2, <3>4
      <4>2. x >= x
        BY <3>2
      <4> QED BY <4>1, <4>2
    <3> QED BY <3>3, <3>4
  <2> QED BY <2>1, <2>2
<1>3. S \in K
  <2> HIDE DEF K
  <2> QED BY <1>1, <1>2, SetInduction
<1>4. \E x \in S : \A y \in S : x >= y
  BY <1>3
<1>5. Max(S) \in S /\ \A y \in S : Max(S) >= y
  BY <1>4, Zenon DEF Max
<1> QED BY <1>5

LEMMA RowsAreStored == Stored = RowsIn(campaigns) /\ LiveRows = {c \in RowsIn(campaigns) : ~ campaigns[c].deleted}
BY DEF Stored, RowsIn, LiveRows

LEMMA UniqueSlugIsFree ==
    ASSUME CampaignAssumption, CampaignInv
    PROVE  GenerateUniqueSlug \in Nat /\ SlugIsFree(GenerateUniqueSlug, campaigns)
<1> DEFINE S == {campaigns[c].slug : c \in Stored}
<1>1. Stored = RowsIn(campaigns) /\ LiveRows = {c \in RowsIn(campaigns) : ~ campaigns[c].deleted}
  BY RowsAreStored
<1>2. CASE \A c \in LiveRows : campaigns[c].slug # 1
  <2>1. GenerateUniqueSlug = 1
    BY <1>2 DEF GenerateUniqueSlug
  <2>2. SlugIsFree(1, campaigns)
    <3> SUFFICES ASSUME NEW c \in RowsIn(campaigns), campaigns[c].slug = 1 PROVE campaigns[c].deleted
      BY DEF SlugIsFree
    <3> QED BY <1>1, <1>2
  <2> QED BY <2>1, <2>2
<1>3. CASE ~ \A c \in LiveRows : campaigns[c].slug # 1
  <2>1. GenerateUniqueSlug = Max(S) + 1
    BY <1>3 DEF GenerateUniqueSlug
  <2>2. S \in SUBSET Nat /\ S # {}
    <3>1. \A c \in Stored : campaigns[c] \in CampaignRows
      BY <1>1, RowsOfTable DEF CampaignInv
    <3>2. \A c \in Stored : campaigns[c].slug \in Nat
      BY <3>1 DEF CampaignRows
    <3> QED BY <1>1, <1>3, <3>2
  <2>3. IsFiniteSet(S)
    <3>1. PICK n \in 0..MaxCampaigns : Stored = 1..n
      BY <1>1 DEF CampaignInv, GoodRows
    <3>2. IsFiniteSet(Stored)
      BY <3>1, FS_Interval
    <3> DEFINE f == [c \in Stored |-> campaigns[c].slug]
    <3>3. f \in Surjection(Stored, S)
      <4>1. f \in [Stored -> S]
        OBVIOUS
      <4>2. \A t \in S : \E c \in Stored : f[c] = t
        OBVIOUS
      <4> HIDE DEF f, S
      <4> QED BY <4>1, <4>2 DEF Surjection
    <3> HIDE DEF f, S
    <3> QED BY <3>2, <3>3, FS_Surjection
  <2>4. Max(S) \in S /\ \A y \in S : y <= Max(S)
    <3> HIDE DEF S
    <3> QED BY <2>2, <2>3, GreatestNatural
  <2>5. \A c \in Stored : campaigns[c].slug \in S
    OBVIOUS
  <2> HIDE DEF S
  <2>6. Max(S) \in Nat /\ \A c \in Stored : campaigns[c].slug \in Nat /\ campaigns[c].slug <= Max(S)
    BY <2>2, <2>4, <2>5
  <2>7. \A c \in Stored : campaigns[c].slug # Max(S) + 1
    BY <2>6
  <2> QED BY <1>1, <2>1, <2>6, <2>7 DEF SlugIsFree
<1> QED BY <1>2, <1>3

LEMMA SlugChosen == ASSUME CampaignAssumption, CampaignInv, NEW s \in Calls, ChooseSlug(s) PROVE CampaignInv'
<1> DEFINE r == calls[s]
           n == GenerateUniqueSlug
           q == [r EXCEPT !.slug = n, !.fresh = TRUE]
<1>1. r.op = "create" /\ UNCHANGED <<serverVars, creationVars, edits>>
  BY DEF ChooseSlug
<1>2. calls' = [calls EXCEPT ![s] = q]
  BY DEF ChooseSlug
<1>3. GoodCall(r, keys, campaigns)
  BY DEF CampaignInv, CallsInv
<1>4. n \in Nat /\ SlugIsFree(n, campaigns)
  BY UniqueSlugIsFree
<1> HIDE DEF r, n
<1>5. r \in CreateCalls /\ r.wallet \in keys
  BY <1>1, <1>3, KindsOfCalls
<1>6. q \in CreateCalls /\ q.wallet = r.wallet /\ q.slug = n
  BY <1>4, <1>5 DEF CreateCalls
<1> HIDE DEF q
<1>7. GoodCall(q, keys, campaigns)
  BY <1>4, <1>5, <1>6 DEF GoodCall
<1> QED BY <1>1, <1>2, <1>7, OneCallChanges

LEMMA CampaignInserted == ASSUME CampaignAssumption, CampaignInv, NEW s \in Calls, InsertCampaign(s) PROVE CampaignInv'
<1> DEFINE r == calls[s]
           id == Cardinality(Stored) + 1
           free == (\A c \in Stored : campaigns[c].slug # r.slug /\ campaigns[c].wallet # r.wallet) /\ id \in CampaignIds
           row == [status |-> r.status, deleted |-> FALSE, wallet |-> r.wallet, slug |-> r.slug]
<1>1. /\ r.op = "create" /\ r.slug # 0 /\ UNCHANGED <<raced, wallets, keys, edits>>
      /\ IF free
         THEN /\ campaigns' = [campaigns EXCEPT ![id] = row]
              /\ calls' = [t \in Calls |-> CASE t = s -> NoCall
                                             [] t # s /\ calls[t].op = "create" -> [calls[t] EXCEPT !.fresh = FALSE]
                                             [] OTHER -> calls[t]]
              /\ creation' = IF creation.wallet = r.wallet THEN NewPage ELSE creation
         ELSE Ends(s) /\ UNCHANGED <<campaigns, creation>>
  BY DEF InsertCampaign
<1>2. GoodCall(r, keys, campaigns)
  BY DEF CampaignInv, CallsInv
<1>3. CASE ~ free
  <2>1. calls' = [calls EXCEPT ![s] = NoCall] /\ UNCHANGED <<serverVars, creationVars, edits>>
    BY <1>1, <1>3 DEF Ends, serverVars, creationVars
  <2> QED BY <2>1, EndedCall, OneCallChanges
<1>4. CASE free
  <2>1. r \in CreateCalls /\ r.wallet \in keys
    <3> HIDE DEF r
    <3> QED BY <1>1, <1>2, KindsOfCalls
  <2>2. Stored = RowsIn(campaigns) /\ GoodRows(campaigns, keys, raced)
    BY RowsAreStored DEF CampaignInv
  <2>3. PICK n \in 0..MaxCampaigns : Stored = 1..n
    BY <2>2 DEF GoodRows
  <2>4. id = n + 1 /\ id \in CampaignIds /\ id \notin Stored
    <3>1. n \in Nat /\ Cardinality(1..n) = n
      BY <2>3, FS_Interval, CampaignAssumption DEF CampaignAssumption
    <3> QED BY <1>4, <2>3, <3>1
  <2>5. row \in CampaignRows /\ row # NoCampaign
    <3>1. row \in CampaignRows
      <4> HIDE DEF r
      <4> QED BY <1>1, <2>1 DEF CampaignRows, CreateCalls, RowStatuses
    <3> HIDE DEF row
    <3> QED BY <3>1, NoRow
  <2>6. row.wallet = r.wallet /\ row.slug = r.slug /\ ~ row.deleted
    OBVIOUS
  <2>7. \A c \in Stored : campaigns[c].slug # r.slug /\ campaigns[c].wallet # r.wallet
    BY <1>4
  <2>8. campaigns' = [campaigns EXCEPT ![id] = row]
    BY <1>1, <1>4
  <2>9. /\ calls' = [t \in Calls |-> CASE t = s -> NoCall
                                       [] t # s /\ calls[t].op = "create" -> [calls[t] EXCEPT !.fresh = FALSE]
                                       [] OTHER -> calls[t]]
        /\ creation' = IF creation.wallet = r.wallet THEN NewPage ELSE creation
    BY <1>1, <1>4
  <2> HIDE DEF r, id, free, row
  <2>10. campaigns \in [CampaignIds -> {NoCampaign} \cup CampaignRows]
    BY <2>2 DEF GoodRows
  <2>11. /\ campaigns' \in [CampaignIds -> {NoCampaign} \cup CampaignRows]
         /\ campaigns'[id] = row /\ \A c \in Stored : campaigns'[c] = campaigns[c]
    <3>1. Stored \subseteq CampaignIds
      BY DEF Stored
    <3> QED BY <2>4, <2>5, <2>8, <2>10, <3>1
  <2>12. RowsIn(campaigns') = Stored \cup {id}
    <3>1. \A c \in CampaignIds : campaigns'[c] = IF c = id THEN row ELSE campaigns[c]
      BY <2>8, <2>10
    <3> QED BY <2>4, <2>5, <3>1 DEF RowsIn, Stored
  <2>13. n + 1 \in 0..MaxCampaigns /\ RowsIn(campaigns') = 1..(n + 1)
    <3>1. n \in Nat /\ MaxCampaigns \in Nat
      BY <2>3, CampaignAssumption DEF CampaignAssumption
    <3>2. n + 1 \in 0..MaxCampaigns
      BY <2>4, <3>1 DEF CampaignIds
    <3>3. 1..(n + 1) = (1..n) \cup {n + 1}
      BY <3>1
    <3> QED BY <2>3, <2>4, <2>12, <3>2, <3>3
  <2>14. GoodRows(campaigns', keys, raced)
    <3>1. \A c, d \in RowsIn(campaigns') : c # d => campaigns'[c].slug # campaigns'[d].slug /\ campaigns'[c].wallet # campaigns'[d].wallet
      <4> SUFFICES ASSUME NEW c \in Stored \cup {id}, NEW d \in Stored \cup {id}, c # d
                   PROVE  campaigns'[c].slug # campaigns'[d].slug /\ campaigns'[c].wallet # campaigns'[d].wallet
        BY <2>12
      <4>1. CASE c \in Stored /\ d \in Stored
        BY <2>2, <2>11, <4>1 DEF GoodRows
      <4>2. CASE c \in Stored /\ d = id
        BY <2>6, <2>7, <2>11, <4>2
      <4>3. CASE c = id /\ d \in Stored
        BY <2>6, <2>7, <2>11, <4>3
      <4> QED BY <4>1, <4>2, <4>3
    <3>2. \A c \in RowsIn(campaigns') : GoodRow(campaigns'[c], c, keys, raced)
      <4>1. \A c \in Stored : GoodRow(campaigns'[c], c, keys, raced)
        BY <2>2, <2>11 DEF GoodRows
      <4>2. GoodRow(campaigns'[id], id, keys, raced)
        BY <2>1, <2>6, <2>11 DEF GoodRow
      <4> QED BY <2>12, <4>1, <4>2
    <3>3. raced \subseteq RowsIn(campaigns')
      BY <2>2, <2>12 DEF GoodRows
    <3> QED BY <2>11, <2>13, <3>1, <3>2, <3>3 DEF GoodRows
  <2>15. \A t \in Calls : GoodCall(calls'[t], keys, campaigns')
    <3> SUFFICES ASSUME NEW t \in Calls PROVE GoodCall(calls'[t], keys, campaigns')
      OBVIOUS
    <3>1. GoodCall(calls[t], keys, campaigns)
      BY DEF CampaignInv, CallsInv
    <3>2. CASE t = s
      <4>1. calls'[t] = NoCall
        BY <2>9, <3>2
      <4> QED BY <4>1, EndedCall
    <3>3. CASE t # s /\ calls[t].op = "create"
      <4> DEFINE q == [calls[t] EXCEPT !.fresh = FALSE]
      <4>1. calls'[t] = q
        BY <2>9, <3>3
      <4>2. calls[t] \in CreateCalls /\ calls[t].wallet \in keys
        BY <3>1, <3>3, KindsOfCalls
      <4>3. q \in CreateCalls /\ q.wallet = calls[t].wallet /\ ~ q.fresh
        BY <4>2 DEF CreateCalls
      <4> HIDE DEF q
      <4> QED BY <4>1, <4>2, <4>3 DEF GoodCall
    <3>4. CASE t # s /\ calls[t].op # "create"
      <4>1. calls'[t] = calls[t]
        BY <2>9, <3>4
      <4>2. \A x \in CreateCalls : x.op = "create"
        BY DEF CreateCalls
      <4> QED BY <2>2, <2>12, <3>1, <3>4, <4>1, <4>2 DEF GoodCall
    <3> QED BY <3>2, <3>3, <3>4
  <2>16. CallsInv'
    BY <1>1, <2>9, <2>15 DEF CallsInv
  <2>17. TabsInv'
    BY <1>1, <2>2, <2>12 DEF CampaignInv, TabsInv, GoodTab
  <2>18. CreationInv'
    <3>1. wallets \in 0..MaxWallets /\ keys \subseteq 1..wallets
      BY DEF CampaignInv, CreationInv
    <3>2. CASE creation' = creation
      BY <1>1, <3>2 DEF CampaignInv, CreationInv
    <3>3. CASE creation' = NewPage
      <4>1. /\ NewPage \in CreatePages /\ NewPage.wallet = 0 /\ ~ NewPage.dialog /\ ~ NewPage.downloaded
            /\ NewPage.wallet <= wallets
        BY <3>1, CampaignAssumption DEF NewPage, CreatePages, CampaignAssumption
      <4> QED BY <1>1, <3>1, <3>3, <4>1 DEF CreationInv
    <3> QED BY <2>9, <3>2, <3>3
  <2> QED BY <1>1, <2>14, <2>16, <2>17, <2>18 DEF CampaignInv
<1> QED BY <1>3, <1>4

-----------------------------------------------------------------------------
(* The edit pages and their writes.                                        *)

LEMMA TabChanges ==
    ASSUME CampaignInv, UNCHANGED <<serverVars, creationVars, calls>>, NEW t \in EditTabs, NEW e,
           edits' = [edits EXCEPT ![t] = e], GoodTab(e, campaigns)
    PROVE  CampaignInv'
<1>1. campaigns' = campaigns /\ raced' = raced /\ creation' = creation /\ wallets' = wallets /\ keys' = keys /\ calls' = calls
  BY DEF serverVars, creationVars
<1>2. edits = [u \in EditTabs |-> edits[u]] /\ \A u \in EditTabs : GoodTab(edits[u], campaigns)
  BY DEF CampaignInv, TabsInv
<1>3. edits' = [u \in EditTabs |-> edits'[u]] /\ \A u \in EditTabs : edits'[u] = IF u = t THEN e ELSE edits[u]
  BY <1>2
<1>4. TabsInv'
  BY <1>1, <1>2, <1>3 DEF TabsInv
<1> QED BY <1>1, <1>4 DEF CampaignInv, CreationInv, CallsInv

LEMMA EmptyTab == \A table : GoodTab(NoEdit, table)
BY DEF GoodTab, NoEdit, EditForms

LEMMA CampaignWritten == ASSUME CampaignInv, NEW s \in Calls, WriteCampaign(s) PROVE CampaignInv'
<1> DEFINE r == calls[s]
           was == campaigns[r.of]
           is == Written(was, r)
<1>1. /\ r.op \notin {"none", "create"} /\ r.seen # "none" /\ calls' = [calls EXCEPT ![s] = NoCall]
      /\ UNCHANGED creationVars
      /\ IF r.of \in LiveRows
         THEN /\ campaigns' = [campaigns EXCEPT ![r.of] = is]
              /\ raced' = raced \cup (IF was.status # r.seen THEN {r.of} ELSE {})
              /\ edits' = [edits EXCEPT ![r.tab] = NoEdit]
         ELSE UNCHANGED <<campaigns, raced, edits>>
  BY DEF WriteCampaign, Ends
<1>2. GoodCall(r, keys, campaigns) /\ GoodRows(campaigns, keys, raced)
  BY DEF CampaignInv, CallsInv
<1>3. /\ r \in EditCalls /\ r.of \in RowsIn(campaigns)
      /\ r.op = "delete" => r.seen = "Draft"
  <2> HIDE DEF r
  <2> QED BY <1>1, <1>2, KindsOfCalls
<1>4. CASE r.of \notin LiveRows
  <2>1. UNCHANGED <<serverVars, creationVars, edits>>
    BY <1>1, <1>4 DEF serverVars
  <2> QED BY <1>1, <2>1, EndedCall, OneCallChanges
<1>5. CASE r.of \in LiveRows
  <2>1. /\ campaigns' = [campaigns EXCEPT ![r.of] = is]
        /\ raced' = raced \cup (IF was.status # r.seen THEN {r.of} ELSE {})
        /\ edits' = [edits EXCEPT ![r.tab] = NoEdit]
    BY <1>1, <1>5
  <2>2. was \in CampaignRows /\ r.of \in CampaignIds /\ ~ was.deleted
    BY <1>2, <1>3, <1>5, RowsOfTable, RowsAreStored
  <2>3. r.op \in {"edit", "activate", "close", "delete"} /\ r.tab \in EditTabs
    <3> HIDE DEF r
    <3> QED BY <1>3 DEF EditCalls
  <2>4. /\ is \in CampaignRows /\ is.slug = was.slug /\ is.wallet = was.wallet
        /\ is.deleted => r.op = "delete" /\ is.status = was.status
    <3>1. r.op = "activate" => is = [was EXCEPT !.status = "Active"]
      BY DEF Written
    <3>2. r.op = "close" => is = [was EXCEPT !.status = "Closed"]
      BY DEF Written
    <3>3. r.op = "delete" => is = [was EXCEPT !.deleted = TRUE]
      BY DEF Written
    <3>4. r.op = "edit" => is = was
      BY DEF Written
    <3> HIDE DEF is, was, r
    <3>5. CASE r.op = "activate"
      BY <2>2, <3>1, <3>5 DEF CampaignRows, RowStatuses
    <3>6. CASE r.op = "close"
      BY <2>2, <3>2, <3>6 DEF CampaignRows, RowStatuses
    <3>7. CASE r.op = "delete"
      BY <2>2, <3>3, <3>7 DEF CampaignRows, RowStatuses
    <3>8. CASE r.op = "edit"
      BY <2>2, <3>4, <3>8
    <3> QED BY <2>3, <3>5, <3>6, <3>7, <3>8
  <2>5. campaigns \in [CampaignIds -> {NoCampaign} \cup CampaignRows]
    BY <1>2 DEF GoodRows
  <2>6. keys' = keys
    BY <1>1 DEF creationVars
  <2>7. /\ is.deleted => is.status = "Draft" \/ r.of \in raced'
        /\ raced \subseteq raced' /\ raced' \subseteq raced \cup {r.of}
    <3>1. is.deleted => is.status = was.status /\ r.seen = "Draft"
      BY <1>3, <2>4
    <3> HIDE DEF is, was, r
    <3> QED BY <2>1, <3>1
  <2> DEFINE of == r.of
             tab == r.tab
  <2>8. was = campaigns[of] /\ of \in RowsIn(campaigns) /\ of \in CampaignIds
    BY <1>3, <2>2
  <2>9. is.wallet = campaigns[of].wallet /\ is.slug = campaigns[of].slug
    BY <2>4
  <2> HIDE DEF is, was
  <2>10. /\ campaigns' \in [CampaignIds -> {NoCampaign} \cup CampaignRows]
         /\ \A c \in CampaignIds : campaigns'[c] = IF c = of THEN is ELSE campaigns[c]
    <3> HIDE DEF r
    <3> QED BY <2>1, <2>4, <2>5, <2>8 DEF of
  <2>11. is # NoCampaign
    BY <2>4, NoRow
  <2> HIDE DEF of, r
  <2>12. RowsIn(campaigns') = RowsIn(campaigns)
    BY <2>8, <2>10, <2>11 DEF RowsIn
  <2>13. \A c \in RowsIn(campaigns) :
           /\ campaigns'[c].slug = campaigns[c].slug /\ campaigns'[c].wallet = campaigns[c].wallet
           /\ campaigns[c].deleted => campaigns'[c].deleted
    <3> SUFFICES ASSUME NEW c \in RowsIn(campaigns)
                 PROVE  /\ campaigns'[c].slug = campaigns[c].slug /\ campaigns'[c].wallet = campaigns[c].wallet
                        /\ campaigns[c].deleted => campaigns'[c].deleted
      OBVIOUS
    <3>1. c \in CampaignIds
      BY DEF RowsIn
    <3>2. CASE c = of
      BY <2>2, <2>8, <2>9, <2>10, <3>1, <3>2
    <3>3. CASE c # of
      BY <2>10, <3>1, <3>3
    <3> QED BY <3>2, <3>3
  <2>14. GoodRows(campaigns', keys, raced')
    <3>1. \A c, d \in RowsIn(campaigns') : c # d => campaigns'[c].slug # campaigns'[d].slug /\ campaigns'[c].wallet # campaigns'[d].wallet
      BY <1>2, <2>12, <2>13 DEF GoodRows
    <3>2. \A c \in RowsIn(campaigns') : GoodRow(campaigns'[c], c, keys, raced')
      <4> SUFFICES ASSUME NEW c \in RowsIn(campaigns) PROVE GoodRow(campaigns'[c], c, keys, raced')
        BY <2>12
      <4>1. GoodRow(campaigns[c], c, keys, raced) /\ c \in CampaignIds
        BY <1>2 DEF GoodRows, RowsIn
      <4>2. CASE c = of
        BY <2>7, <2>9, <2>10, <4>1, <4>2 DEF GoodRow, of
      <4>3. CASE c # of
        BY <2>7, <2>10, <4>1, <4>3 DEF GoodRow
      <4> QED BY <4>2, <4>3
    <3>3. raced' \subseteq RowsIn(campaigns')
      BY <1>2, <2>7, <2>8, <2>12 DEF GoodRows, of
    <3>4. \E n \in 0..MaxCampaigns : RowsIn(campaigns') = 1..n
      BY <1>2, <2>12 DEF GoodRows
    <3> QED BY <2>10, <3>1, <3>2, <3>3, <3>4 DEF GoodRows
  <2>15. \A t \in Calls : GoodCall(calls'[t], keys, campaigns')
    <3> SUFFICES ASSUME NEW t \in Calls PROVE GoodCall(calls'[t], keys, campaigns')
      OBVIOUS
    <3>1. GoodCall(calls[t], keys, campaigns) /\ calls = [u \in Calls |-> calls[u]]
      BY DEF CampaignInv, CallsInv
    <3>2. calls'[t] \in {NoCall, calls[t]}
      BY <1>1, <3>1
    <3>3. GoodCall(calls[t], keys, campaigns')
      BY <2>12, <2>13, <3>1, CallsStayGood
    <3> QED BY <3>2, <3>3, EndedCall
  <2>16. calls' = [t \in Calls |-> calls'[t]]
    BY <1>1 DEF CampaignInv, CallsInv
  <2>17. TabsInv'
    <3>1. edits = [u \in EditTabs |-> edits[u]] /\ \A u \in EditTabs : GoodTab(edits[u], campaigns)
      BY DEF CampaignInv, TabsInv
    <3>2. edits' = [u \in EditTabs |-> edits'[u]] /\ \A u \in EditTabs : edits'[u] \in {NoEdit, edits[u]}
      BY <2>1, <3>1
    <3>3. \A u \in EditTabs : GoodTab(edits[u], campaigns')
      BY <2>12, <3>1 DEF GoodTab
    <3> QED BY <3>2, <3>3, EmptyTab DEF TabsInv
  <2>18. CreationInv'
    BY <1>1 DEF CampaignInv, CreationInv, creationVars
  <2> QED BY <2>6, <2>14, <2>15, <2>16, <2>17, <2>18 DEF CampaignInv, CallsInv
<1> QED BY <1>4, <1>5

LEMMA CampaignStep == ASSUME CampaignAssumption, CampaignInv, [CampaignNext]_campaignVars PROVE CampaignInv'
<1>1. ASSUME NEW t \in EditTabs, CampaignLoaded(t) PROVE CampaignInv'
  <2>1. PICK c \in LiveRows : edits' = [edits EXCEPT ![t] = [of |-> c, status |-> campaigns[c].status]]
    BY <1>1 DEF CampaignLoaded
  <2>2. UNCHANGED <<serverVars, creationVars, calls>>
    BY <1>1 DEF CampaignLoaded
  <2>3. c \in RowsIn(campaigns) /\ c \in CampaignIds /\ campaigns[c] \in CampaignRows
    BY <2>1, RowsAreStored, RowsOfTable DEF CampaignInv
  <2>4. GoodTab([of |-> c, status |-> campaigns[c].status], campaigns)
    BY <2>3 DEF GoodTab, EditForms, CampaignRows
  <2> QED BY <2>1, <2>2, <2>4, TabChanges
<1>2. ASSUME NEW t \in EditTabs, LeaveEdit(t) PROVE CampaignInv'
  BY <1>2, EmptyTab, TabChanges DEF LeaveEdit
<1>3. CASE UNCHANGED campaignVars
  BY <1>3 DEF campaignVars, CampaignInv, CreationInv, CallsInv, TabsInv
<1>4. CASE FillBasics \/ GenerateWallet \/ HandleDownload \/ LeaveCreation
  BY <1>4, CreatePageSteps
<1>5. CASE HandleCreate
  BY <1>5, CreateCalled
<1>6. ASSUME NEW s \in Calls, ChooseSlug(s) \/ InsertCampaign(s) \/ Checked(s) \/ WriteCampaign(s) PROVE CampaignInv'
  BY <1>6, SlugChosen, CampaignInserted, CheckedCall, CampaignWritten
<1>7. ASSUME NEW t \in EditTabs, ClickAction(t) PROVE CampaignInv'
  BY <1>7, ActionClicked
<1> QED BY <1>1, <1>2, <1>3, <1>4, <1>5, <1>6, <1>7 DEF CampaignNext

(* The inductive invariant of the campaign's forms and the service behind     *)
(* them: rows numbered without a gap, wallets of saved keys, chosen slugs.    *)
THEOREM CampaignAlways == CampaignSpec => []CampaignInv
<1>1. CampaignInit => CampaignInv
  <2> SUFFICES ASSUME CampaignInit PROVE CampaignInv
    OBVIOUS
  <2>1. /\ campaigns = [c \in CampaignIds |-> NoCampaign] /\ raced = {} /\ creation = NewPage
        /\ wallets = 0 /\ keys = {} /\ edits = [t \in EditTabs |-> NoEdit] /\ calls = [s \in Calls |-> NoCall]
    BY DEF CampaignInit
  <2>2. RowsIn(campaigns) = {} /\ 0 \in 0..MaxCampaigns /\ 1..0 = {} /\ 0 \in 0..MaxWallets
    BY <2>1, CampaignAssumption DEF RowsIn, CampaignAssumption
  <2>3. GoodRows(campaigns, keys, raced)
    BY <2>1, <2>2 DEF GoodRows
  <2>4. NewPage \in CreatePages /\ NewPage.wallet = 0 /\ ~ NewPage.dialog /\ ~ NewPage.downloaded
    BY <2>2 DEF NewPage, CreatePages
  <2>5. CreationInv
    BY <2>1, <2>2, <2>4 DEF CreationInv
  <2>6. CallsInv
    BY <2>1, EndedCall DEF CallsInv
  <2>7. TabsInv
    BY <2>1, EmptyTab DEF TabsInv
  <2> QED BY <2>3, <2>5, <2>6, <2>7 DEF CampaignInv
<1>2. CampaignInv /\ [CampaignNext]_campaignVars => CampaignInv'
  BY CampaignAssumption, CampaignStep
<1> QED BY <1>1, <1>2, PTL DEF CampaignSpec

(* Types of campaigns, pages and requests; slugs and wallets are unique.      *)
THEOREM CampaignTypeCorrect == CampaignSpec => []CampaignTypeOK
<1>1. CampaignInv => CampaignTypeOK
  <2> SUFFICES ASSUME CampaignInv PROVE CampaignTypeOK
    OBVIOUS
  <2>1. Stored = RowsIn(campaigns)
    BY RowsAreStored
  <2>2. \A c \in Stored : campaigns[c].status \in {"Draft", "Active", "Closed"} /\ campaigns[c].slug \in Nat \ {0}
    BY <2>1, RowsOfTable DEF CampaignInv, CampaignRows, RowStatuses
  <2>3. \A t \in EditTabs : edits[t].of \in {0} \cup Stored
    BY <2>1 DEF CampaignInv, TabsInv, GoodTab
  <2>4. \A c \in Stored : \A d \in Stored : c # d => /\ campaigns[c].slug # campaigns[d].slug
                                                     /\ campaigns[c].wallet # campaigns[d].wallet
    BY <2>1 DEF CampaignInv, GoodRows
  <2>5. raced \subseteq Stored
    BY <2>1 DEF CampaignInv, GoodRows
  <2>6. /\ keys \subseteq 1..wallets /\ wallets \in 0..MaxWallets
        /\ creation.wallet # 0 => (creation.dialog <=> creation.wallet \notin keys)
    BY DEF CampaignInv, CreationInv
  <2> QED BY <2>2, <2>3, <2>4, <2>5, <2>6 DEF CampaignTypeOK
<1> QED BY <1>1, CampaignAlways, PTL

(* Whoever donates to a stored campaign pays into a wallet whose key was      *)
(* saved, for any number of campaigns, wallets, tabs and requests.            *)
THEOREM WalletsAlwaysHeld == CampaignSpec => []WalletsAreHeld
<1>1. CampaignInv => WalletsAreHeld
  BY RowsAreStored DEF CampaignInv, GoodRows, GoodRow, WalletsAreHeld
<1> QED BY <1>1, CampaignAlways, PTL

(* Only drafts disappear, but for a publication between a deletion's check    *)
(* and its write.                                                             *)
THEOREM DeletedAlwaysDraft == CampaignSpec => []DeletedIsDraft
<1>1. CampaignInv => DeletedIsDraft
  BY RowsAreStored DEF CampaignInv, GoodRows, GoodRow, DeletedIsDraft
<1> QED BY <1>1, CampaignAlways, PTL

(* A slug that was just chosen is free, or the bare one of a deleted campaign. *)
THEOREM ChosenSlugAlwaysFree == CampaignSpec => []ChosenSlugIsFree
<1>1. CampaignInv => ChosenSlugIsFree
  <2> SUFFICES ASSUME CampaignInv, NEW s \in Calls, calls[s].op = "create", calls[s].fresh
               PROVE  \A c \in Stored : campaigns[c].slug = calls[s].slug => calls[s].slug = 1 /\ campaigns[c].deleted
    BY DEF ChosenSlugIsFree
  <2>1. SlugIsFree(calls[s].slug, campaigns)
    BY KindsOfCalls DEF CampaignInv, CallsInv
  <2> QED BY <2>1, RowsAreStored DEF SlugIsFree
<1> QED BY <1>1, CampaignAlways, PTL

-----------------------------------------------------------------------------
(* The form of an update (CampaignUpdate).                                 *)

(* Facts about sequences.                                                    *)

LEMMA RemoveAtSeq ==
    ASSUME NEW S, NEW s \in Seq(S), NEW i \in 1..Len(s)
    PROVE  /\ RemoveAt(s, i) \in Seq(S) /\ Len(RemoveAt(s, i)) = Len(s) - 1
           /\ \A j \in 1..(Len(s) - 1) : RemoveAt(s, i)[j] = IF j < i THEN s[j] ELSE s[j + 1]
<1> DEFINE l == SubSeq(s, 1, i - 1)
           r == SubSeq(s, i + 1, Len(s))
<1>0. Len(s) \in Nat /\ i \in Nat /\ 1 <= i /\ i <= Len(s)
  BY LenProperties
<1>1. \A j \in 1..Len(s) : s[j] \in S
  BY ElementOfSeq
<1>2. /\ l \in Seq(S) /\ Len(l) = i - 1 /\ \A j \in 1..(i - 1) : l[j] = s[j]
  <2>1. /\ l \in Seq(S) /\ Len(l) = (IF 1 <= i - 1 THEN (i - 1) - 1 + 1 ELSE 0)
        /\ \A j \in 1..((i - 1) - 1 + 1) : l[j] = s[1 + j - 1]
    <3>1. \A j \in 1..(i - 1) : s[j] \in S
      BY <1>0, <1>1
    <3>2. 1 \in Int /\ i - 1 \in Int
      BY <1>0
    <3> QED BY <3>1, <3>2, SubSeqProperties
  <2>2. \A j \in 1..(i - 1) : 1 + j - 1 = j /\ j \in 1..((i - 1) - 1 + 1)
    BY <1>0
  <2> HIDE DEF l
  <2> QED BY <1>0, <2>1, <2>2
<1>3. /\ r \in Seq(S) /\ Len(r) = Len(s) - i /\ \A j \in 1..(Len(s) - i) : r[j] = s[j + i]
  <2>1. /\ r \in Seq(S) /\ Len(r) = (IF i + 1 <= Len(s) THEN Len(s) - (i + 1) + 1 ELSE 0)
        /\ \A j \in 1..(Len(s) - (i + 1) + 1) : r[j] = s[(i + 1) + j - 1]
    <3>1. \A j \in (i + 1)..Len(s) : s[j] \in S
      BY <1>0, <1>1
    <3>2. i + 1 \in Int /\ Len(s) \in Int
      BY <1>0
    <3> QED BY <3>1, <3>2, SubSeqProperties
  <2>2. \A j \in 1..(Len(s) - i) : (i + 1) + j - 1 = j + i /\ j \in 1..(Len(s) - (i + 1) + 1)
    BY <1>0
  <2> HIDE DEF r
  <2> QED BY <1>0, <2>1, <2>2
<1> HIDE DEF l, r
<1>4. /\ l \o r \in Seq(S) /\ Len(l \o r) = Len(l) + Len(r)
      /\ \A j \in 1..(Len(l) + Len(r)) : (l \o r)[j] = IF j <= Len(l) THEN l[j] ELSE r[j - Len(l)]
  BY <1>2, <1>3, ConcatProperties
<1>5. \A j \in 1..(Len(s) - 1) : (l \o r)[j] = IF j < i THEN s[j] ELSE s[j + 1]
  <2> SUFFICES ASSUME NEW j \in 1..(Len(s) - 1) PROVE (l \o r)[j] = IF j < i THEN s[j] ELSE s[j + 1]
    OBVIOUS
  <2>1. (l \o r)[j] = IF j <= i - 1 THEN l[j] ELSE r[j - (i - 1)]
    BY <1>0, <1>2, <1>3, <1>4
  <2>2. CASE j < i
    BY <1>0, <1>2, <2>1, <2>2
  <2>3. CASE ~ (j < i)
    <3>1. j - (i - 1) \in 1..(Len(s) - i) /\ (j - (i - 1)) + i = j + 1
      BY <1>0, <2>3
    <3>2. r[j - (i - 1)] = s[j + 1]
      BY <1>3, <3>1
    <3> QED BY <1>0, <2>1, <2>3, <3>2
  <2> QED BY <2>2, <2>3
<1>6. RemoveAt(s, i) = l \o r
  BY DEF RemoveAt, l, r
<1>7. Len(l \o r) = Len(s) - 1
  BY <1>0, <1>2, <1>3, <1>4
<1> QED BY <1>4, <1>5, <1>6, <1>7

LEMMA RemoveFromConcat ==
    ASSUME NEW S, NEW s \in Seq(S), NEW t \in Seq(S), NEW i \in 1..Len(s \o t), i > Len(s)
    PROVE  /\ i - Len(s) \in 1..Len(t)
           /\ RemoveAt(s \o t, i) = s \o RemoveAt(t, i - Len(s))
<1> DEFINE n == i - Len(s)
<1>0. Len(s) \in Nat /\ Len(t) \in Nat
  BY LenProperties
<1>1. /\ s \o t \in Seq(S) /\ Len(s \o t) = Len(s) + Len(t)
      /\ \A j \in 1..(Len(s) + Len(t)) : (s \o t)[j] = IF j <= Len(s) THEN s[j] ELSE t[j - Len(s)]
  BY ConcatProperties
<1>2. n \in 1..Len(t) /\ i \in Nat
  BY <1>0, <1>1
<1>3. /\ RemoveAt(t, n) \in Seq(S) /\ Len(RemoveAt(t, n)) = Len(t) - 1
      /\ \A j \in 1..(Len(t) - 1) : RemoveAt(t, n)[j] = IF j < n THEN t[j] ELSE t[j + 1]
  <2> HIDE DEF n
  <2> QED BY <1>2, RemoveAtSeq
<1> DEFINE k == RemoveAt(t, n)
           u == RemoveAt(s \o t, i)
<1>4. /\ u \in Seq(S) /\ Len(u) = Len(s) + Len(t) - 1
      /\ \A j \in 1..(Len(s) + Len(t) - 1) : u[j] = IF j < i THEN (s \o t)[j] ELSE (s \o t)[j + 1]
  <2> DEFINE w == s \o t
  <2>1. w \in Seq(S) /\ i \in 1..Len(w) /\ Len(w) = Len(s) + Len(t)
    BY <1>1
  <2> HIDE DEF w
  <2>2. /\ RemoveAt(w, i) \in Seq(S) /\ Len(RemoveAt(w, i)) = Len(w) - 1
        /\ \A j \in 1..(Len(w) - 1) : RemoveAt(w, i)[j] = IF j < i THEN w[j] ELSE w[j + 1]
    BY <2>1, RemoveAtSeq
  <2> QED BY <2>1, <2>2 DEF w
<1>5. /\ s \o k \in Seq(S) /\ Len(s \o k) = Len(s) + Len(t) - 1
      /\ \A j \in 1..(Len(s) + Len(t) - 1) : (s \o k)[j] = IF j <= Len(s) THEN s[j] ELSE k[j - Len(s)]
  <2> HIDE DEF n, k
  <2>1. k \in Seq(S) /\ Len(k) = Len(t) - 1
    BY <1>3 DEF k
  <2>2. /\ s \o k \in Seq(S) /\ Len(s \o k) = Len(s) + Len(k)
        /\ \A j \in 1..(Len(s) + Len(k)) : (s \o k)[j] = IF j <= Len(s) THEN s[j] ELSE k[j - Len(s)]
    BY <2>1, ConcatProperties
  <2> QED BY <1>0, <1>2, <2>1, <2>2
<1>6. \A j \in 1..(Len(s) + Len(t) - 1) : u[j] = (s \o k)[j]
  <2> SUFFICES ASSUME NEW j \in 1..(Len(s) + Len(t) - 1) PROVE u[j] = (s \o k)[j]
    OBVIOUS
  <2>0. j \in Nat /\ 1 <= j /\ j <= Len(s) + Len(t) - 1
    BY <1>0
  <2> HIDE DEF u, k
  <2>1. CASE j <= Len(s)
    <3>1. j < i /\ j \in 1..(Len(s) + Len(t))
      BY <1>0, <1>2, <2>0, <2>1
    <3> QED BY <1>1, <1>4, <1>5, <2>1, <3>1
  <2>2. CASE j > Len(s) /\ j < i
    <3>1. j \in 1..(Len(s) + Len(t)) /\ j - Len(s) \in 1..(Len(t) - 1) /\ j - Len(s) < n /\ ~ (j <= Len(s))
      BY <1>0, <1>2, <2>0, <2>2
    <3>2. u[j] = t[j - Len(s)]
      BY <1>1, <1>4, <2>2, <3>1
    <3>3. (s \o k)[j] = t[j - Len(s)]
      BY <1>3, <1>5, <3>1 DEF k
    <3> QED BY <3>2, <3>3
  <2>3. CASE j >= i
    <3>1. /\ j + 1 \in 1..(Len(s) + Len(t)) /\ j - Len(s) \in 1..(Len(t) - 1) /\ ~ (j - Len(s) < n)
          /\ ~ (j <= Len(s)) /\ ~ (j + 1 <= Len(s)) /\ ~ (j < i) /\ (j + 1) - Len(s) = (j - Len(s)) + 1
      BY <1>0, <1>2, <2>0, <2>3
    <3>2. u[j] = t[(j + 1) - Len(s)]
      BY <1>1, <1>4, <3>1
    <3>3. (s \o k)[j] = t[(j - Len(s)) + 1]
      BY <1>3, <1>5, <3>1 DEF k
    <3>4. (j + 1) - Len(s) = (j - Len(s)) + 1
      BY <1>0, <2>0
    <3> QED BY <3>2, <3>3, <3>4
  <2>4. j <= Len(s) \/ (j > Len(s) /\ j < i) \/ j >= i
    BY <1>0, <1>2, <2>0
  <2> QED BY <2>1, <2>2, <2>3, <2>4
<1> HIDE DEF u, k, n
<1>7. u = s \o k
  BY <1>4, <1>5, <1>6, SeqEqual
<1> QED BY <1>2, <1>7 DEF u, k, n

LEMMA SetInASequence ==
    ASSUME NEW S, IsFiniteSet(S)
    PROVE  SetToSeq(S) \in Seq(S)
<1>1. PICK n \in Nat : ExistsBijection(1..n, S)
  BY FS_NatBijection
<1>2. Cardinality(S) = n
  BY <1>1, FS_CountingElements
<1>3. PICK f : f \in Bijection(1..n, S)
  BY <1>1 DEF ExistsBijection
<1>4. f \in [1..Cardinality(S) -> S] /\ IsInjective(f)
  BY <1>2, <1>3 DEF Bijection, Injection, IsInjective
<1>5. SetToSeq(S) \in [1..Cardinality(S) -> S]
  BY <1>4 DEF SetToSeq
<1> QED BY <1>2, <1>5

LEMMA Kept ==
    ASSUME NEW S, NEW s \in Seq(S), NEW v \in CompressImages(s)
    PROVE  v \in Seq(S)
<1>1. PICK k \in InOrder(Len(s)) : v = [i \in DOMAIN k |-> s[k[i]]]
  BY DEF CompressImages
<1>2. PICK m \in 0..Len(s) : k \in [1..m -> 1..Len(s)]
  BY DEF InOrder
<1>3. m \in Nat /\ \A i \in 1..Len(s) : s[i] \in S
  BY LenProperties, ElementOfSeq
<1>4. v \in [1..m -> S]
  BY <1>1, <1>2, <1>3
<1> QED BY <1>3, <1>4

-----------------------------------------------------------------------------
(* The inductive invariant of the form.                                      *)

UpdateTexts == [edits : 0..MaxTyping, hashes : SUBSET TxHashes]
UpdateForms == [text : UpdateTexts, images : Seq(Pictures), existing : Seq(Pictures)]
Batches == [stage : {"checking", "compressing"}, files : Seq(Pictures), text : UpdateTexts,
            images : Seq(Pictures), existing : Seq(Pictures)]
Pickers == [images : Seq(Pictures), existing : Seq(Pictures), previews : Seq(Pictures),
            compressing : BOOLEAN, picks : Nat]

ShortText(t) == Cardinality(t.hashes) <= MaxHashes
FitsIn(f) == Len(f.images) + Len(f.existing) <= MaxPictures
GoodForm(f) == f \in UpdateForms /\ ShortText(f.text) /\ FitsIn(f)

\* A call under way kept the posted images of its render; fewer are left since.
GoodBatch(x, existing) ==
    x = NoBatch \/ (x \in Batches /\ ShortText(x.text) /\ Len(existing) <= Len(x.existing))

StateInv ==
    /\ GoodForm(post) /\ \A r \in reads : GoodForm(r)
    /\ picker \in Pickers /\ FitsIn(picker)
    /\ batches = [b \in Slots |-> batches[b]] /\ \A b \in Slots : GoodBatch(batches[b], picker.existing)
    /\ crossed \in 0..MaxCrossings

\* Of one batch, or one read, that nothing crossed.
AsPicked(f, p, text) == f.text = text /\ f.images = p.images /\ f.existing = p.existing
OneAtATime(bs, rs, p, text) ==
    /\ \A r \in rs : AsPicked(r, p, text)
    /\ \A b \in Slots : bs[b] # NoBatch =>
           /\ rs = {} /\ \A c \in Slots \ {b} : bs[c] = NoBatch
           /\ AsPicked(bs[b], p, text)

Quiet(p, q, bs, rs, text) ==
    /\ q.text = text /\ p.previews = p.existing \o p.images
    /\ OneAtATime(bs, rs, p, text)
    /\ rs = {} => q.images = p.images /\ q.existing = p.existing

QuietInv == crossed = 0 => Quiet(picker, post, batches, reads, entered)

UpdateInv == StateInv /\ QuietInv /\ PublishedAsShown

-----------------------------------------------------------------------------

LEMMA UpdateTypes ==
    ASSUME UpdateAssumption
    PROVE  /\ MaxPictures \in Nat /\ MaxHashes \in Nat /\ MaxBatches \in Nat
           /\ MaxTyping \in Nat /\ MaxCrossings \in Nat
BY DEF UpdateAssumption

LEMMA Crosses ==
    ASSUME UpdateAssumption, crossed \in 0..MaxCrossings, OnPage, NEW c, Cross(c)
    PROVE  crossed' \in 0..MaxCrossings /\ (crossed' = 0 => crossed = 0 /\ ~ c)
<1>1. CASE c
  BY <1>1, UpdateTypes DEF Cross, OnPage
<1>2. CASE ~ c
  BY <1>2, UpdateTypes DEF Cross, OnPage
<1> QED BY <1>1, <1>2

LEMMA Lower ==
    \A m, a, b \in Nat : a + b <= m =>
        a <= m /\ b <= m /\ \A c \in Nat : (c <= a => c + b <= m) /\ (c <= b => a + c <= m)
OBVIOUS

LEMMA NothingPending ==
    ASSUME ~ Pending
    PROVE  reads = {} /\ \A b \in Slots : batches[b] = NoBatch
BY DEF Pending

\* The picker and what is under way are left alone.
LEMMA PickerStays ==
    ASSUME StateInv, UNCHANGED <<picker, batches>>, crossed' \in 0..MaxCrossings,
           GoodForm(post'), \A r \in reads' : GoodForm(r)
    PROVE  StateInv'
BY DEF StateInv, GoodForm, GoodBatch, FitsIn, ShortText

LEMMA WritesText ==
    ASSUME UpdateAssumption, UpdateInv, OnPage, NEW t \in UpdateTexts, ShortText(t), WriteText(t)
    PROVE  UpdateInv'
<1>0. GoodForm(post) /\ crossed \in 0..MaxCrossings /\ \A r \in reads : GoodForm(r)
  BY DEF UpdateInv, StateInv
<1>1. /\ post' = [post EXCEPT !.text = t] /\ entered' = t /\ Cross(Pending)
      /\ picker' = picker /\ batches' = batches /\ reads' = reads /\ published' = published
  BY DEF WriteText, Crossing
<1>2. /\ post' \in UpdateForms /\ post'.text = t /\ post'.images = post.images
      /\ post'.existing = post.existing
  BY <1>0, <1>1 DEF UpdateForms, GoodForm
<1>3. GoodForm(post')
  BY <1>0, <1>2 DEF GoodForm, FitsIn
<1>4. crossed' \in 0..MaxCrossings /\ (crossed' = 0 => crossed = 0 /\ ~ Pending)
  BY <1>0, <1>1, Crosses
<1>5. StateInv'
  BY <1>0, <1>1, <1>3, <1>4, PickerStays DEF UpdateInv
<1>6. QuietInv'
  <2> SUFFICES ASSUME crossed' = 0 PROVE Quiet(picker, post', batches, reads, t)
    BY <1>1 DEF QuietInv
  <2>1. Quiet(picker, post, batches, reads, entered)
    BY <1>4 DEF UpdateInv, QuietInv
  <2>2. reads = {} /\ \A b \in Slots : batches[b] = NoBatch
    BY <1>4, NothingPending
  <2> QED BY <1>2, <2>1, <2>2 DEF Quiet, OneAtATime
<1>7. PublishedAsShown'
  BY <1>1 DEF UpdateInv, PublishedAsShown
<1> QED BY <1>5, <1>6, <1>7 DEF UpdateInv

LEMMA TextSteps ==
    ASSUME UpdateAssumption, UpdateInv, TypeText \/ AddHashes \/ RemoveHash
    PROVE  UpdateInv'
<1>0. post.text \in UpdateTexts /\ ShortText(post.text)
  BY DEF UpdateInv, StateInv, GoodForm, UpdateForms
<1>00. /\ MaxTyping \in Nat /\ MaxHashes \in Nat /\ IsFiniteSet(TxHashes)
       /\ post.text.edits \in 0..MaxTyping /\ post.text.hashes \in SUBSET TxHashes
  BY <1>0 DEF UpdateAssumption, UpdateTexts
<1>1. CASE TypeText
  <2> DEFINE t == [post.text EXCEPT !.edits = @ + 1]
  <2>1. OnPage /\ post.text.edits < MaxTyping /\ WriteText(t)
    BY <1>1 DEF TypeText
  <2>2. post.text.edits + 1 \in 0..MaxTyping
    BY <1>00, <2>1
  <2>3. t \in UpdateTexts /\ t.hashes = post.text.hashes
    BY <1>0, <2>2 DEF UpdateTexts
  <2> HIDE DEF t
  <2>4. ShortText(t)
    BY <1>0, <2>3 DEF ShortText
  <2> QED BY <2>1, <2>3, <2>4, WritesText
<1>2. CASE AddHashes
  <2>1. PICK new \in SUBSET TxHashes :
            /\ Cardinality(post.text.hashes) + Cardinality(new) <= MaxHashes
            /\ WriteText([post.text EXCEPT !.hashes = @ \cup new])
    BY <1>2 DEF AddHashes
  <2> DEFINE t == [post.text EXCEPT !.hashes = @ \cup new]
  <2>2. t \in UpdateTexts /\ t.hashes = post.text.hashes \cup new
    BY <1>0, <1>00 DEF UpdateTexts
  <2> HIDE DEF t
  <2> DEFINE h == post.text.hashes
  <2>3. IsFiniteSet(h) /\ IsFiniteSet(new)
    BY <1>00, FS_Subset
  <2>4. /\ Cardinality(h \cup new) = Cardinality(h) + Cardinality(new) - Cardinality(h \cap new)
        /\ Cardinality(h) \in Nat /\ Cardinality(new) \in Nat /\ Cardinality(h \cap new) \in Nat
    BY <2>3, FS_Union, FS_CardinalityType, FS_Intersection
  <2>5. ShortText(t)
    BY <1>00, <2>1, <2>2, <2>4 DEF ShortText
  <2>6. OnPage
    BY <1>2 DEF AddHashes
  <2> QED BY <2>1, <2>2, <2>5, <2>6, WritesText DEF t
<1>3. CASE RemoveHash
  <2>1. PICK old \in SUBSET post.text.hashes : WriteText([post.text EXCEPT !.hashes = @ \ old])
    BY <1>3 DEF RemoveHash
  <2> DEFINE t == [post.text EXCEPT !.hashes = @ \ old]
  <2>2. t \in UpdateTexts /\ t.hashes = post.text.hashes \ old
    BY <1>0, <1>00 DEF UpdateTexts
  <2> HIDE DEF t
  <2> DEFINE h == post.text.hashes
  <2>3. IsFiniteSet(h)
    BY <1>00, FS_Subset
  <2>4. /\ Cardinality(h \ old) <= Cardinality(h) /\ Cardinality(h) \in Nat /\ Cardinality(h \ old) \in Nat
    BY <2>3, FS_Subset, FS_CardinalityType
  <2>5. ShortText(t)
    BY <1>00, <1>0, <2>2, <2>4 DEF ShortText
  <2>6. OnPage
    BY <1>3 DEF RemoveHash
  <2> QED BY <2>1, <2>2, <2>5, <2>6, WritesText DEF t
<1> QED BY <1>1, <1>2, <1>3

-----------------------------------------------------------------------------
(* A pick, from its click to the write of the form.                          *)

LEMMA PicksImages == ASSUME UpdateAssumption, UpdateInv, PickImages PROVE UpdateInv'
<1>1. PICK b \in Slots, files \in {<<p>> : p \in Pictures} \cup {SetToSeq(Pictures)} :
          batches' = [batches EXCEPT ![b] =
                 [stage |-> "checking", files |-> files, text |-> post.text,
                  images |-> picker.images, existing |-> picker.existing]]
  BY DEF PickImages
<1>2. /\ OnPage /\ picker' = [picker EXCEPT !.picks = @ + 1] /\ Cross(Pending)
      /\ post' = post /\ reads' = reads /\ published' = published /\ entered' = entered
  BY DEF PickImages, Crossing
<1>3. files \in Seq(Pictures)
  <2>1. SetToSeq(Pictures) \in Seq(Pictures)
    BY SetInASequence DEF UpdateAssumption
  <2>2. \A p \in Pictures : <<p>> \in Seq(Pictures)
    OBVIOUS
  <2> QED BY <2>1, <2>2
<1> DEFINE x == [stage |-> "checking", files |-> files, text |-> post.text,
                 images |-> picker.images, existing |-> picker.existing]
<1>4. /\ GoodForm(post) /\ picker \in Pickers /\ FitsIn(picker) /\ crossed \in 0..MaxCrossings
      /\ batches = [c \in Slots |-> batches[c]] /\ \A c \in Slots : GoodBatch(batches[c], picker.existing)
      /\ \A r \in reads : GoodForm(r)
  BY DEF UpdateInv, StateInv
<1>5. x \in Batches /\ x.text = post.text /\ x.images = picker.images /\ x.existing = picker.existing
  <2>1. post.text \in UpdateTexts /\ picker.images \in Seq(Pictures) /\ picker.existing \in Seq(Pictures)
    BY <1>4 DEF GoodForm, UpdateForms, Pickers
  <2> QED BY <1>3, <2>1 DEF Batches
<1>6. /\ picker' \in Pickers /\ picker'.images = picker.images /\ picker'.existing = picker.existing
      /\ picker'.previews = picker.previews
  <2>1. picker.picks + 1 \in Nat
    BY <1>4 DEF Pickers
  <2> QED BY <1>2, <1>4, <2>1 DEF Pickers
<1>7. /\ batches' = [c \in Slots |-> batches'[c]] /\ batches'[b] = x
      /\ \A c \in Slots \ {b} : batches'[c] = batches[c]
  BY <1>1, <1>4
<1>8. crossed' \in 0..MaxCrossings /\ (crossed' = 0 => crossed = 0 /\ ~ Pending)
  BY <1>2, <1>4, Crosses
<1> HIDE DEF x
<1>9. GoodBatch(x, picker.existing)
  <2>1. Len(picker.existing) <= Len(x.existing)
    <3>1. Len(picker.existing) \in Nat
      BY <1>4, LenProperties DEF Pickers
    <3> QED BY <1>5, <3>1
  <2> QED BY <1>4, <1>5, <2>1 DEF GoodBatch, GoodForm
<1>10. StateInv'
  BY <1>2, <1>4, <1>6, <1>7, <1>8, <1>9 DEF StateInv, FitsIn
<1>11. QuietInv'
  <2> SUFFICES ASSUME crossed' = 0 PROVE Quiet(picker', post, batches', reads, entered)
    BY <1>2 DEF QuietInv
  <2>1. Quiet(picker, post, batches, reads, entered)
    BY <1>8 DEF UpdateInv, QuietInv
  <2>2. reads = {} /\ \A c \in Slots : batches[c] = NoBatch
    BY <1>8, NothingPending
  <2>3. AsPicked(x, picker', entered)
    BY <1>5, <1>6, <2>1 DEF Quiet, AsPicked
  <2> QED BY <1>6, <1>7, <2>1, <2>2, <2>3 DEF Quiet, OneAtATime
<1>12. PublishedAsShown'
  BY <1>2 DEF UpdateInv, PublishedAsShown
<1> QED BY <1>10, <1>11, <1>12 DEF UpdateInv

LEMMA StageOfBatch ==
    ASSUME NEW x, NEW e, GoodBatch(x, e), x.stage # "none"
    PROVE  x \in Batches /\ x # NoBatch /\ ShortText(x.text) /\ Len(e) <= Len(x.existing)
<1>1. NoBatch.stage = "none"
  BY DEF NoBatch
<1> QED BY <1>1 DEF GoodBatch

LEMMA ChecksTypes == ASSUME UpdateInv, NEW b \in Slots, TypesChecked(b) PROVE UpdateInv'
<1>1. /\ batches[b].stage = "checking" /\ post' = post /\ reads' = reads
      /\ published' = published /\ entered' = entered /\ crossed' = crossed
  BY DEF TypesChecked
<1>2. /\ GoodForm(post) /\ picker \in Pickers /\ FitsIn(picker) /\ crossed \in 0..MaxCrossings
      /\ batches = [c \in Slots |-> batches[c]] /\ \A c \in Slots : GoodBatch(batches[c], picker.existing)
      /\ \A r \in reads : GoodForm(r)
  BY DEF UpdateInv, StateInv
<1>3. /\ batches[b] \in Batches /\ batches[b] # NoBatch /\ ShortText(batches[b].text)
      /\ Len(picker.existing) <= Len(batches[b].existing)
  BY <1>1, <1>2, StageOfBatch
<1>4. PublishedAsShown'
  BY <1>1 DEF UpdateInv, PublishedAsShown
<1>5. CASE batches' = [batches EXCEPT ![b] = NoBatch] /\ picker' = picker
  <2>1. /\ batches' = [c \in Slots |-> batches'[c]] /\ batches'[b] = NoBatch
        /\ \A c \in Slots \ {b} : batches'[c] = batches[c]
    BY <1>2, <1>5
  <2>2. StateInv'
    BY <1>1, <1>2, <1>5, <2>1 DEF StateInv, GoodBatch
  <2>3. QuietInv'
    BY <1>1, <1>5, <2>1 DEF UpdateInv, QuietInv, Quiet, OneAtATime
  <2> QED BY <1>4, <2>2, <2>3 DEF UpdateInv
<1>6. CASE /\ batches' = [batches EXCEPT ![b].stage = "compressing"]
           /\ picker' = [picker EXCEPT !.compressing = TRUE]
  <2> DEFINE x == [batches[b] EXCEPT !.stage = "compressing"]
  <2>1. /\ batches' = [c \in Slots |-> batches'[c]] /\ batches'[b] = x
        /\ \A c \in Slots \ {b} : batches'[c] = batches[c]
    BY <1>2, <1>6
  <2>2. /\ x \in Batches /\ x.text = batches[b].text /\ x.images = batches[b].images
        /\ x.existing = batches[b].existing
    BY <1>3 DEF Batches
  <2>3. /\ picker' \in Pickers /\ picker'.images = picker.images /\ picker'.existing = picker.existing
        /\ picker'.previews = picker.previews
    BY <1>2, <1>6 DEF Pickers
  <2> HIDE DEF x
  <2>4. GoodBatch(x, picker.existing)
    BY <1>3, <2>2 DEF GoodBatch
  <2>5. StateInv'
    BY <1>1, <1>2, <2>1, <2>3, <2>4 DEF StateInv, FitsIn
  <2>6. QuietInv'
    <3> SUFFICES ASSUME crossed = 0 PROVE Quiet(picker', post, batches', reads, entered)
      BY <1>1 DEF QuietInv
    <3>1. Quiet(picker, post, batches, reads, entered)
      BY DEF UpdateInv, QuietInv
    <3>2. /\ reads = {} /\ \A c \in Slots \ {b} : batches[c] = NoBatch
          /\ AsPicked(batches[b], picker, entered)
      BY <1>3, <3>1 DEF Quiet, OneAtATime
    <3>3. AsPicked(x, picker', entered)
      BY <2>2, <2>3, <3>2 DEF AsPicked
    <3> QED BY <2>1, <2>3, <3>1, <3>2, <3>3 DEF Quiet, OneAtATime
  <2> QED BY <1>4, <2>5, <2>6 DEF UpdateInv
<1> QED BY <1>5, <1>6 DEF TypesChecked

LEMMA Compresses == ASSUME UpdateAssumption, UpdateInv, NEW b \in Slots, Compressed(b) PROVE UpdateInv'
<1> DEFINE at == batches[b]
<1>1. /\ at.stage = "compressing" /\ batches' = [batches EXCEPT ![b] = NoBatch]
      /\ post' = post /\ published' = published /\ entered' = entered /\ crossed' = crossed
  BY DEF Compressed
<1>2. /\ GoodForm(post) /\ picker \in Pickers /\ FitsIn(picker) /\ crossed \in 0..MaxCrossings
      /\ batches = [c \in Slots |-> batches[c]] /\ \A c \in Slots : GoodBatch(batches[c], picker.existing)
      /\ \A r \in reads : GoodForm(r)
  BY DEF UpdateInv, StateInv
<1>3. /\ at \in Batches /\ at # NoBatch /\ ShortText(at.text)
      /\ Len(picker.existing) <= Len(at.existing)
  BY <1>1, <1>2, StageOfBatch
<1>4. PublishedAsShown'
  BY <1>1 DEF UpdateInv, PublishedAsShown
<1>5. /\ batches' = [c \in Slots |-> batches'[c]] /\ batches'[b] = NoBatch
      /\ \A c \in Slots \ {b} : batches'[c] = batches[c]
  BY <1>1, <1>2
<1>6. PICK valid \in CompressImages(at.files) :
          \/ /\ WithinLimit(at.images \o valid, at.existing)
             /\ picker' = [picker EXCEPT !.images = at.images \o valid,
                               !.previews = at.existing \o (at.images \o valid), !.compressing = FALSE]
             /\ reads' = reads \cup {Read(at.text, at.images \o valid, at.existing)}
          \/ picker' = [picker EXCEPT !.compressing = FALSE] /\ reads' = reads
  <2>1. PICK valid \in CompressImages(at.files) :
            IF valid # <<>> /\ WithinLimit(at.images \o valid, at.existing)
            THEN /\ picker' = [picker EXCEPT !.images = at.images \o valid,
                                   !.previews = at.existing \o (at.images \o valid), !.compressing = FALSE]
                 /\ reads' = reads \cup {Read(at.text, at.images \o valid, at.existing)}
            ELSE picker' = [picker EXCEPT !.compressing = FALSE] /\ reads' = reads
    BY DEF Compressed
  <2> QED BY <2>1
<1>7. valid \in Seq(Pictures) /\ at.images \in Seq(Pictures) /\ at.existing \in Seq(Pictures)
      /\ at.text \in UpdateTexts
  BY <1>3, Kept DEF Batches
<1>8. CASE picker' = [picker EXCEPT !.compressing = FALSE] /\ reads' = reads
  <2>3. /\ picker' \in Pickers /\ picker'.images = picker.images /\ picker'.existing = picker.existing
        /\ picker'.previews = picker.previews
    BY <1>2, <1>8 DEF Pickers
  <2>5. StateInv'
    BY <1>1, <1>2, <1>5, <1>8, <2>3 DEF StateInv, FitsIn, GoodBatch
  <2>6. QuietInv'
    BY <1>1, <1>5, <1>8, <2>3 DEF UpdateInv, QuietInv, Quiet, OneAtATime, AsPicked
  <2> QED BY <1>4, <2>5, <2>6 DEF UpdateInv
<1>9. CASE /\ WithinLimit(at.images \o valid, at.existing)
           /\ picker' = [picker EXCEPT !.images = at.images \o valid,
                             !.previews = at.existing \o (at.images \o valid), !.compressing = FALSE]
           /\ reads' = reads \cup {Read(at.text, at.images \o valid, at.existing)}
  <2> DEFINE new == at.images \o valid
             r == Read(at.text, new, at.existing)
  <2>1. new \in Seq(Pictures)
    BY <1>7, ConcatProperties
  <2>2. Len(new) + Len(at.existing) <= MaxPictures
    BY <1>9 DEF WithinLimit
  <2>3. at.existing \o new \in Seq(Pictures)
    <3> HIDE DEF new
    <3> QED BY <1>7, <2>1, ConcatProperties
  <2>4. reads' = reads \cup {r}
    BY <1>9
  <2> HIDE DEF new
  <2>5. /\ picker' \in Pickers /\ picker'.images = new /\ picker'.existing = picker.existing
        /\ picker'.previews = at.existing \o new
    BY <1>2, <1>9, <2>1, <2>3 DEF Pickers, new
  <2>6. Len(new) \in Nat /\ Len(at.existing) \in Nat /\ Len(picker.existing) \in Nat /\ MaxPictures \in Nat
    BY <1>2, <1>7, <2>1, UpdateTypes, LenProperties DEF Pickers
  <2>7. FitsIn(picker')
    BY <1>3, <2>2, <2>5, <2>6 DEF FitsIn
  <2>8. r \in UpdateForms /\ r.text = at.text /\ r.images = new /\ r.existing = at.existing
    BY <1>7, <2>1 DEF Read, UpdateForms
  <2> HIDE DEF r
  <2>9. GoodForm(r)
    BY <1>3, <2>2, <2>8 DEF GoodForm, FitsIn
  <2>10. StateInv'
    BY <1>1, <1>2, <1>5, <2>4, <2>5, <2>7, <2>9 DEF StateInv, GoodBatch
  <2>11. QuietInv'
    <3> SUFFICES ASSUME crossed = 0 PROVE Quiet(picker', post, batches', reads', entered)
      BY <1>1 DEF QuietInv
    <3>1. Quiet(picker, post, batches, reads, entered)
      BY DEF UpdateInv, QuietInv
    <3>2. /\ reads = {} /\ \A c \in Slots \ {b} : batches[c] = NoBatch
          /\ AsPicked(at, picker, entered)
      BY <1>3, <3>1 DEF Quiet, OneAtATime
    <3>3. reads' = {r}
      BY <2>4, <3>2
    <3>4. AsPicked(r, picker', entered)
      BY <2>5, <2>8, <3>2 DEF AsPicked
    <3>5. picker'.previews = picker'.existing \o picker'.images
      BY <2>5, <3>2 DEF AsPicked
    <3>6. OneAtATime(batches', reads', picker', entered)
      BY <1>5, <3>2, <3>3, <3>4 DEF OneAtATime
    <3>7. post.text = entered /\ reads' # {}
      BY <3>1, <3>3 DEF Quiet
    <3> QED BY <3>5, <3>6, <3>7 DEF Quiet
  <2> QED BY <1>4, <2>10, <2>11 DEF UpdateInv
<1> QED BY <1>6, <1>8, <1>9

LEMMA ReadsDone == ASSUME UpdateInv, ReadDone PROVE UpdateInv'
<1>1. PICK r \in reads : post' = r /\ reads' = reads \ {r}
  BY DEF ReadDone, OnImagesUpdate
<1>2. /\ picker' = picker /\ batches' = batches /\ published' = published /\ entered' = entered
      /\ crossed' = crossed
  BY DEF ReadDone
<1>3. StateInv'
  <2>1. GoodForm(post') /\ (\A x \in reads' : GoodForm(x)) /\ crossed' \in 0..MaxCrossings
    BY <1>1, <1>2 DEF UpdateInv, StateInv
  <2> QED BY <1>2, <2>1, PickerStays DEF UpdateInv
<1>4. QuietInv'
  <2> SUFFICES ASSUME crossed = 0 PROVE Quiet(picker, r, batches, reads', entered)
    BY <1>1, <1>2 DEF QuietInv
  <2>1. Quiet(picker, post, batches, reads, entered)
    BY DEF UpdateInv, QuietInv
  <2>2. AsPicked(r, picker, entered) /\ \A b \in Slots : batches[b] = NoBatch
    BY <2>1 DEF Quiet, OneAtATime
  <2> QED BY <1>1, <2>1, <2>2 DEF Quiet, OneAtATime, AsPicked
<1>5. PublishedAsShown'
  BY <1>2 DEF UpdateInv, PublishedAsShown
<1> QED BY <1>3, <1>4, <1>5 DEF UpdateInv

-----------------------------------------------------------------------------
(* Removals, and the submission.                                             *)

\* One picture of the previews is taken away, and the posted images get no more.
LEMMA RemovesExisting ==
    ASSUME UpdateAssumption, UpdateInv, OnPage, NEW i \in 1..Len(picker.previews), RemoveExisting(i),
           UNCHANGED <<batches, published, entered>>
    PROVE  UpdateInv'
<1> DEFINE kept == RemoveAt(picker.existing, i)
           p == Read(post.text, <<>>, kept)
<1>1. /\ i <= Len(picker.existing)
      /\ picker' = [picker EXCEPT !.existing = kept, !.previews = RemoveAt(@, i)]
      /\ post' = p /\ Cross(Pending \/ picker.images # <<>>) /\ reads' = reads
      /\ batches' = batches /\ published' = published /\ entered' = entered
  BY DEF RemoveExisting, OnImagesUpdate
<1>2. /\ GoodForm(post) /\ picker \in Pickers /\ FitsIn(picker) /\ crossed \in 0..MaxCrossings
      /\ batches = [c \in Slots |-> batches[c]] /\ \A c \in Slots : GoodBatch(batches[c], picker.existing)
      /\ \A r \in reads : GoodForm(r)
  BY DEF UpdateInv, StateInv
<1>3. /\ picker.existing \in Seq(Pictures) /\ picker.previews \in Seq(Pictures)
      /\ picker.images \in Seq(Pictures) /\ Len(picker.existing) \in Nat /\ Len(picker.images) \in Nat
      /\ Len(picker.previews) \in Nat /\ post.text \in UpdateTexts
  BY <1>2, LenProperties DEF Pickers, GoodForm, UpdateForms
<1>4. i \in 1..Len(picker.existing)
  BY <1>1, <1>3
<1>5. kept \in Seq(Pictures) /\ Len(kept) = Len(picker.existing) - 1
      /\ RemoveAt(picker.previews, i) \in Seq(Pictures)
  BY <1>3, <1>4, RemoveAtSeq
<1> HIDE DEF kept
<1>6. /\ picker' \in Pickers /\ picker'.images = picker.images /\ picker'.existing = kept
      /\ picker'.previews = RemoveAt(picker.previews, i)
  BY <1>1, <1>2, <1>5 DEF Pickers
<1>7. p \in UpdateForms /\ p.text = post.text /\ p.images = <<>> /\ p.existing = kept
  BY <1>3, <1>5, EmptySeq DEF UpdateForms, Read
<1> HIDE DEF p
<1>8. GoodForm(p) /\ FitsIn(picker') /\ Len(kept) <= Len(picker.existing)
  <2>1. MaxPictures \in Nat /\ Len(picker.images) + Len(picker.existing) <= MaxPictures /\ Len(p.images) = 0
    BY <1>2, <1>7, UpdateTypes, EmptySeq DEF FitsIn
  <2>2. /\ 0 + Len(kept) <= MaxPictures /\ Len(picker.images) + Len(kept) <= MaxPictures
        /\ Len(kept) <= Len(picker.existing)
    <3>1. Len(kept) \in Nat
      BY <1>5, LenProperties
    <3>2. Len(kept) <= Len(picker.existing)
      BY <1>3, <1>5
    <3>3. Len(picker.images) + Len(kept) <= MaxPictures /\ Len(picker.existing) <= MaxPictures
      BY <1>3, <2>1, <3>1, <3>2, Lower
    <3> QED BY <1>3, <2>1, <3>1, <3>2, <3>3
  <2>3. FitsIn(p)
    BY <1>7, <2>1, <2>2 DEF FitsIn
  <2>4. FitsIn(picker')
    BY <1>6, <2>2 DEF FitsIn
  <2> QED BY <1>2, <1>7, <2>2, <2>3, <2>4 DEF GoodForm
<1>9. crossed' \in 0..MaxCrossings /\ (crossed' = 0 => crossed = 0 /\ ~ Pending /\ picker.images = <<>>)
  BY <1>1, <1>2, Crosses
<1>10. StateInv'
  <2>1. \A c \in Slots : GoodBatch(batches[c], kept)
    <3>1. \A x \in Batches : Len(picker.existing) <= Len(x.existing) => Len(kept) <= Len(x.existing)
      <4>1. \A x \in Batches : Len(x.existing) \in Nat
        BY LenProperties DEF Batches
      <4>2. Len(kept) \in Int
        BY <1>3, <1>5
      <4> QED BY <1>3, <1>8, <4>1, <4>2
    <3> QED BY <1>2, <3>1 DEF GoodBatch
  <2> QED BY <1>1, <1>2, <1>6, <1>8, <1>9, <2>1 DEF StateInv
<1>11. QuietInv'
  <2> SUFFICES ASSUME crossed' = 0 PROVE Quiet(picker', p, batches, reads, entered)
    BY <1>1 DEF QuietInv
  <2>1. Quiet(picker, post, batches, reads, entered)
    BY <1>9 DEF UpdateInv, QuietInv
  <2>2. reads = {} /\ \A c \in Slots : batches[c] = NoBatch
    BY <1>9, NothingPending
  <2>3. picker.previews = picker.existing
    BY <1>3, <1>9, <2>1, ConcatEmptySeq DEF Quiet
  <2>4. picker'.previews = picker'.existing \o picker'.images
    <3>1. kept \o <<>> = kept
      BY <1>5, ConcatEmptySeq
    <3> QED BY <1>6, <1>9, <2>3, <3>1 DEF kept
  <2> QED BY <1>6, <1>7, <1>9, <2>1, <2>2, <2>4 DEF Quiet, OneAtATime
<1>12. PublishedAsShown'
  BY <1>1 DEF UpdateInv, PublishedAsShown
<1> QED BY <1>10, <1>11, <1>12 DEF UpdateInv

LEMMA RemovesNew ==
    ASSUME UpdateAssumption, UpdateInv, OnPage, NEW i \in 1..Len(picker.previews), RemoveNew(i),
           UNCHANGED <<batches, published, entered>>
    PROVE  UpdateInv'
<1> DEFINE n == i - Len(picker.existing)
           kept == IF n \in 1..Len(picker.images) THEN RemoveAt(picker.images, n) ELSE picker.images
           r == Read(post.text, kept, picker.existing)
<1>1. /\ i > Len(picker.existing)
      /\ picker' = [picker EXCEPT !.images = kept, !.previews = RemoveAt(@, i)]
      /\ post' = post /\ Cross(Pending) /\ reads' = reads \cup {r}
      /\ batches' = batches /\ published' = published /\ entered' = entered
  BY DEF RemoveNew, Crossing
<1>2. /\ GoodForm(post) /\ picker \in Pickers /\ FitsIn(picker) /\ crossed \in 0..MaxCrossings
      /\ batches = [c \in Slots |-> batches[c]] /\ \A c \in Slots : GoodBatch(batches[c], picker.existing)
      /\ \A x \in reads : GoodForm(x)
  BY DEF UpdateInv, StateInv
<1>3. /\ picker.existing \in Seq(Pictures) /\ picker.previews \in Seq(Pictures)
      /\ picker.images \in Seq(Pictures) /\ Len(picker.existing) \in Nat /\ Len(picker.images) \in Nat
      /\ Len(picker.previews) \in Nat /\ post.text \in UpdateTexts
  BY <1>2, LenProperties DEF Pickers, GoodForm, UpdateForms
<1>5. /\ kept \in Seq(Pictures) /\ Len(kept) <= Len(picker.images)
      /\ RemoveAt(picker.previews, i) \in Seq(Pictures)
  <2>1. RemoveAt(picker.previews, i) \in Seq(Pictures)
    BY <1>3, RemoveAtSeq
  <2>2. CASE n \in 1..Len(picker.images)
    <3> HIDE DEF n
    <3>1. RemoveAt(picker.images, n) \in Seq(Pictures) /\ Len(RemoveAt(picker.images, n)) = Len(picker.images) - 1
      BY <1>3, <2>2, RemoveAtSeq
    <3>2. kept = RemoveAt(picker.images, n)
      BY <2>2
    <3> HIDE DEF kept
    <3> QED BY <1>3, <2>1, <3>1, <3>2
  <2>3. CASE n \notin 1..Len(picker.images)
    <3>1. kept = picker.images
      BY <2>3
    <3> HIDE DEF kept
    <3> QED BY <1>3, <2>1, <3>1
  <2> QED BY <2>2, <2>3
<1>4. crossed' \in 0..MaxCrossings /\ (crossed' = 0 => crossed = 0 /\ ~ Pending)
  BY <1>1, <1>2, Crosses
<1>6. crossed' = 0 => RemoveAt(picker.previews, i) = picker.existing \o kept
  <2> SUFFICES ASSUME crossed' = 0 PROVE RemoveAt(picker.previews, i) = picker.existing \o kept
    OBVIOUS
  <2>1. picker.previews = picker.existing \o picker.images
    BY <1>4 DEF UpdateInv, QuietInv, Quiet
  <2>2. i \in 1..Len(picker.existing \o picker.images)
    BY <2>1
  <2>3. /\ n \in 1..Len(picker.images)
        /\ RemoveAt(picker.existing \o picker.images, i) = picker.existing \o RemoveAt(picker.images, n)
    BY <1>1, <1>3, <2>2, RemoveFromConcat
  <2> QED BY <2>1, <2>3
<1> HIDE DEF kept, n
<1>7. /\ picker' \in Pickers /\ picker'.images = kept /\ picker'.existing = picker.existing
      /\ picker'.previews = RemoveAt(picker.previews, i)
  BY <1>1, <1>2, <1>5 DEF Pickers
<1>8. r \in UpdateForms /\ r.text = post.text /\ r.images = kept /\ r.existing = picker.existing
  BY <1>3, <1>5 DEF UpdateForms, Read
<1> HIDE DEF r
<1>9. GoodForm(r) /\ FitsIn(picker')
  <2>1. /\ MaxPictures \in Nat /\ Len(picker.images) + Len(picker.existing) <= MaxPictures
        /\ Len(kept) \in Nat
    BY <1>2, <1>5, UpdateTypes, LenProperties DEF FitsIn
  <2>2. Len(kept) + Len(picker.existing) <= MaxPictures
    BY <1>3, <1>5, <2>1, Lower
  <2>3. FitsIn(r)
    BY <1>8, <2>2 DEF FitsIn
  <2>4. FitsIn(picker')
    BY <1>7, <2>2 DEF FitsIn
  <2> QED BY <1>2, <1>8, <2>3, <2>4 DEF GoodForm
<1>10. StateInv'
  BY <1>1, <1>2, <1>4, <1>7, <1>9 DEF StateInv
<1>11. QuietInv'
  <2> SUFFICES ASSUME crossed' = 0 PROVE Quiet(picker', post, batches, reads', entered)
    BY <1>1 DEF QuietInv
  <2>1. Quiet(picker, post, batches, reads, entered)
    BY <1>4 DEF UpdateInv, QuietInv
  <2>2. reads = {} /\ \A c \in Slots : batches[c] = NoBatch
    BY <1>4, NothingPending
  <2>3. reads' = {r}
    BY <1>1, <2>2
  <2>4. AsPicked(r, picker', entered) /\ post.text = entered
    BY <1>7, <1>8, <2>1 DEF Quiet, AsPicked
  <2>5. OneAtATime(batches, reads', picker', entered)
    BY <2>2, <2>3, <2>4 DEF OneAtATime
  <2> QED BY <1>6, <1>7, <2>3, <2>4, <2>5 DEF Quiet
<1>12. PublishedAsShown'
  BY <1>1 DEF UpdateInv, PublishedAsShown
<1> QED BY <1>10, <1>11, <1>12 DEF UpdateInv

LEMMA RemovesAll == ASSUME UpdateAssumption, UpdateInv, HandleRemoveAll PROVE UpdateInv'
<1> DEFINE p == Read(post.text, <<>>, <<>>)
<1>1. /\ OnPage /\ picker' = [picker EXCEPT !.images = <<>>, !.existing = <<>>, !.previews = <<>>]
      /\ post' = p /\ Cross(Pending) /\ reads' = reads
      /\ batches' = batches /\ published' = published /\ entered' = entered
  BY DEF HandleRemoveAll, OnImagesUpdate, Crossing
<1>2. /\ GoodForm(post) /\ picker \in Pickers /\ FitsIn(picker) /\ crossed \in 0..MaxCrossings
      /\ batches = [c \in Slots |-> batches[c]] /\ \A c \in Slots : GoodBatch(batches[c], picker.existing)
      /\ \A r \in reads : GoodForm(r)
  BY DEF UpdateInv, StateInv
<1>3. post.text \in UpdateTexts /\ <<>> \in Seq(Pictures) /\ Len(<<>>) = 0 /\ MaxPictures \in Nat
  BY <1>2, UpdateTypes, EmptySeq DEF GoodForm, UpdateForms
<1>4. /\ picker' \in Pickers /\ picker'.images = <<>> /\ picker'.existing = <<>> /\ picker'.previews = <<>>
  BY <1>1, <1>2, <1>3 DEF Pickers
<1>5. p \in UpdateForms /\ p.text = post.text /\ p.images = <<>> /\ p.existing = <<>>
  BY <1>3 DEF UpdateForms, Read
<1> HIDE DEF p
<1>6. GoodForm(p) /\ FitsIn(picker')
  BY <1>2, <1>3, <1>4, <1>5 DEF GoodForm, FitsIn
<1>7. crossed' \in 0..MaxCrossings /\ (crossed' = 0 => crossed = 0 /\ ~ Pending)
  BY <1>1, <1>2, Crosses
<1>8. StateInv'
  <2>1. \A c \in Slots : GoodBatch(batches[c], <<>>)
    <3>1. \A x \in Batches : Len(<<>>) <= Len(x.existing)
      <4>1. \A x \in Batches : Len(x.existing) \in Nat
        BY LenProperties DEF Batches
      <4> QED BY <1>3, <4>1
    <3> QED BY <1>2, <3>1 DEF GoodBatch
  <2> QED BY <1>1, <1>2, <1>4, <1>6, <1>7, <2>1 DEF StateInv
<1>9. QuietInv'
  <2> SUFFICES ASSUME crossed' = 0 PROVE Quiet(picker', p, batches, reads, entered)
    BY <1>1 DEF QuietInv
  <2>1. Quiet(picker, post, batches, reads, entered)
    BY <1>7 DEF UpdateInv, QuietInv
  <2>2. reads = {} /\ \A c \in Slots : batches[c] = NoBatch
    BY <1>7, NothingPending
  <2>3. picker'.previews = picker'.existing \o picker'.images
    BY <1>3, <1>4, ConcatEmptySeq
  <2> QED BY <1>4, <1>5, <2>1, <2>2, <2>3 DEF Quiet, OneAtATime
<1>10. PublishedAsShown'
  BY <1>1 DEF UpdateInv, PublishedAsShown
<1> QED BY <1>8, <1>9, <1>10 DEF UpdateInv

LEMMA ShownUnlessCrossed == ASSUME UpdateInv PROVE FormIsShown
BY DEF UpdateInv, QuietInv, Quiet, FormIsShown, Pending

LEMMA SplitsWhereJoined ==
    ASSUME NEW S, NEW e \in Seq(S), NEW m \in Seq(S)
    PROVE  /\ SubSeq(e \o m, 1, Len(e)) = e
           /\ SubSeq(e \o m, Len(e) + 1, Len(e \o m)) = m
<1> DEFINE j == e \o m
           k == Len(e)
           n == Len(m)
           x == SubSeq(j, 1, k)
           y == SubSeq(j, k + 1, k + n)
<1>1. k \in Nat /\ n \in Nat /\ \A i \in 1..k : e[i] \in S
  BY LenProperties, ElementOfSeq
<1>2. \A i \in 1..n : m[i] \in S
  BY LenProperties, ElementOfSeq
<1>3. /\ j \in Seq(S) /\ Len(j) = k + n
      /\ \A i \in 1..(k + n) : j[i] = IF i <= k THEN e[i] ELSE m[i - k]
  BY ConcatProperties
<1> HIDE DEF j, k, n
<1>4. \A i \in 1..(k + n) : j[i] \in S
  BY <1>3, ElementOfSeq
<1>5. x = e
  <2>1. \A i \in 1..k : j[i] \in S
    BY <1>1, <1>4
  <2>2. x \in Seq(S) /\ Len(x) = (IF 1 <= k THEN k - 1 + 1 ELSE 0)
        /\ \A i \in 1..(k - 1 + 1) : x[i] = j[1 + i - 1]
    BY <1>1, <2>1, SubSeqProperties
  <2> HIDE DEF x
  <2>3. Len(x) = k /\ \A i \in 1..k : x[i] = e[i]
    BY <1>1, <1>3, <2>2
  <2> QED BY <2>2, <2>3, SeqEqual DEF k
<1>6. y = m
  <2>1. \A i \in (k + 1)..(k + n) : j[i] \in S
    BY <1>1, <1>4
  <2>2. y \in Seq(S) /\ Len(y) = (IF k + 1 <= k + n THEN (k + n) - (k + 1) + 1 ELSE 0)
        /\ \A i \in 1..((k + n) - (k + 1) + 1) : y[i] = j[(k + 1) + i - 1]
    BY <1>1, <2>1, SubSeqProperties
  <2> HIDE DEF y
  <2>3. Len(y) = n /\ \A i \in 1..n : y[i] = m[i]
    BY <1>1, <1>3, <2>2
  <2> QED BY <2>2, <2>3, SeqEqual DEF n
<1>7. k + n = Len(j)
  BY <1>3
<1> QED BY <1>5, <1>6, <1>7 DEF j, k

LEMMA Submits == ASSUME UpdateInv, SubmitUpdate PROVE UpdateInv'
<1> DEFINE quiet == crossed = 0 /\ ~ Pending
<1>1. PICK cids \in ImageCids(post) :
          published' = [images |-> cids, text |-> post.text, entered |-> entered,
                        shown |-> picker.previews, posted |-> Len(picker.existing), clean |-> quiet]
  BY DEF SubmitUpdate
<1>2. UNCHANGED <<post, picker, batches, reads, entered, crossed>>
  BY DEF SubmitUpdate
<1>3. /\ published'.images = cids /\ published'.text = post.text
      /\ published'.shown = picker.previews /\ published'.entered = entered
      /\ published'.posted = Len(picker.existing)
  BY <1>1
<1>4. published'.clean = quiet
  <2> HIDE DEF quiet
  <2> QED BY <1>1
<1>5. PICK new \in InSomeOrder(post.images) : cids = post.existing \o new
  BY DEF ImageCids
<1>6. quiet => /\ post.text = entered /\ picker.previews = picker.existing \o picker.images
               /\ post.images = picker.images /\ post.existing = picker.existing
  BY DEF UpdateInv, QuietInv, Quiet, Pending
<1>7. picker.existing \in Seq(Pictures) /\ picker.images \in Seq(Pictures)
  BY DEF UpdateInv, StateInv, Pickers
<1>8. PublishedAsShown'
  <2> DEFINE posted == SubSeq(published'.shown, 1, published'.posted)
             behind == SubSeq(published'.shown, published'.posted + 1, Len(published'.shown))
  <2> HIDE DEF quiet
  <2> SUFFICES ASSUME quiet
               PROVE  /\ published'.text = published'.entered
                      /\ \E order \in InSomeOrder(behind) : published'.images = posted \o order
    <3> HIDE DEF posted, behind
    <3>1. published'.clean => /\ published'.text = published'.entered
                              /\ \E order \in InSomeOrder(behind) : published'.images = posted \o order
      BY <1>4
    <3> QED BY <3>1 DEF PublishedAsShown, posted, behind
  <2>1. posted = picker.existing /\ behind = picker.images
    <3>1. /\ published'.shown = picker.existing \o picker.images
          /\ published'.posted = Len(picker.existing)
      BY <1>3, <1>6
    <3>2. /\ posted = SubSeq(picker.existing \o picker.images, 1, Len(picker.existing))
          /\ behind = SubSeq(picker.existing \o picker.images, Len(picker.existing) + 1,
                             Len(picker.existing \o picker.images))
      BY <3>1, Zenon
    <3> HIDE DEF posted, behind
    <3>3. /\ SubSeq(picker.existing \o picker.images, 1, Len(picker.existing)) = picker.existing
          /\ SubSeq(picker.existing \o picker.images, Len(picker.existing) + 1,
                    Len(picker.existing \o picker.images)) = picker.images
      BY <1>7, SplitsWhereJoined, Zenon
    <3> QED BY <3>2, <3>3
  <2> HIDE DEF posted, behind
  <2>2. new \in InSomeOrder(behind) /\ published'.images = posted \o new
    BY <1>3, <1>5, <1>6, <2>1
  <2> QED BY <1>3, <1>6, <2>2
<1>9. StateInv' /\ QuietInv'
  BY <1>2 DEF UpdateInv, StateInv, QuietInv, Quiet, OneAtATime, AsPicked, GoodForm, GoodBatch, FitsIn, ShortText
<1> QED BY <1>8, <1>9 DEF UpdateInv

LEMMA UpdateBegins == ASSUME UpdateAssumption, UpdateInit PROVE UpdateInv
<1>1. PICK old \in {<<>>, OldPictures} :
          /\ post = [text |-> NoText, images |-> <<>>, existing |-> old]
          /\ picker = [images |-> <<>>, existing |-> old, previews |-> old,
                       compressing |-> FALSE, picks |-> 0]
  BY DEF UpdateInit
<1>2. /\ batches = [b \in Slots |-> NoBatch] /\ reads = {} /\ published = NoUpdate
      /\ entered = NoText /\ crossed = 0
  BY DEF UpdateInit
<1>3. <<>> \in Seq(Pictures) /\ Len(<<>>) = 0
  BY EmptySeq
<1>4. old \in Seq(Pictures) /\ Len(old) <= MaxPictures /\ Len(old) \in Nat
  <2>1. 0 <= MaxPictures
    BY UpdateTypes
  <2>2. OldPictures \in Seq(Pictures) /\ Len(OldPictures) <= MaxPictures
    BY DEF UpdateAssumption
  <2>3. <<>> \in Seq(Pictures) /\ Len(<<>>) <= MaxPictures
    BY <1>3, <2>1
  <2>4. old \in Seq(Pictures) /\ Len(old) <= MaxPictures
    BY <2>2, <2>3
  <2> QED BY <2>4, LenProperties
<1>5. NoText \in UpdateTexts /\ ShortText(NoText)
  BY UpdateTypes, FS_EmptySet DEF NoText, UpdateTexts, ShortText
<1>6. /\ post \in UpdateForms /\ post.text = NoText /\ post.images = <<>> /\ post.existing = old
  BY <1>1, <1>3, <1>4, <1>5 DEF UpdateForms
<1>7. picker \in Pickers /\ picker.images = <<>> /\ picker.existing = old /\ picker.previews = old
  BY <1>1, <1>3, <1>4 DEF Pickers
<1>8. FitsIn(post) /\ FitsIn(picker)
  BY <1>3, <1>4, <1>6, <1>7 DEF FitsIn
<1>9. StateInv
  BY <1>2, <1>5, <1>6, <1>7, <1>8, UpdateTypes DEF StateInv, GoodForm, GoodBatch
<1>10. QuietInv
  <2>1. old \o <<>> = old
    BY <1>4, ConcatEmptySeq
  <2> QED BY <1>2, <1>6, <1>7, <2>1 DEF QuietInv, Quiet, OneAtATime
<1>11. PublishedAsShown
  BY <1>2 DEF PublishedAsShown
<1> QED BY <1>9, <1>10, <1>11 DEF UpdateInv

\* The inductive invariant of the form: while nothing was crossed, one batch or one
\* read at a time, and it is of what the picker shows.
THEOREM UpdateAlways == UpdateSpec => []UpdateInv
<1> USE UpdateAssumption
<1>1. UpdateInit => UpdateInv
  BY UpdateBegins
<1>2. UpdateInv /\ [UpdateNext]_updateVars => UpdateInv'
  <2> SUFFICES ASSUME UpdateInv, [UpdateNext]_updateVars PROVE UpdateInv'
    OBVIOUS
  <2>1. CASE TypeText \/ AddHashes \/ RemoveHash
    BY <2>1, TextSteps
  <2>2. CASE PickImages
    BY <2>2, PicksImages
  <2>3. ASSUME NEW b \in Slots, TypesChecked(b) \/ Compressed(b) PROVE UpdateInv'
    BY <2>3, ChecksTypes, Compresses
  <2>4. CASE ReadDone
    BY <2>4, ReadsDone
  <2>5. CASE HandleRemoveImage
    <3>1. PICK i \in 1..Len(picker.previews) : RemoveExisting(i) \/ RemoveNew(i)
      BY <2>5 DEF HandleRemoveImage
    <3>2. OnPage /\ UNCHANGED <<batches, published, entered>>
      BY <2>5 DEF HandleRemoveImage
    <3> QED BY <3>1, <3>2, RemovesExisting, RemovesNew
  <2>6. CASE HandleRemoveAll
    BY <2>6, RemovesAll
  <2>7. CASE SubmitUpdate
    BY <2>7, Submits
  <2>8. CASE UNCHANGED updateVars
    BY <2>8 DEF updateVars, UpdateInv, StateInv, QuietInv, Quiet, OneAtATime, AsPicked, GoodForm,
                GoodBatch, FitsIn, ShortText, PublishedAsShown
  <2> QED BY <2>5, <2>1, <2>2, <2>3, <2>4, <2>6, <2>7, <2>8 DEF UpdateNext
<1> QED BY <1>1, <1>2, PTL DEF UpdateSpec

LEMMA ShortSeqs ==
    ASSUME UpdateAssumption, NEW s \in Seq(Pictures), Len(s) <= MaxPictures
    PROVE  s \in PictureSeqs
<1>1. s \in [1..Len(s) -> Pictures] /\ Len(s) \in Nat
  BY LenProperties
<1>2. Len(s) \in 0..MaxPictures
  BY <1>1, UpdateTypes
<1> QED BY <1>1, <1>2 DEF PictureSeqs

\* Types of the form, which never holds more images than the limit.
THEOREM UpdateTypeCorrect == UpdateSpec => []UpdateTypeOK
<1> USE UpdateAssumption
<1>1. UpdateInv => UpdateTypeOK
  <2> SUFFICES ASSUME UpdateInv PROVE UpdateTypeOK
    OBVIOUS
  <2>1. /\ post \in UpdateForms /\ ShortText(post.text) /\ FitsIn(post) /\ \A r \in reads : FitsIn(r)
        /\ picker \in Pickers /\ crossed \in 0..MaxCrossings
        /\ \A b \in Slots : GoodBatch(batches[b], picker.existing)
    BY DEF UpdateInv, StateInv, GoodForm
  <2>2. /\ post.images \in Seq(Pictures) /\ post.existing \in Seq(Pictures) /\ post.text \in UpdateTexts
        /\ picker.compressing \in BOOLEAN
    BY <2>1 DEF UpdateForms, Pickers
  <2>3. Len(post.images) + Len(post.existing) <= MaxPictures /\ MaxPictures \in Nat
    BY <2>1, UpdateTypes DEF FitsIn
  <2>4. Len(post.images) \in Nat /\ Len(post.existing) \in Nat
    BY <2>2, LenProperties
  <2>5. post.images \in PictureSeqs /\ post.existing \in PictureSeqs
    <3>1. Len(post.images) <= MaxPictures /\ Len(post.existing) <= MaxPictures
      BY <2>3, <2>4, Lower
    <3> QED BY <2>2, <3>1, ShortSeqs
  <2>6. \A b \in Slots : batches[b].stage \in {"none", "checking", "compressing"}
    <3>1. NoBatch.stage = "none" /\ \A x \in Batches : x.stage \in {"checking", "compressing"}
      BY DEF NoBatch, Batches
    <3> QED BY <2>1, <3>1 DEF GoodBatch
  <2>7. post.text.edits \in 0..MaxTyping /\ post.text.hashes \subseteq TxHashes
    BY <2>2 DEF UpdateTexts
  <2> QED BY <2>1, <2>2, <2>3, <2>5, <2>6, <2>7 DEF UpdateTypeOK, ShortText, FitsIn
<1> QED BY <1>1, UpdateAlways, PTL

\* The form keeps the text and the pictures on the screen, unless crossed.
THEOREM FormAlwaysShown == UpdateSpec => []FormIsShown
BY UpdateAlways, ShownUnlessCrossed, PTL

\* What is published is what the page showed at the click, unless crossed.
THEOREM AlwaysPublishedAsShown == UpdateSpec => []PublishedAsShown
<1>1. UpdateInv => PublishedAsShown
  BY DEF UpdateInv
<1> QED BY <1>1, UpdateAlways, PTL

-----------------------------------------------------------------------------
(* The feed of a campaign (CampaignFeed), for pages of any size.           *)

(* Places in an order: the elements of a finite set, each with those that    *)
(* are not after it.                                                         *)

LEMMA Placed ==
    ASSUME NEW S, IsFiniteSet(S), NEW U, \A r \in S : U[r] \subseteq S /\ r \in U[r],
           \A r, s \in S : r \in U[s] \/ s \in U[r],
           \A r, s \in S : r \in U[s] /\ s \in U[r] => r = s,
           \A r, s \in S : r \in U[s] => U[r] \subseteq U[s]
    PROVE  /\ Cardinality(S) \in Nat
           /\ \A r \in S : Cardinality(U[r]) \in 1..Cardinality(S)
           /\ \A r, s \in S : Cardinality(U[r]) <= Cardinality(U[s]) => r \in U[s]
           /\ \A i \in 1..Cardinality(S) : \E r \in S : Cardinality(U[r]) = i
<1>1. \A r \in S : IsFiniteSet(U[r]) /\ Cardinality(U[r]) \in Nat /\ Cardinality(U[r]) <= Cardinality(S)
  BY FS_Subset, FS_CardinalityType
<1>2. Cardinality(S) \in Nat
  BY FS_CardinalityType
<1>3. \A r \in S : Cardinality(U[r]) # 0
  BY <1>1, FS_EmptySet
<1>4. \A r \in S : Cardinality(U[r]) \in 1..Cardinality(S)
  BY <1>1, <1>2, <1>3
<1>5. \A r, s \in S : s \notin U[r] => Cardinality(U[r]) < Cardinality(U[s])
  <2> SUFFICES ASSUME NEW r \in S, NEW s \in S, s \notin U[r] PROVE Cardinality(U[r]) < Cardinality(U[s])
    OBVIOUS
  <2>1. U[r] \subseteq U[s] /\ U[r] # U[s]
    OBVIOUS
  <2>2. Cardinality(U[r]) <= Cardinality(U[s]) /\ (Cardinality(U[r]) = Cardinality(U[s]) => U[r] = U[s])
    BY <1>1, <2>1, FS_Subset
  <2> QED BY <1>1, <2>1, <2>2
<1>6. \A r, s \in S : Cardinality(U[r]) <= Cardinality(U[s]) => r \in U[s]
  BY <1>1, <1>5
<1> DEFINE n == Cardinality(S)
           f == [r \in S |-> Cardinality(U[r])]
<1>7. f \in Injection(S, 1..n)
  <2>1. f \in [S -> 1..n]
    BY <1>4
  <2>2. \A r, s \in S : Cardinality(U[r]) = Cardinality(U[s]) => r = s
    <3>1. \A r, s \in S : Cardinality(U[r]) = Cardinality(U[s]) => r \in U[s] /\ s \in U[r]
      BY <1>1, <1>6
    <3> QED BY <3>1
  <2>3. \A r, s \in S : f[r] = f[s] => r = s
    BY <2>2
  <2> HIDE DEF f
  <2> QED BY <2>1, <2>3 DEF Injection, IsInjective
<1>8. IsFiniteSet(1..n) /\ Cardinality(1..n) = n
  <2>1. 1 \in Int /\ n \in Int /\ n \in Nat
    BY <1>2
  <2>2. Cardinality(1..n) = IF 1 > n THEN 0 ELSE n - 1 + 1
    <3> HIDE DEF n
    <3> QED BY <2>1, FS_Interval
  <2>3. IsFiniteSet(1..n)
    <3> HIDE DEF n
    <3> QED BY <2>1, FS_Interval
  <2> HIDE DEF n
  <2> QED BY <2>1, <2>2, <2>3
<1>9. f \in Surjection(S, 1..n)
  <2> HIDE DEF f
  <2>1. Cardinality(S) = Cardinality(1..n) <=> f \in Surjection(S, 1..n)
    BY <1>7, <1>8, FS_Injection
  <2> QED BY <1>8, <2>1
<1>10. \A i \in 1..n : \E r \in S : f[r] = i
  <2> HIDE DEF f, n
  <2> QED BY <1>9 DEF Surjection
<1> QED BY <1>2, <1>4, <1>6, <1>10

LEMMA LeastNatural ==
    ASSUME NEW S \in SUBSET Nat, S # {}
    PROVE  Min(S) \in S /\ \A y \in S : Min(S) <= y
<1>1. \E x \in S : \A y \in S : x <= y
  <2> DEFINE K == {n \in Nat : \A m \in Nat : m <= n => m \notin S}
  <2> SUFFICES ASSUME ~ \E x \in S : \A y \in S : x <= y PROVE FALSE
    OBVIOUS
  <2>1. 0 \in K
    OBVIOUS
  <2>2. \A n \in Nat : n \in K => n + 1 \in K
    <3> SUFFICES ASSUME NEW n \in Nat, n \in K, NEW m \in Nat, m <= n + 1, m \in S PROVE FALSE
      OBVIOUS
    <3>1. m = n + 1
      OBVIOUS
    <3>2. \A y \in S : n + 1 <= y
      OBVIOUS
    <3> QED BY <3>1, <3>2
  <2>3. Nat \subseteq K
    <3> HIDE DEF K
    <3> QED BY <2>1, <2>2, NatSetInduction
  <2>4. PICK x \in S : TRUE
    OBVIOUS
  <2>5. x \in K /\ x <= x
    BY <2>3
  <2> QED BY <2>4, <2>5
<1> QED BY <1>1 DEF Min

-----------------------------------------------------------------------------
(* The table, and a page of it.                                              *)

TableRows == [root : Nat, at : Nat \ {0}, visible : BOOLEAN]
GoodTable(c) == c \in Seq(TableRows) /\ \A r \in Rows(c) : c[r].root \in 1..r

FeedPosts == [root : Nat, latest : Nat, rootAt : Nat \ {0}, visible : BOOLEAN]

\* What a post says stays true of a table that only grows.
GoodPost(p, c, creator) ==
    /\ p \in FeedPosts /\ p.root \in RootsOf(c) /\ p.latest \in Versions(c, p.root)
    /\ ~ creator => p.visible = TRUE

\* A page: each root once, by its time.
GoodPage(g, c, creator) ==
    /\ g \in Seq(FeedPosts) /\ Len(g) <= PageSize
    /\ \A i \in 1..Len(g) : GoodPost(g[i], c, creator)
    /\ \A i, j \in 1..Len(g) : i < j => g[i].root # g[j].root /\ g[j].rootAt <= g[i].rootAt

LEMMA TableFacts ==
    ASSUME NEW c, GoodTable(c)
    PROVE  /\ Len(c) \in Nat /\ Rows(c) = 1..Len(c)
           /\ \A r \in Rows(c) : c[r] \in TableRows /\ c[r].root \in 1..r /\ c[r].at \in Nat \ {0}
           /\ RootsOf(c) \subseteq 1..Len(c) /\ IsFiniteSet(RootsOf(c))
           /\ \A x : Versions(c, x) \subseteq Rows(c) /\ IsFiniteSet(Versions(c, x))
<1>1. Len(c) \in Nat /\ Rows(c) = 1..Len(c)
  BY LenProperties DEF GoodTable, Rows
<1>2. \A r \in Rows(c) : c[r] \in TableRows /\ c[r].root \in 1..r
  <2>1. \A r \in 1..Len(c) : c[r] \in TableRows
    BY ElementOfSeq DEF GoodTable
  <2> QED BY <1>1, <2>1 DEF GoodTable
<1>3. \A r \in Rows(c) : c[r].at \in Nat \ {0}
  BY <1>2 DEF TableRows
<1>4. RootsOf(c) \subseteq 1..Len(c)
  <2>1. \A r \in 1..Len(c) : 1..r \subseteq 1..Len(c)
    BY <1>1
  <2> QED BY <1>1, <1>2, <2>1 DEF RootsOf
<1>5. IsFiniteSet(1..Len(c))
  BY <1>1, FS_Interval
<1>6. \A x : Versions(c, x) \subseteq 1..Len(c)
  BY <1>1 DEF Versions
<1> QED BY <1>1, <1>2, <1>3, <1>4, <1>5, <1>6, FS_Subset

LEMMA TimeOfRoot ==
    ASSUME NEW c, GoodTable(c), NEW creator, NEW r
    PROVE  /\ RootAt(c, creator, r) \in Nat
           /\ RootAt(c, creator, r) # 0 => Readable(c, creator, r) # {}
<1> DEFINE rows == Readable(c, creator, r)
           times == {c[x].at : x \in rows}
<1>1. rows \subseteq Rows(c)
  BY TableFacts DEF Readable
<1>2. times \in SUBSET Nat
  <2> HIDE DEF rows
  <2> QED BY <1>1, TableFacts
<1>3. CASE rows = {}
  BY <1>3 DEF RootAt
<1>4. CASE rows # {}
  <2>1. times # {}
    <3> HIDE DEF rows
    <3> QED BY <1>4
  <2>2. Min(times) \in Nat
    <3> HIDE DEF times
    <3> QED BY <1>2, <2>1, LeastNatural
  <2>3. RootAt(c, creator, r) = Min(times)
    BY <1>4 DEF RootAt
  <2> QED BY <1>4, <2>2, <2>3
<1> QED BY <1>3, <1>4

\* The post of a root is of a version its reader may see.
LEMMA PostOfRoot ==
    ASSUME NEW c, GoodTable(c), NEW creator, NEW r \in RootsOf(c), RootAt(c, creator, r) # 0
    PROVE  /\ GoodPost(PostOf(c, creator, r), c, creator)
           /\ PostOf(c, creator, r).root = r /\ PostOf(c, creator, r).rootAt = RootAt(c, creator, r)
           /\ PostOf(c, creator, r).visible = c[PostOf(c, creator, r).latest].visible
<1> DEFINE latest == Max(Readable(c, creator, r))
           p == PostOf(c, creator, r)
<1>1. /\ Readable(c, creator, r) # {} /\ RootAt(c, creator, r) \in Nat \ {0} /\ r \in Nat
  <2>1. r \in Nat
    BY TableFacts
  <2> QED BY <2>1, TimeOfRoot
<1>2. Readable(c, creator, r) \subseteq Versions(c, r)
  BY DEF Readable
<1>3. Readable(c, creator, r) \in SUBSET Nat /\ IsFiniteSet(Readable(c, creator, r))
  <2>1. Versions(c, r) \subseteq Nat /\ IsFiniteSet(Versions(c, r))
    BY TableFacts
  <2> QED BY <1>2, <2>1, FS_Subset
<1>4. latest \in Readable(c, creator, r)
  BY <1>1, <1>3, GreatestNatural
<1>5. p = [root |-> r, latest |-> latest, rootAt |-> RootAt(c, creator, r), visible |-> c[latest].visible]
  BY DEF PostOf
<1>6. ~ creator => c[latest].visible = TRUE
  <2>1. creator \/ c[latest].visible
    BY <1>4, Zenon DEF Readable
  <2>2. c[latest].visible \in BOOLEAN
    BY <1>2, <1>4, TableFacts DEF TableRows
  <2> QED BY <2>1, <2>2
<1>7. c[latest].visible \in BOOLEAN /\ latest \in Nat /\ latest \in Versions(c, r)
  <2>1. latest \in Rows(c)
    BY <1>2, <1>4, TableFacts
  <2> QED BY <1>2, <1>3, <1>4, <2>1, TableFacts DEF TableRows
<1> HIDE DEF latest, p
<1>8. /\ p.root = r /\ p.latest = latest /\ p.rootAt = RootAt(c, creator, r) /\ p.visible = c[latest].visible
  BY <1>5
<1>9. p \in FeedPosts
  BY <1>1, <1>5, <1>7 DEF FeedPosts
<1>10. GoodPost(p, c, creator)
  BY <1>6, <1>7, <1>8, <1>9 DEF GoodPost
<1> QED BY <1>8, <1>10 DEF p

\* Roots are listed in a strict order, so each of them has a place of its own.
LEMMA PlacesOfRoots ==
    ASSUME NEW c, GoodTable(c), NEW creator, NEW roots \in SUBSET RootsOf(c)
    PROVE  /\ IsFiniteSet(roots) /\ Cardinality(roots) \in Nat
           /\ \A i \in 1..Cardinality(roots) : \E r \in roots : PlaceIn(c, creator, roots, r) = i
           /\ \A r \in roots : PlaceIn(c, creator, roots, r) \in 1..Cardinality(roots)
           /\ \A r, s \in roots : PlaceIn(c, creator, roots, r) <= PlaceIn(c, creator, roots, s) =>
                  r = s \/ Before(c, creator, r, s)
<1> DEFINE U == [r \in roots |-> {s \in roots : s = r \/ Before(c, creator, s, r)}]
<1>1. IsFiniteSet(roots) /\ \A r \in roots : r \in Nat /\ RootAt(c, creator, r) \in Nat
  <2>1. IsFiniteSet(RootsOf(c)) /\ RootsOf(c) \subseteq Nat
    BY TableFacts
  <2> QED BY <2>1, FS_Subset, TimeOfRoot
<1>2. \A r, s \in roots : s \in U[r] <=> s = r \/ Before(c, creator, s, r)
  OBVIOUS
<1>3. \A r \in roots : U[r] \subseteq roots /\ r \in U[r]
  OBVIOUS
<1>4. \A r, s \in roots : r = s \/ Before(c, creator, r, s) \/ Before(c, creator, s, r)
  BY <1>1 DEF Before
<1>5. \A r, s \in roots : ~ (Before(c, creator, r, s) /\ Before(c, creator, s, r))
  BY <1>1 DEF Before
<1>6. \A r, s, t \in roots : Before(c, creator, r, s) /\ Before(c, creator, s, t) => Before(c, creator, r, t)
  BY <1>1 DEF Before
<1>7. \A r, s \in roots : r \in U[s] \/ s \in U[r]
  BY <1>2, <1>4
<1>8. \A r, s \in roots : r \in U[s] /\ s \in U[r] => r = s
  BY <1>2, <1>5
<1>9. \A r, s \in roots : r \in U[s] => U[r] \subseteq U[s]
  <2> SUFFICES ASSUME NEW r \in roots, NEW s \in roots, r \in U[s], NEW t \in U[r] PROVE t \in U[s]
    OBVIOUS
  <2>1. t \in roots
    BY <1>3
  <2> HIDE DEF U
  <2> QED BY <1>2, <1>6, <2>1
<1>10. \A r \in roots : Cardinality(U[r]) = PlaceIn(c, creator, roots, r)
  BY DEF PlaceIn
<1> HIDE DEF U
<1>11. /\ Cardinality(roots) \in Nat
       /\ \A r \in roots : Cardinality(U[r]) \in 1..Cardinality(roots)
       /\ \A r, s \in roots : Cardinality(U[r]) <= Cardinality(U[s]) => r \in U[s]
       /\ \A i \in 1..Cardinality(roots) : \E r \in roots : Cardinality(U[r]) = i
  BY <1>1, <1>3, <1>7, <1>8, <1>9, Placed
<1>12. \A i \in 1..Cardinality(roots) : \E r \in roots : PlaceIn(c, creator, roots, r) = i
  BY <1>10, <1>11
<1>13. \A r \in roots : PlaceIn(c, creator, roots, r) \in 1..Cardinality(roots)
  BY <1>10, <1>11
<1>14. \A r, s \in roots : PlaceIn(c, creator, roots, r) <= PlaceIn(c, creator, roots, s) =>
           r = s \/ Before(c, creator, r, s)
  BY <1>2, <1>10, <1>11
<1> QED BY <1>1, <1>11, <1>12, <1>13, <1>14

\* A page holds the first of the roots it may hold, in their order: all of them,
\* or as many as fit and none before a root that is left.
LEMMA PageOfTable ==
    ASSUME FeedAssumption, NEW c, GoodTable(c), NEW creator, NEW below
    PROVE  LET g == ListFeeds(c, creator, below)
               roots == Listed(c, creator, below)
           IN  /\ GoodPage(g, c, creator)
               /\ \A i \in 1..Len(g) : /\ g[i].root \in roots
                                       /\ g[i].rootAt = RootAt(c, creator, g[i].root)
                                       /\ g[i].visible = c[g[i].latest].visible
               /\ \A r \in roots : \/ \E i \in 1..Len(g) : g[i].root = r
                                   \/ Len(g) = PageSize /\ RootAt(c, creator, r) <= g[PageSize].rootAt
<1> DEFINE roots == Listed(c, creator, below)
           n == Cardinality(roots)
           at(r) == PlaceIn(c, creator, roots, r)
           nth(i) == CHOOSE r \in roots : at(r) = i
           count == IF n < PageSize THEN n ELSE PageSize
           g == ListFeeds(c, creator, below)
<1>1. roots \in SUBSET RootsOf(c) /\ \A r \in roots : RootAt(c, creator, r) # 0
  BY DEF Listed
<1>2. g = [i \in 1..count |-> PostOf(c, creator, nth(i))]
  BY DEF ListFeeds
<1>3. /\ n \in Nat /\ \A i \in 1..n : \E r \in roots : at(r) = i
      /\ \A r \in roots : at(r) \in 1..n
      /\ \A r, s \in roots : at(r) <= at(s) => r = s \/ Before(c, creator, r, s)
  <2> HIDE DEF roots
  <2> QED BY <1>1, PlacesOfRoots
<1>4. \A r \in roots : r \in Nat /\ RootAt(c, creator, r) \in Nat
  BY <1>1, TableFacts, TimeOfRoot
<1>5. PageSize \in Nat /\ PageSize # 0
  BY DEF FeedAssumption
<1> HIDE DEF roots
<1>6. \A i \in 1..n : nth(i) \in roots /\ at(nth(i)) = i
  BY <1>3
<1> HIDE DEF at, nth, n
<1>7. count \in Nat /\ count <= n /\ count <= PageSize
  BY <1>3, <1>5
<1>8. \A i \in 1..count : i \in 1..n
  BY <1>3, <1>7
<1> HIDE DEF g
<1>9. \A i \in 1..count :
          /\ nth(i) \in roots /\ at(nth(i)) = i /\ g[i] = PostOf(c, creator, nth(i))
          /\ GoodPost(g[i], c, creator) /\ g[i].root = nth(i)
          /\ g[i].rootAt = RootAt(c, creator, nth(i)) /\ g[i].visible = c[g[i].latest].visible
  <2> SUFFICES ASSUME NEW i \in 1..count
               PROVE  /\ nth(i) \in roots /\ at(nth(i)) = i /\ g[i] = PostOf(c, creator, nth(i))
                      /\ GoodPost(g[i], c, creator) /\ g[i].root = nth(i)
                      /\ g[i].rootAt = RootAt(c, creator, nth(i)) /\ g[i].visible = c[g[i].latest].visible
    OBVIOUS
  <2>1. nth(i) \in roots /\ at(nth(i)) = i
    BY <1>6, <1>8
  <2>2. g[i] = PostOf(c, creator, nth(i))
    <3> HIDE DEF count
    <3> QED BY <1>2
  <2> DEFINE r == nth(i)
  <2>3. r \in RootsOf(c) /\ RootAt(c, creator, r) # 0
    BY <1>1, <2>1
  <2> HIDE DEF r
  <2>4. /\ GoodPost(PostOf(c, creator, r), c, creator)
        /\ PostOf(c, creator, r).root = r /\ PostOf(c, creator, r).rootAt = RootAt(c, creator, r)
        /\ PostOf(c, creator, r).visible = c[PostOf(c, creator, r).latest].visible
    BY <2>3, PostOfRoot
  <2>5. g[i] = PostOf(c, creator, r)
    BY <2>2 DEF r
  <2>6. nth(i) = r
    BY DEF r
  <2> QED BY <2>1, <2>4, <2>5, <2>6
<1>10. g \in Seq(FeedPosts) /\ Len(g) = count
  <2>1. \A i \in 1..count : PostOf(c, creator, nth(i)) \in FeedPosts
    BY <1>9 DEF GoodPost
  <2> HIDE DEF count
  <2>2. g \in [1..count -> FeedPosts]
    BY <1>2, <2>1
  <2> QED BY <1>7, <2>2
<1> HIDE DEF count
<1>11. \A i, j \in 1..count : i < j => nth(i) # nth(j) /\ Before(c, creator, nth(i), nth(j))
  <2> SUFFICES ASSUME NEW i \in 1..count, NEW j \in 1..count, i < j
               PROVE  nth(i) # nth(j) /\ Before(c, creator, nth(i), nth(j))
    OBVIOUS
  <2>1. /\ nth(i) \in roots /\ at(nth(i)) = i /\ nth(j) \in roots /\ at(nth(j)) = j
    BY <1>9
  <2>2. i # j /\ i <= j
    BY <1>7
  <2> QED BY <1>3, <2>1, <2>2
<1>12. \A i, j \in 1..count : i < j => g[i].root # g[j].root /\ g[j].rootAt <= g[i].rootAt
  <2> SUFFICES ASSUME NEW i \in 1..count, NEW j \in 1..count, i < j
               PROVE  g[i].root # g[j].root /\ g[j].rootAt <= g[i].rootAt
    OBVIOUS
  <2>1. nth(i) # nth(j) /\ Before(c, creator, nth(i), nth(j))
    BY <1>11
  <2>2. RootAt(c, creator, nth(j)) <= RootAt(c, creator, nth(i))
    <3>1. RootAt(c, creator, nth(j)) \in Nat /\ RootAt(c, creator, nth(i)) \in Nat
      BY <1>4, <1>9
    <3> QED BY <2>1, <3>1 DEF Before
  <2> QED BY <1>9, <2>1, <2>2
<1>13. GoodPage(g, c, creator)
  BY <1>7, <1>9, <1>10, <1>12 DEF GoodPage
<1>14. \A r \in roots : \/ \E i \in 1..count : g[i].root = r
                        \/ count = PageSize /\ RootAt(c, creator, r) <= g[PageSize].rootAt
  <2> SUFFICES ASSUME NEW r \in roots, \A i \in 1..count : g[i].root # r
               PROVE  count = PageSize /\ RootAt(c, creator, r) <= g[PageSize].rootAt
    OBVIOUS
  <2> DEFINE k == at(r)
  <2>1. k \in 1..n
    BY <1>3
  <2>2. \A s \in roots : at(s) = k => s = r
    <3> SUFFICES ASSUME NEW s \in roots, at(s) = k PROVE s = r
      OBVIOUS
    <3>1. at(s) <= at(r) /\ at(r) <= at(s)
      BY <2>1
    <3>2. s = r \/ (Before(c, creator, s, r) /\ Before(c, creator, r, s))
      BY <1>3, <3>1
    <3>3. r \in Nat /\ s \in Nat /\ RootAt(c, creator, r) \in Nat /\ RootAt(c, creator, s) \in Nat
      BY <1>4
    <3> QED BY <3>2, <3>3 DEF Before
  <2>3. k \notin 1..count
    <3> SUFFICES ASSUME k \in 1..count PROVE FALSE
      OBVIOUS
    <3>1. nth(k) \in roots /\ at(nth(k)) = k /\ g[k].root = nth(k)
      BY <1>9
    <3> QED BY <2>2, <3>1
  <2>4. count = PageSize /\ PageSize \in 1..count /\ PageSize <= k
    BY <1>3, <1>5, <1>7, <2>1, <2>3 DEF count
  <2> HIDE DEF k
  <2>5. nth(PageSize) \in roots /\ at(nth(PageSize)) = PageSize /\ g[PageSize].rootAt = RootAt(c, creator, nth(PageSize))
    BY <1>9, <2>4
  <2>6. nth(PageSize) = r \/ Before(c, creator, nth(PageSize), r)
    BY <1>3, <2>4, <2>5 DEF k
  <2>7. RootAt(c, creator, r) \in Nat /\ RootAt(c, creator, nth(PageSize)) \in Nat
    BY <1>4, <2>5
  <2>8. RootAt(c, creator, r) <= RootAt(c, creator, nth(PageSize))
    BY <2>6, <2>7 DEF Before
  <2> QED BY <2>4, <2>5, <2>8
<1>15. \A i \in 1..Len(g) : /\ g[i].root \in roots
                            /\ g[i].rootAt = RootAt(c, creator, g[i].root)
                            /\ g[i].visible = c[g[i].latest].visible
  BY <1>9, <1>10
<1>16. \A r \in roots : \/ \E i \in 1..Len(g) : g[i].root = r
                        \/ Len(g) = PageSize /\ RootAt(c, creator, r) <= g[PageSize].rootAt
  BY <1>10, <1>14
<1> QED BY <1>13, <1>15, <1>16 DEF g, roots

-----------------------------------------------------------------------------
(* The pages a reader scrolled through, read at different times: moved are   *)
(* the roots whose time in the list changed since the first of them.         *)

Full(g) == Len(g) = PageSize

GoodPages(ps, c, creator) ==
    /\ ps \in Seq(Seq(FeedPosts)) /\ \A k \in 1..Len(ps) : GoodPage(ps[k], c, creator)
    /\ \A k \in 1..Len(ps) : k < Len(ps) => Full(ps[k])

\* Every page is below the one before it.
Descend(ps) ==
    \A k, l \in 1..Len(ps) : k < l => \A i \in 1..Len(ps[l]) : ps[l][i].rootAt < ps[k][PageSize].rootAt

TimesHold(ps, moved, c, creator) ==
    \A k \in 1..Len(ps) : \A i \in 1..Len(ps[k]) :
        ps[k][i].root \notin moved => ps[k][i].rootAt = RootAt(c, creator, ps[k][i].root)

\* A root that is not on the screen is below it, or has the time of the end of a page.
Covers(ps, r, at) ==
    \/ ps = <<>>
    \/ \E k \in 1..Len(ps) : \E i \in 1..Len(ps[k]) : ps[k][i].root = r
    \/ \E k \in 1..Len(ps) : Full(ps[k]) /\ ps[k][PageSize].rootAt = at
    \/ Full(ps[Len(ps)]) /\ at < ps[Len(ps)][PageSize].rootAt

CoversAll(ps, moved, c, creator) ==
    \A r \in RootsOf(c) \ moved : RootAt(c, creator, r) # 0 => Covers(ps, r, RootAt(c, creator, r))

Whole(ps, moved, c, creator) ==
    /\ GoodPages(ps, c, creator) /\ Descend(ps)
    /\ TimesHold(ps, moved, c, creator) /\ CoversAll(ps, moved, c, creator)

\* What a post says of hiding is what the table says.
Agree(ps, other, c) ==
    \A k \in 1..Len(ps) : \A i \in 1..Len(ps[k]) :
        ps[k][i].root \notin other => ps[k][i].visible = c[ps[k][i].latest].visible

LEMMA NoPages == \A moved, c, creator, other : Whole(<<>>, moved, c, creator) /\ Agree(<<>>, other, c)
<1>1. <<>> \in Seq(Seq(FeedPosts)) /\ Len(<<>>) = 0 /\ 1..0 = {}
  BY EmptySeq
<1> QED BY <1>1 DEF Whole, GoodPages, Descend, TimesHold, CoversAll, Covers, Agree

LEMMA PagesOfPages ==
    ASSUME FeedAssumption, NEW ps, NEW c, NEW creator, GoodPages(ps, c, creator)
    PROVE  /\ Len(ps) \in Nat /\ PageSize \in Nat \ {0} /\ DOMAIN ps = 1..Len(ps)
           /\ \A k \in 1..Len(ps) : /\ ps[k] \in Seq(FeedPosts) /\ Len(ps[k]) \in Nat /\ Len(ps[k]) <= PageSize
                                    /\ DOMAIN ps[k] = 1..Len(ps[k])
                                    /\ Full(ps[k]) => PageSize \in 1..Len(ps[k])
           /\ \A k \in 1..Len(ps) : \A i \in 1..Len(ps[k]) :
                 ps[k][i] \in FeedPosts /\ ps[k][i].rootAt \in Nat \ {0} /\ GoodPost(ps[k][i], c, creator)
<1>1. Len(ps) \in Nat /\ PageSize \in Nat \ {0} /\ DOMAIN ps = 1..Len(ps)
  BY LenProperties DEF GoodPages, FeedAssumption
<1>2. \A k \in 1..Len(ps) : ps[k] \in Seq(FeedPosts) /\ Len(ps[k]) <= PageSize
  BY DEF GoodPages, GoodPage
<1>3. \A k \in 1..Len(ps) : Len(ps[k]) \in Nat /\ DOMAIN ps[k] = 1..Len(ps[k])
  BY <1>2, LenProperties
<1>4. \A k \in 1..Len(ps) : Full(ps[k]) => PageSize \in 1..Len(ps[k])
  BY <1>1 DEF Full
<1>5. \A k \in 1..Len(ps) : \A i \in 1..Len(ps[k]) : GoodPost(ps[k][i], c, creator)
  BY DEF GoodPages, GoodPage
<1>6. \A k \in 1..Len(ps) : \A i \in 1..Len(ps[k]) : ps[k][i] \in FeedPosts /\ ps[k][i].rootAt \in Nat \ {0}
  BY <1>5 DEF GoodPost, FeedPosts
<1> QED BY <1>1, <1>2, <1>3, <1>4, <1>5, <1>6

LEMMA CursorOfPages ==
    ASSUME FeedAssumption, NEW ps, NEW c, NEW creator, GoodPages(ps, c, creator)
    PROVE  NextCursor(ps) # 0 <=> ps # <<>> /\ Full(ps[Len(ps)])
<1>1. ps = <<>> => NextCursor(ps) = 0
  BY DEF NextCursor
<1>2. ASSUME ps # <<>>
      PROVE  NextCursor(ps) = (IF Full(ps[Len(ps)]) THEN ps[Len(ps)][PageSize].rootAt ELSE 0)
             /\ Len(ps) \in 1..Len(ps)
  <2>1. Len(ps) \in Nat /\ Len(ps) # 0
    BY <1>2, EmptySeq DEF GoodPages
  <2>2. Last(ps) = ps[Len(ps)]
    BY DEF Last
  <2>3. NextCursor(ps) = IF Len(Last(ps)) # PageSize THEN 0 ELSE Last(Last(ps)).rootAt
    BY <1>2 DEF NextCursor
  <2>4. Len(Last(ps)) = PageSize => Last(Last(ps)) = ps[Len(ps)][PageSize]
    BY <2>2 DEF Last
  <2> QED BY <2>1, <2>2, <2>3, <2>4 DEF Full
<1>3. ASSUME ps # <<>>, Full(ps[Len(ps)]) PROVE ps[Len(ps)][PageSize].rootAt # 0
  <2>1. Len(ps) \in 1..Len(ps)
    BY <1>2, <1>3
  <2>2. PageSize \in 1..Len(ps[Len(ps)])
    BY <1>3, <2>1, PagesOfPages
  <2>3. ps[Len(ps)][PageSize].rootAt \in Nat \ {0}
    BY <2>1, <2>2, PagesOfPages
  <2> QED BY <2>3
<1> QED BY <1>1, <1>2, <1>3

LEMMA CursorIsTheLast ==
    ASSUME FeedAssumption, NEW ps, NEW c, NEW creator, GoodPages(ps, c, creator), NextCursor(ps) # 0
    PROVE  /\ Len(ps) \in 1..Len(ps) /\ Full(ps[Len(ps)]) /\ ps # <<>>
           /\ NextCursor(ps) = ps[Len(ps)][PageSize].rootAt /\ NextCursor(ps) \in Nat
<1>1. ps # <<>> /\ Full(ps[Len(ps)])
  BY CursorOfPages
<1>2. Len(ps) \in Nat /\ Len(ps) # 0
  BY <1>1, EmptySeq DEF GoodPages
<1>3. Len(ps) \in 1..Len(ps)
  BY <1>2
<1>4. NextCursor(ps) = ps[Len(ps)][PageSize].rootAt
  BY <1>1 DEF NextCursor, Last, Full
<1>5. PageSize \in 1..Len(ps[Len(ps)])
  BY <1>1, <1>3, PagesOfPages
<1>6. ps[Len(ps)][PageSize].rootAt \in Nat \ {0}
  BY <1>3, <1>5, PagesOfPages
<1> QED BY <1>1, <1>3, <1>4, <1>6

\* A further page, below the last one, keeps the pages whole.
LEMMA NextPage ==
    ASSUME FeedAssumption, NEW c, GoodTable(c), NEW creator, NEW moved, NEW ps,
           Whole(ps, moved, c, creator), ps = <<>> \/ NextCursor(ps) # 0
    PROVE  Whole(Append(ps, ListFeeds(c, creator, NextCursor(ps))), moved, c, creator)
<1> DEFINE below == NextCursor(ps)
           g == ListFeeds(c, creator, below)
           all == Append(ps, g)
           n == Len(ps)
           roots == Listed(c, creator, below)
<1>1. /\ GoodPage(g, c, creator)
      /\ \A i \in 1..Len(g) : g[i].root \in roots /\ g[i].rootAt = RootAt(c, creator, g[i].root)
      /\ \A r \in roots : \/ \E i \in 1..Len(g) : g[i].root = r
                          \/ Len(g) = PageSize /\ RootAt(c, creator, r) <= g[PageSize].rootAt
  <2> HIDE DEF below
  <2> QED BY PageOfTable
<1>2. GoodPages(ps, c, creator) /\ Descend(ps) /\ TimesHold(ps, moved, c, creator) /\ CoversAll(ps, moved, c, creator)
  BY DEF Whole
<1>3. /\ n \in Nat /\ PageSize \in Nat \ {0} /\ ps \in Seq(Seq(FeedPosts))
      /\ \A k \in 1..n : Len(ps[k]) \in Nat /\ (Full(ps[k]) => PageSize \in 1..Len(ps[k]))
      /\ \A k \in 1..n : \A i \in 1..Len(ps[k]) : ps[k][i].rootAt \in Nat
  BY <1>2, PagesOfPages DEF GoodPages
<1>4. ps # <<>> => n # 0 /\ n \in 1..n /\ Full(ps[n]) /\ below = ps[n][PageSize].rootAt /\ below # 0
  <2> SUFFICES ASSUME ps # <<>> PROVE n # 0 /\ n \in 1..n /\ Full(ps[n]) /\ below = ps[n][PageSize].rootAt /\ below # 0
    OBVIOUS
  <2>1. n \in 1..n /\ Full(ps[n]) /\ below = ps[n][PageSize].rootAt /\ below # 0
    BY <1>2, CursorIsTheLast
  <2> HIDE DEF n, below
  <2> QED BY <1>3, <2>1
<1>5. ps = <<>> => n = 0 /\ below = 0
  BY EmptySeq DEF NextCursor
<1>6. g \in Seq(FeedPosts) /\ Len(g) \in Nat
  <2>1. g \in Seq(FeedPosts)
    BY <1>1 DEF GoodPage
  <2> HIDE DEF g
  <2> QED BY <2>1, LenProperties
<1> HIDE DEF g, below, roots
<1>7. /\ all \in Seq(Seq(FeedPosts)) /\ Len(all) = n + 1 /\ all[n + 1] = g /\ all # <<>>
      /\ \A k \in 1..n : all[k] = ps[k]
  BY <1>3, <1>6, AppendProperties
<1>8. \A k \in 1..Len(all) : k \in 1..n \/ k = n + 1
  BY <1>3, <1>7
<1>9. \A r \in roots : r \in RootsOf(c) /\ RootAt(c, creator, r) # 0 /\ (below # 0 => RootAt(c, creator, r) < below)
  BY DEF roots, Listed
<1> HIDE DEF n, all
<1>10. GoodPages(all, c, creator)
  <2>1. \A k \in 1..Len(all) : GoodPage(all[k], c, creator)
    <3>1. \A k \in 1..n : GoodPage(ps[k], c, creator)
      BY <1>2 DEF GoodPages, n
    <3> QED BY <1>1, <1>7, <1>8, <3>1
  <2>2. \A k \in 1..Len(all) : k < Len(all) => Full(all[k])
    <3> SUFFICES ASSUME NEW k \in 1..Len(all), k < Len(all) PROVE Full(all[k])
      OBVIOUS
    <3>1. k \in 1..n
      BY <1>3, <1>7
    <3>2. n # 0
      BY <1>3, <3>1
    <3>3. CASE k = n
      BY <1>4, <1>5, <1>7, <3>1, <3>2, <3>3
    <3>4. CASE k # n
      <4>1. k < n
        BY <1>3, <3>1, <3>4
      <4>2. Full(ps[k])
        BY <1>2, <3>1, <4>1 DEF GoodPages, n
      <4> QED BY <1>7, <3>1, <4>2
    <3> QED BY <3>3, <3>4
  <2> QED BY <1>7, <2>1, <2>2 DEF GoodPages
<1>11. Descend(all)
  <2> SUFFICES ASSUME NEW k \in 1..Len(all), NEW l \in 1..Len(all), k < l, NEW i \in 1..Len(all[l])
               PROVE  all[l][i].rootAt < all[k][PageSize].rootAt
    BY DEF Descend
  <2>1. k \in 1..n /\ n # 0
    BY <1>3, <1>7
  <2>2. CASE l \in 1..n
    <3>1. ps[l][i].rootAt < ps[k][PageSize].rootAt
      BY <1>2, <1>7, <2>1, <2>2 DEF Descend, n
    <3> QED BY <1>7, <2>1, <2>2, <3>1
  <2>3. CASE l = n + 1
    <3>1. all[l] = g /\ all[k] = ps[k]
      BY <1>7, <2>1, <2>3
    <3>2. g[i].root \in roots /\ g[i].rootAt = RootAt(c, creator, g[i].root)
      BY <1>1, <3>1
    <3>3. below # 0 /\ below = ps[n][PageSize].rootAt /\ n \in 1..n /\ PageSize \in 1..Len(ps[n])
      BY <1>3, <1>4, <1>5, <2>1
    <3>4. g[i].rootAt < ps[n][PageSize].rootAt
      BY <1>9, <3>2, <3>3
    <3>5. k = n \/ ps[n][PageSize].rootAt < ps[k][PageSize].rootAt
      <4>1. k = n \/ k < n
        BY <1>3, <2>1
      <4> QED BY <1>2, <2>1, <3>3, <4>1 DEF Descend, n
    <3>6. g[i].rootAt \in Nat
      BY <3>2, TimeOfRoot
    <3>7. ps[n][PageSize].rootAt \in Nat
      BY <1>3, <3>3
    <3>8. ps[k][PageSize].rootAt \in Nat
      <4>1. Full(ps[k])
        BY <1>3, <1>7, <1>10, <2>1 DEF GoodPages
      <4> QED BY <1>3, <2>1, <4>1
    <3>9. g[i].rootAt < ps[k][PageSize].rootAt
      BY <3>4, <3>5, <3>6, <3>7, <3>8
    <3> QED BY <3>1, <3>9
  <2> QED BY <1>8, <2>2, <2>3
<1>12. TimesHold(all, moved, c, creator)
  <2>1. \A k \in 1..n : \A i \in 1..Len(ps[k]) :
            ps[k][i].root \notin moved => ps[k][i].rootAt = RootAt(c, creator, ps[k][i].root)
    BY <1>2 DEF TimesHold, n
  <2>2. \A i \in 1..Len(g) : g[i].rootAt = RootAt(c, creator, g[i].root)
    BY <1>1
  <2> SUFFICES ASSUME NEW k \in 1..Len(all), NEW i \in 1..Len(all[k]), all[k][i].root \notin moved
               PROVE  all[k][i].rootAt = RootAt(c, creator, all[k][i].root)
    BY DEF TimesHold
  <2>3. CASE k \in 1..n
    BY <1>7, <2>1, <2>3
  <2>4. CASE k = n + 1
    BY <1>7, <2>2, <2>4
  <2> QED BY <1>8, <2>3, <2>4
<1>13. CoversAll(all, moved, c, creator)
  <2> SUFFICES ASSUME NEW r \in RootsOf(c) \ moved, RootAt(c, creator, r) # 0
               PROVE  Covers(all, r, RootAt(c, creator, r))
    BY DEF CoversAll
  <2> DEFINE at == RootAt(c, creator, r)
  <2>0. n + 1 \in 1..Len(all) /\ \A k \in 1..n : k \in 1..Len(all)
    BY <1>3, <1>7
  <2>1. CASE r \in roots
    <3>1. CASE \E i \in 1..Len(g) : g[i].root = r
      BY <1>7, <2>0, <3>1 DEF Covers
    <3>2. CASE Len(g) = PageSize /\ at <= g[PageSize].rootAt
      <4>1. PageSize \in 1..Len(g)
        BY <1>3, <3>2
      <4>2. g[PageSize].rootAt \in Nat /\ at \in Nat
        BY <1>1, <4>1, TimeOfRoot
      <4>3. g[PageSize].rootAt = at \/ at < g[PageSize].rootAt
        BY <3>2, <4>2
      <4>4. Full(all[n + 1]) /\ all[n + 1] = g
        BY <1>7, <3>2 DEF Full
      <4> HIDE DEF at
      <4>5. Covers(all, r, at)
        BY <1>7, <2>0, <4>3, <4>4 DEF Covers
      <4> QED BY <4>5 DEF at
    <3> QED BY <1>1, <2>1, <3>1, <3>2
  <2>2. CASE r \notin roots
    <3>1. ps # <<>>
      BY <1>5, <2>2 DEF roots, Listed
    <3>2. ~ (at < below)
      BY <2>2 DEF roots, Listed
    <3>3. Covers(ps, r, at)
      BY <1>2 DEF CoversAll
    <3> HIDE DEF at
    <3>4. \/ \E k \in 1..n : \E i \in 1..Len(ps[k]) : ps[k][i].root = r
          \/ \E k \in 1..n : Full(ps[k]) /\ ps[k][PageSize].rootAt = at
      BY <1>4, <3>1, <3>2, <3>3 DEF Covers, n
    <3>5. Covers(all, r, at)
      BY <1>7, <2>0, <3>4 DEF Covers
    <3> QED BY <3>5 DEF at
  <2> QED BY <2>1, <2>2
<1>14. Whole(all, moved, c, creator)
  BY <1>10, <1>11, <1>12, <1>13 DEF Whole
<1> QED BY <1>14 DEF all, g, below

LEMMA NextPageAgrees ==
    ASSUME FeedAssumption, NEW c, GoodTable(c), NEW creator, NEW other, NEW ps, ps \in Seq(Seq(FeedPosts)),
           Agree(ps, other, c)
    PROVE  Agree(Append(ps, ListFeeds(c, creator, NextCursor(ps))), other, c)
<1> DEFINE below == NextCursor(ps)
           g == ListFeeds(c, creator, below)
           all == Append(ps, g)
           n == Len(ps)
<1>1. GoodPage(g, c, creator) /\ \A i \in 1..Len(g) : g[i].visible = c[g[i].latest].visible
  <2> HIDE DEF below
  <2> QED BY PageOfTable
<1>2. g \in Seq(FeedPosts) /\ n \in Nat
  BY <1>1, LenProperties DEF GoodPage
<1> HIDE DEF g
<1>3. /\ Len(all) = n + 1 /\ all[n + 1] = g /\ \A k \in 1..n : all[k] = ps[k]
  BY <1>2, AppendProperties
<1>4. \A k \in 1..Len(all) : k \in 1..n \/ k = n + 1
  BY <1>2, <1>3
<1> HIDE DEF all
<1>5. Agree(all, other, c)
  <2> SUFFICES ASSUME NEW k \in 1..Len(all), NEW i \in 1..Len(all[k]), all[k][i].root \notin other
               PROVE  all[k][i].visible = c[all[k][i].latest].visible
    BY DEF Agree
  <2>1. CASE k \in 1..n
    <3>1. all[k] = ps[k]
      BY <1>3, <2>1
    <3> QED BY <2>1, <3>1 DEF Agree, n
  <2>2. CASE k = n + 1
    <3>1. all[k] = g
      BY <1>3, <2>2
    <3> QED BY <1>1, <3>1
  <2> QED BY <1>4, <2>1, <2>2
<1> QED BY <1>5 DEF all, g, below

-----------------------------------------------------------------------------
(* The table under the pages changes.                                        *)

Grows(c, d) ==
    /\ GoodTable(c) /\ GoodTable(d) /\ Len(c) <= Len(d)
    /\ \A r \in Rows(c) : d[r].root = c[r].root

MovedIn(c, d, creator) ==
    {r \in RootsOf(d) : r \notin RootsOf(c) \/ RootAt(d, creator, r) # RootAt(c, creator, r)}

LEMMA GrownTable ==
    ASSUME NEW c, NEW d, Grows(c, d)
    PROVE  /\ Rows(c) \subseteq Rows(d) /\ RootsOf(c) \subseteq RootsOf(d)
           /\ \A x : Versions(c, x) \subseteq Versions(d, x)
<1>1. Rows(c) \subseteq Rows(d)
  <2>1. Len(c) \in Nat /\ Len(d) \in Nat /\ Len(c) <= Len(d)
    BY TableFacts DEF Grows
  <2> QED BY <2>1 DEF Rows
<1>2. \A r \in Rows(c) : d[r].root = c[r].root
  BY DEF Grows
<1> QED BY <1>1, <1>2 DEF RootsOf, Versions

LEMMA StaysWhole ==
    ASSUME FeedAssumption, NEW c, NEW d, Grows(c, d), NEW creator, NEW ps, NEW moved, NEW moved2,
           Whole(ps, moved, c, creator), moved \cup MovedIn(c, d, creator) \subseteq moved2
    PROVE  Whole(ps, moved2, d, creator)
<1>1. /\ GoodPages(ps, c, creator) /\ Descend(ps) /\ TimesHold(ps, moved, c, creator)
      /\ CoversAll(ps, moved, c, creator)
  BY DEF Whole
<1>2. RootsOf(c) \subseteq RootsOf(d) /\ \A x : Versions(c, x) \subseteq Versions(d, x)
  BY GrownTable
<1>3. \A p : GoodPost(p, c, creator) => GoodPost(p, d, creator)
  BY <1>2 DEF GoodPost
<1>4. GoodPages(ps, d, creator)
  BY <1>1, <1>3 DEF GoodPages, GoodPage
<1>5. \A r \in RootsOf(d) \ moved2 : r \in RootsOf(c) \ moved /\ RootAt(d, creator, r) = RootAt(c, creator, r)
  BY DEF MovedIn
<1>6. TimesHold(ps, moved2, d, creator)
  <2> SUFFICES ASSUME NEW k \in 1..Len(ps), NEW i \in 1..Len(ps[k]), ps[k][i].root \notin moved2
               PROVE  ps[k][i].rootAt = RootAt(d, creator, ps[k][i].root)
    BY DEF TimesHold
  <2>1. ps[k][i].root \in RootsOf(d)
    BY <1>4 DEF GoodPages, GoodPage, GoodPost
  <2>2. ps[k][i].root \notin moved /\ RootAt(d, creator, ps[k][i].root) = RootAt(c, creator, ps[k][i].root)
    BY <1>5, <2>1
  <2> QED BY <1>1, <2>2 DEF TimesHold
<1>7. CoversAll(ps, moved2, d, creator)
  BY <1>1, <1>5 DEF CoversAll
<1> QED BY <1>1, <1>4, <1>6, <1>7 DEF Whole

LEMMA StaysAgreed ==
    ASSUME NEW c, NEW d, Grows(c, d), NEW creator, NEW ps, NEW other, NEW others, NEW other2,
           GoodPages(ps, c, creator), Agree(ps, other, c), other \cup others \subseteq other2,
           \A r \in Rows(c) : c[r].root \notin others => d[r].visible = c[r].visible
    PROVE  Agree(ps, other2, d)
<1> SUFFICES ASSUME NEW k \in 1..Len(ps), NEW i \in 1..Len(ps[k]), ps[k][i].root \notin other2
             PROVE  ps[k][i].visible = d[ps[k][i].latest].visible
  BY DEF Agree
<1> DEFINE p == ps[k][i]
<1>1. GoodPost(p, c, creator)
  BY DEF GoodPages, GoodPage
<1>2. p.visible = c[p.latest].visible
  BY DEF Agree
<1> HIDE DEF p
<1>3. p.latest \in Rows(c) /\ c[p.latest].root = p.root
  BY <1>1 DEF GoodPost, Versions
<1>4. d[p.latest].visible = c[p.latest].visible
  BY <1>3 DEF p
<1> QED BY <1>2, <1>4 DEF p

LEMMA AppendsRow ==
    ASSUME NEW c, GoodTable(c), NEW root \in RootsOf(c) \cup {Len(c) + 1}, NEW at \in Nat \ {0}
    PROVE  LET d == Append(c, [root |-> root, at |-> at, visible |-> TRUE])
           IN  Grows(c, d) /\ \A r \in Rows(c) : d[r].visible = c[r].visible
<1> DEFINE x == [root |-> root, at |-> at, visible |-> TRUE]
           d == Append(c, x)
<1>1. /\ Len(c) \in Nat /\ Rows(c) = 1..Len(c) /\ root \in 1..(Len(c) + 1)
  <2>1. Len(c) \in Nat /\ Rows(c) = 1..Len(c) /\ RootsOf(c) \subseteq 1..Len(c)
    BY TableFacts
  <2> QED BY <2>1
<1>2. x \in TableRows /\ x.root = root
  <2>1. root \in Nat
    BY <1>1
  <2> QED BY <2>1 DEF TableRows
<1> HIDE DEF x
<1>3. /\ d \in Seq(TableRows) /\ Len(d) = Len(c) + 1 /\ d[Len(c) + 1] = x
      /\ \A r \in 1..Len(c) : d[r] = c[r]
  BY <1>2, AppendProperties DEF GoodTable
<1> HIDE DEF d
<1>4. Rows(d) = 1..(Len(c) + 1)
  BY <1>3 DEF Rows
<1>5. GoodTable(d)
  <2>1. \A r \in Rows(d) : r \in Rows(c) \/ r = Len(c) + 1
    BY <1>1, <1>4
  <2>2. \A r \in Rows(c) : c[r].root \in 1..r
    BY DEF GoodTable
  <2> QED BY <1>1, <1>2, <1>3, <2>1, <2>2 DEF GoodTable
<1>6. Grows(c, d) /\ \A r \in Rows(c) : d[r].visible = c[r].visible
  <2>1. Len(c) <= Len(d)
    BY <1>1, <1>3
  <2> QED BY <1>1, <1>3, <1>5, <2>1 DEF Grows
<1> QED BY <1>6 DEF d, x

LEMMA ChangesVisible ==
    ASSUME NEW c, GoodTable(c), NEW root, NEW v \in BOOLEAN
    PROVE  /\ Grows(c, WithVisible(c, root, v))
           /\ \A r \in Rows(c) : c[r].root # root => WithVisible(c, root, v)[r].visible = c[r].visible
<1> DEFINE d == WithVisible(c, root, v)
<1>1. /\ Len(c) \in Nat /\ Rows(c) = 1..Len(c)
      /\ \A r \in Rows(c) : c[r] \in TableRows /\ c[r].root \in 1..r
  BY TableFacts
<1>2. d = [r \in Rows(c) |-> IF c[r].root = root THEN [c[r] EXCEPT !.visible = v] ELSE c[r]]
  BY DEF WithVisible
<1> HIDE DEF d
<1>3. \A r \in Rows(c) : d[r] \in TableRows /\ d[r].root = c[r].root
  <2> SUFFICES ASSUME NEW r \in Rows(c) PROVE d[r] \in TableRows /\ d[r].root = c[r].root
    OBVIOUS
  <2>1. [c[r] EXCEPT !.visible = v] \in TableRows /\ [c[r] EXCEPT !.visible = v].root = c[r].root
    BY <1>1 DEF TableRows
  <2>2. d[r] = IF c[r].root = root THEN [c[r] EXCEPT !.visible = v] ELSE c[r]
    BY <1>2
  <2>3. CASE c[r].root = root
    BY <2>1, <2>2, <2>3
  <2>4. CASE c[r].root # root
    BY <1>1, <2>2, <2>4
  <2> QED BY <2>3, <2>4
<1>4. d \in Seq(TableRows) /\ Len(d) = Len(c)
  <2>1. d \in [1..Len(c) -> TableRows]
    BY <1>1, <1>2, <1>3
  <2> QED BY <1>1, <2>1
<1>5. Rows(d) = Rows(c)
  BY <1>4 DEF Rows
<1>6. GoodTable(d)
  BY <1>1, <1>3, <1>4, <1>5 DEF GoodTable
<1>7. Grows(c, d)
  <2>1. Len(c) <= Len(d)
    BY <1>1, <1>4
  <2> QED BY <1>3, <1>6, <2>1 DEF Grows
<1>8. \A r \in Rows(c) : c[r].root # root => d[r].visible = c[r].visible
  BY <1>2
<1> QED BY <1>7, <1>8 DEF d

-----------------------------------------------------------------------------
(* The inductive invariant of the feed.                                      *)

FeedRecords == [creator : BOOLEAN, pages : Seq(Seq(FeedPosts))]
JobRecords == [kind : {"none", "next", "again"}, got : Seq(Seq(FeedPosts))]
AskedRecords == [root : Nat, visible : BOOLEAN]
SeenRecords == [moved : SUBSET Nat, movedNext : SUBSET Nat, other : SUBSET Nat, otherNext : SUBSET Nat,
                toggles : Nat, dropped : BOOLEAN]

RecordsInv ==
    /\ GoodTable(content) /\ feed \in FeedRecords /\ job \in JobRecords /\ asked \in AskedRecords
    /\ seen \in SeenRecords /\ (asked # NoRequest => feed.creator = TRUE)

\* The pages on the screen and those read again are whole for themselves, and agree
\* with the table unless an answer is out that will have them read again.
PagesInv(f, j, s, c) ==
    /\ Whole(f.pages, s.moved, c, f.creator) /\ Whole(j.got, s.movedNext, c, f.creator)
    /\ Agree(j.got, s.otherNext, c)
    /\ j.kind # "again" /\ s.dropped = FALSE => Agree(f.pages, s.other, c)
    /\ j.kind = "next" => NextCursor(f.pages) # 0
    /\ j.got # <<>> => NextCursor(j.got) # 0
    /\ j.kind # "again" => j.got = <<>>

FeedInv == RecordsInv /\ PagesInv(feed, job, seen, content)

LEMMA NotedRecord ==
    ASSUME RecordsInv, NEW d, Grows(content, d), NEW others \in SUBSET Nat
    PROVE  LET s == Noted(d, others)
           IN  /\ s \in SeenRecords
               /\ s.moved = seen.moved \cup MovedIn(content, d, feed.creator)
               /\ s.movedNext = seen.movedNext \cup MovedIn(content, d, feed.creator)
               /\ s.other = seen.other \cup others /\ s.otherNext = seen.otherNext \cup others
               /\ s.toggles = seen.toggles /\ s.dropped = seen.dropped
<1> DEFINE m == MovedIn(content, d, feed.creator)
           s == Noted(d, others)
<1>1. m \in SUBSET Nat
  <2>1. RootsOf(d) \subseteq Nat
    BY TableFacts DEF Grows
  <2> QED BY <2>1 DEF MovedIn
<1>2. s = [seen EXCEPT !.moved = @ \cup m, !.movedNext = @ \cup m,
                       !.other = @ \cup others, !.otherNext = @ \cup others]
  BY DEF Noted, MovedIn
<1> HIDE DEF m, s
<1>3. seen \in SeenRecords
  BY DEF RecordsInv
<1>4. /\ s \in SeenRecords /\ s.moved = seen.moved \cup m /\ s.movedNext = seen.movedNext \cup m
      /\ s.other = seen.other \cup others /\ s.otherNext = seen.otherNext \cup others
      /\ s.toggles = seen.toggles /\ s.dropped = seen.dropped
  BY <1>1, <1>2, <1>3 DEF SeenRecords
<1> QED BY <1>4 DEF m, s

\* What changed between two tables, at the roots of others or in their place, was noted.
NotedSince(s, s2, c, d, creator, others) ==
    /\ s.moved \cup MovedIn(c, d, creator) \subseteq s2.moved
    /\ s.movedNext \cup MovedIn(c, d, creator) \subseteq s2.movedNext
    /\ s.other \cup others \subseteq s2.other /\ s.otherNext \cup others \subseteq s2.otherNext
    /\ s2.dropped = s.dropped
    /\ \A r \in Rows(c) : c[r].root \notin others => d[r].visible = c[r].visible

\* Pages stay what they are over a change of the table that is noted.
LEMMA PagesStay ==
    ASSUME FeedAssumption, NEW f, NEW j, NEW s, NEW c, PagesInv(f, j, s, c), NEW d, Grows(c, d), NEW others, NEW s2,
           NotedSince(s, s2, c, d, f.creator, others)
    PROVE  PagesInv(f, j, s2, d)
<1>0. /\ s.moved \cup MovedIn(c, d, f.creator) \subseteq s2.moved
      /\ s.movedNext \cup MovedIn(c, d, f.creator) \subseteq s2.movedNext
      /\ s.other \cup others \subseteq s2.other /\ s.otherNext \cup others \subseteq s2.otherNext
      /\ s2.dropped = s.dropped
      /\ \A r \in Rows(c) : c[r].root \notin others => d[r].visible = c[r].visible
  BY DEF NotedSince
<1>1. Whole(f.pages, s2.moved, d, f.creator) /\ Whole(j.got, s2.movedNext, d, f.creator)
  BY <1>0, StaysWhole DEF PagesInv
<1>2. GoodPages(f.pages, c, f.creator) /\ GoodPages(j.got, c, f.creator)
  BY DEF PagesInv, Whole
<1>3. Agree(j.got, s2.otherNext, d)
  <2>1. Agree(j.got, s.otherNext, c)
    BY DEF PagesInv
  <2> DEFINE ps == j.got
             creator == f.creator
             other == s.otherNext
             other2 == s2.otherNext
  <2>2. GoodPages(ps, c, creator) /\ Agree(ps, other, c) /\ other \cup others \subseteq other2
    BY <1>0, <1>2, <2>1
  <2> HIDE DEF ps, creator, other, other2
  <2>3. Agree(ps, other2, d)
    BY <1>0, <2>2, StaysAgreed
  <2> QED BY <2>3 DEF ps, other2
<1>4. j.kind # "again" /\ s.dropped = FALSE => Agree(f.pages, s2.other, d)
  <2> SUFFICES ASSUME j.kind # "again" /\ s.dropped = FALSE PROVE Agree(f.pages, s2.other, d)
    OBVIOUS
  <2>1. Agree(f.pages, s.other, c)
    BY DEF PagesInv
  <2> QED BY <1>0, <1>2, <2>1, StaysAgreed
<1> QED BY <1>0, <1>1, <1>3, <1>4 DEF PagesInv

LEMMA RowsIndexed == ASSUME FeedAssumption, FeedInv, ContentIndexed PROVE FeedInv'
<1>1. PICK root \in RootsOf(content) \cup {Len(content) + 1}, step \in 0..1 :
          LET at    == (IF content = <<>> THEN 1 ELSE Last(content).at) + step
              after == Append(content, [root |-> root, at |-> at, visible |-> TRUE])
          IN  content' = after /\ seen' = Noted(after, {root})
  BY DEF ContentIndexed
<1> DEFINE last == IF content = <<>> THEN 1 ELSE Last(content).at
           at == last + step
           d == Append(content, [root |-> root, at |-> at, visible |-> TRUE])
<1>2. content' = d /\ seen' = Noted(d, {root})
  BY <1>1
<1>3. feed' = feed /\ job' = job /\ asked' = asked
  BY DEF ContentIndexed
<1>4. GoodTable(content) /\ RecordsInv /\ PagesInv(feed, job, seen, content)
  BY DEF FeedInv, RecordsInv
<1>5. at \in Nat \ {0}
  <2>1. last \in Nat \ {0}
    <3>1. CASE content = <<>>
      BY <3>1
    <3>2. CASE content # <<>>
      <4>1. Len(content) \in 1..Len(content)
        <5>1. Len(content) \in Nat /\ Len(content) # 0
          BY <1>4, <3>2, TableFacts, EmptySeq DEF GoodTable
        <5> QED BY <5>1
      <4>2. content[Len(content)].at \in Nat \ {0}
        BY <1>4, <4>1, TableFacts
      <4> QED BY <3>2, <4>2 DEF Last
    <3> QED BY <3>1, <3>2
  <2> HIDE DEF last
  <2> QED BY <2>1
<1>6. Grows(content, d) /\ \A r \in Rows(content) : d[r].visible = content[r].visible
  <2> HIDE DEF at
  <2> QED BY <1>4, <1>5, AppendsRow
<1> HIDE DEF d
<1>7. {root} \in SUBSET Nat
  <2>1. RootsOf(content) \subseteq Nat /\ Len(content) \in Nat
    BY <1>4, TableFacts
  <2> QED BY <2>1
<1>8. /\ seen' \in SeenRecords
      /\ seen'.moved = seen.moved \cup MovedIn(content, d, feed.creator)
      /\ seen'.movedNext = seen.movedNext \cup MovedIn(content, d, feed.creator)
      /\ seen'.other = seen.other \cup {root} /\ seen'.otherNext = seen.otherNext \cup {root}
      /\ seen'.dropped = seen.dropped
  BY <1>2, <1>4, <1>6, <1>7, NotedRecord
<1>9. PagesInv(feed, job, seen', d)
  <2>1. NotedSince(seen, seen', content, d, feed.creator, {root})
    BY <1>6, <1>8 DEF NotedSince
  <2> QED BY <1>4, <1>6, <2>1, PagesStay
<1>10. RecordsInv'
  BY <1>2, <1>3, <1>4, <1>6, <1>8 DEF RecordsInv, Grows
<1> QED BY <1>2, <1>3, <1>9, <1>10 DEF FeedInv

LEMMA TogglesElsewhere == ASSUME FeedAssumption, FeedInv, ToggledElsewhere PROVE FeedInv'
<1>1. PICK root \in RootsOf(content), visible \in BOOLEAN :
          LET after == WithVisible(content, root, visible)
          IN  content' = after /\ seen' = [Noted(after, {root}) EXCEPT !.toggles = @ + 1]
  BY DEF ToggledElsewhere
<1> DEFINE d == WithVisible(content, root, visible)
           s == Noted(d, {root})
<1>2. content' = d /\ seen' = [s EXCEPT !.toggles = @ + 1]
  BY <1>1
<1>3. feed' = feed /\ job' = job /\ asked' = asked
  BY DEF ToggledElsewhere
<1>4. GoodTable(content) /\ RecordsInv /\ PagesInv(feed, job, seen, content)
  BY DEF FeedInv, RecordsInv
<1>6. Grows(content, d) /\ \A r \in Rows(content) : content[r].root # root => d[r].visible = content[r].visible
  BY <1>4, ChangesVisible
<1> HIDE DEF d
<1>7. {root} \in SUBSET Nat
  <2>1. RootsOf(content) \subseteq Nat
    BY <1>4, TableFacts
  <2> QED BY <2>1
<1>8. /\ s \in SeenRecords
      /\ s.moved = seen.moved \cup MovedIn(content, d, feed.creator)
      /\ s.movedNext = seen.movedNext \cup MovedIn(content, d, feed.creator)
      /\ s.other = seen.other \cup {root} /\ s.otherNext = seen.otherNext \cup {root}
      /\ s.dropped = seen.dropped
  BY <1>4, <1>6, <1>7, NotedRecord
<1> HIDE DEF s
<1>9. /\ seen' \in SeenRecords /\ seen'.moved = s.moved /\ seen'.movedNext = s.movedNext
      /\ seen'.other = s.other /\ seen'.otherNext = s.otherNext /\ seen'.dropped = s.dropped
  <2>1. s.toggles + 1 \in Nat
    BY <1>8 DEF SeenRecords
  <2> QED BY <1>2, <1>8, <2>1 DEF SeenRecords
<1>10. PagesInv(feed, job, seen', d)
  <2>1. NotedSince(seen, seen', content, d, feed.creator, {root})
    BY <1>6, <1>8, <1>9 DEF NotedSince
  <2> QED BY <1>4, <1>6, <2>1, PagesStay
<1>11. RecordsInv'
  BY <1>2, <1>3, <1>4, <1>6, <1>9 DEF RecordsInv, Grows
<1> QED BY <1>2, <1>3, <1>10, <1>11 DEF FeedInv

LEMMA NoJobRecord ==
    /\ NoJob \in JobRecords /\ NoJob.kind = "none" /\ NoJob.got = <<>>
    /\ [kind |-> "again", got |-> <<>>] \in JobRecords
    /\ [kind |-> "next", got |-> <<>>] \in JobRecords
<1>1. <<>> \in Seq(Seq(FeedPosts))
  BY EmptySeq
<1> QED BY <1>1 DEF NoJob, JobRecords

\* A read of all pages that is under way may be given up, for the next page or for none.
LEMMA ReadGivesWay ==
    ASSUME FeedInv, seen' = [seen EXCEPT !.dropped = @ \/ job.kind = "again"],
           content' = content, feed' = feed, asked' = asked,
           job' \in JobRecords, job'.got = <<>>, job'.kind \in {"none", "next"},
           job'.kind = "next" => NextCursor(feed.pages) # 0
    PROVE  FeedInv'
<1>2. RecordsInv /\ PagesInv(feed, job, seen, content) /\ job \in JobRecords /\ seen \in SeenRecords
  BY DEF FeedInv, RecordsInv
<1> DEFINE dropped == seen.dropped \/ job.kind = "again"
<1>3. dropped \in BOOLEAN
  OBVIOUS
<1>4. dropped = FALSE => seen.dropped = FALSE /\ job.kind # "again"
  <2>1. seen.dropped \in BOOLEAN
    BY <1>2 DEF SeenRecords
  <2> QED BY <2>1
<1>5. /\ seen' \in SeenRecords /\ seen'.moved = seen.moved /\ seen'.movedNext = seen.movedNext
      /\ seen'.other = seen.other /\ seen'.otherNext = seen.otherNext /\ seen'.dropped = dropped
  <2>1. seen' = [seen EXCEPT !.dropped = dropped]
    OBVIOUS
  <2> HIDE DEF dropped
  <2> QED BY <1>2, <1>3, <2>1 DEF SeenRecords
<1> HIDE DEF dropped
<1>6. Whole(<<>>, seen'.movedNext, content, feed.creator) /\ Agree(<<>>, seen'.otherNext, content)
  BY NoPages
<1>7. PagesInv(feed, job', seen', content)
  <2>1. job.kind # "again" /\ seen.dropped = FALSE => Agree(feed.pages, seen.other, content)
    BY <1>2 DEF PagesInv
  <2>2. Whole(feed.pages, seen.moved, content, feed.creator)
    BY <1>2 DEF PagesInv
  <2> QED BY <1>4, <1>5, <1>6, <2>1, <2>2 DEF PagesInv
<1>8. RecordsInv'
  BY <1>2, <1>5 DEF RecordsInv
<1> QED BY <1>7, <1>8 DEF FeedInv

LEMMA FetchesNextPage == ASSUME FeedInv, FetchNextPage PROVE FeedInv'
<1>1. /\ NextCursor(feed.pages) # 0 /\ job' = [kind |-> "next", got |-> <<>>]
      /\ seen' = [seen EXCEPT !.dropped = @ \/ job.kind = "again"]
      /\ content' = content /\ feed' = feed /\ asked' = asked
  BY DEF FetchNextPage
<1>2. job' \in JobRecords /\ job'.kind = "next" /\ job'.got = <<>>
  BY <1>1, NoJobRecord
<1> QED BY <1>1, <1>2, ReadGivesWay

LEMMA ReadsFail == ASSUME FeedInv, ReadFails PROVE FeedInv'
<1>1. /\ job' = NoJob /\ seen' = [seen EXCEPT !.dropped = @ \/ job.kind = "again"]
      /\ content' = content /\ feed' = feed /\ asked' = asked
  BY DEF ReadFails
<1>2. job' \in JobRecords /\ job'.kind = "none" /\ job'.got = <<>>
  BY <1>1, NoJobRecord
<1> QED BY <1>1, <1>2, ReadGivesWay

LEMMA NextPageIsRead == ASSUME FeedAssumption, FeedInv, NextPageRead PROVE FeedInv'
<1> DEFINE all == Append(feed.pages, ListFeeds(content, feed.creator, NextCursor(feed.pages)))
<1>1. /\ job.kind = "next" /\ feed' = [feed EXCEPT !.pages = all] /\ job' = NoJob
      /\ content' = content /\ asked' = asked /\ seen' = seen
  BY DEF NextPageRead
<1>2. /\ RecordsInv /\ PagesInv(feed, job, seen, content) /\ GoodTable(content)
      /\ feed \in FeedRecords
  BY DEF FeedInv, RecordsInv
<1>3. Whole(feed.pages, seen.moved, content, feed.creator) /\ NextCursor(feed.pages) # 0
  BY <1>1, <1>2 DEF PagesInv
<1>4. Whole(all, seen.moved, content, feed.creator)
  BY <1>2, <1>3, NextPage
<1>5. seen.dropped = FALSE => Agree(all, seen.other, content)
  <2> SUFFICES ASSUME seen.dropped = FALSE PROVE Agree(all, seen.other, content)
    OBVIOUS
  <2>1. Agree(feed.pages, seen.other, content) /\ feed.pages \in Seq(Seq(FeedPosts))
    BY <1>1, <1>2 DEF PagesInv, FeedRecords
  <2> QED BY <1>2, <2>1, NextPageAgrees
<1> HIDE DEF all
<1>6. all \in Seq(Seq(FeedPosts))
  BY <1>4 DEF Whole, GoodPages
<1>7. feed' \in FeedRecords /\ feed'.pages = all /\ feed'.creator = feed.creator
  BY <1>1, <1>2, <1>6 DEF FeedRecords
<1>8. job' \in JobRecords /\ job'.kind = "none" /\ job'.got = <<>>
  BY <1>1, NoJobRecord
<1>9. Whole(<<>>, seen.movedNext, content, feed.creator) /\ Agree(<<>>, seen.otherNext, content)
  BY NoPages
<1>10. PagesInv(feed', job', seen, content)
  BY <1>4, <1>5, <1>7, <1>8, <1>9 DEF PagesInv
<1>11. RecordsInv'
  BY <1>1, <1>2, <1>7, <1>8 DEF RecordsInv
<1> QED BY <1>1, <1>10, <1>11 DEF FeedInv

LEMMA PagesAreReadAgain == ASSUME FeedAssumption, FeedInv, PageReadAgain PROVE FeedInv'
<1> DEFINE got == Append(job.got, ListFeeds(content, feed.creator, NextCursor(job.got)))
           moved == IF job.got = <<>> THEN {} ELSE seen.movedNext
           other == IF job.got = <<>> THEN {} ELSE seen.otherNext
           done == Len(got) >= Len(feed.pages) \/ NextCursor(got) = 0
<1>1. /\ job.kind = "again" /\ content' = content /\ asked' = asked
      /\ \/ /\ ~ done /\ job' = [job EXCEPT !.got = got]
            /\ seen' = [seen EXCEPT !.movedNext = moved, !.otherNext = other] /\ feed' = feed
         \/ /\ feed' = [feed EXCEPT !.pages = got] /\ job' = NoJob
            /\ seen' = [seen EXCEPT !.moved = moved, !.movedNext = {}, !.other = other, !.otherNext = {},
                                    !.dropped = FALSE]
  BY DEF PageReadAgain
<1>2. /\ RecordsInv /\ PagesInv(feed, job, seen, content) /\ GoodTable(content)
      /\ feed \in FeedRecords /\ job \in JobRecords /\ seen \in SeenRecords
  BY DEF FeedInv, RecordsInv
<1>3. moved \in SUBSET Nat /\ other \in SUBSET Nat
  BY <1>2 DEF SeenRecords
<1>4. /\ Whole(job.got, moved, content, feed.creator) /\ Agree(job.got, other, content)
      /\ (job.got = <<>> \/ NextCursor(job.got) # 0) /\ job.got \in Seq(Seq(FeedPosts))
  <2>1. job.got \in Seq(Seq(FeedPosts)) /\ (job.got = <<>> \/ NextCursor(job.got) # 0)
    BY <1>2 DEF JobRecords, PagesInv
  <2>2. CASE job.got = <<>>
    BY <2>1, <2>2, NoPages
  <2>3. CASE job.got # <<>>
    BY <1>2, <2>1, <2>3 DEF PagesInv
  <2> QED BY <2>2, <2>3
<1>5. Whole(got, moved, content, feed.creator)
  <2> HIDE DEF moved
  <2> QED BY <1>2, <1>4, NextPage
<1>6. Agree(got, other, content)
  <2> HIDE DEF other
  <2> QED BY <1>2, <1>4, NextPageAgrees
<1> HIDE DEF got, moved, other
<1>7. got \in Seq(Seq(FeedPosts))
  BY <1>5 DEF Whole, GoodPages
<1>8. CASE /\ ~ done /\ job' = [job EXCEPT !.got = got]
           /\ seen' = [seen EXCEPT !.movedNext = moved, !.otherNext = other] /\ feed' = feed
  <2>1. job' \in JobRecords /\ job'.kind = "again" /\ job'.got = got
    BY <1>1, <1>2, <1>7, <1>8 DEF JobRecords
  <2>2. /\ seen' \in SeenRecords /\ seen'.moved = seen.moved /\ seen'.movedNext = moved
        /\ seen'.other = seen.other /\ seen'.otherNext = other /\ seen'.dropped = seen.dropped
    BY <1>2, <1>3, <1>8 DEF SeenRecords
  <2>3. NextCursor(got) # 0
    BY <1>8
  <2>4. PagesInv(feed, job', seen', content)
    <3>1. Whole(feed.pages, seen.moved, content, feed.creator)
      BY <1>2 DEF PagesInv
    <3> QED BY <1>5, <1>6, <2>1, <2>2, <2>3, <3>1 DEF PagesInv
  <2>5. RecordsInv'
    BY <1>1, <1>2, <1>8, <2>1, <2>2 DEF RecordsInv
  <2> QED BY <1>1, <1>8, <2>4, <2>5 DEF FeedInv
<1>9. CASE /\ feed' = [feed EXCEPT !.pages = got] /\ job' = NoJob
           /\ seen' = [seen EXCEPT !.moved = moved, !.movedNext = {}, !.other = other, !.otherNext = {},
                                   !.dropped = FALSE]
  <2>1. job' \in JobRecords /\ job'.kind = "none" /\ job'.got = <<>>
    BY <1>9, NoJobRecord
  <2>2. /\ seen' \in SeenRecords /\ seen'.moved = moved /\ seen'.other = other
    BY <1>2, <1>3, <1>9 DEF SeenRecords
  <2>3. feed' \in FeedRecords /\ feed'.pages = got /\ feed'.creator = feed.creator
    BY <1>2, <1>7, <1>9 DEF FeedRecords
  <2>4. Whole(<<>>, seen'.movedNext, content, feed.creator) /\ Agree(<<>>, seen'.otherNext, content)
    BY NoPages
  <2>5. PagesInv(feed', job', seen', content)
    BY <1>5, <1>6, <2>1, <2>2, <2>3, <2>4 DEF PagesInv
  <2>6. RecordsInv'
    BY <1>1, <1>2, <2>1, <2>2, <2>3 DEF RecordsInv
  <2> QED BY <1>1, <2>5, <2>6 DEF FeedInv
<1> QED BY <1>1, <1>8, <1>9

LEMMA SpotsOfFeed ==
    ASSUME FeedAssumption, FeedInv, NEW s \in Spots(feed)
    PROVE  /\ s[1] \in 1..Len(feed.pages) /\ s[2] \in 1..Len(feed.pages[s[1]]) /\ s = <<s[1], s[2]>>
           /\ PostAt(feed, s) = feed.pages[s[1]][s[2]]
           /\ GoodPost(PostAt(feed, s), content, feed.creator)
<1>1. GoodPages(feed.pages, content, feed.creator)
  BY DEF FeedInv, PagesInv, Whole
<1>2. s \in (DOMAIN feed.pages) \X (1..PageSize) /\ s[2] \in DOMAIN feed.pages[s[1]]
  BY DEF Spots
<1>3. s[1] \in DOMAIN feed.pages /\ s = <<s[1], s[2]>>
  BY <1>2
<1>4. DOMAIN feed.pages = 1..Len(feed.pages) /\ DOMAIN feed.pages[s[1]] = 1..Len(feed.pages[s[1]])
  BY <1>1, <1>3, PagesOfPages
<1>5. GoodPost(feed.pages[s[1]][s[2]], content, feed.creator)
  BY <1>1, <1>2, <1>3, <1>4, PagesOfPages
<1> QED BY <1>2, <1>3, <1>4, <1>5 DEF PostAt

LEMMA HidesToggled == ASSUME FeedAssumption, FeedInv, ToggleHide PROVE FeedInv'
<1>1. PICK s \in Spots(feed) :
          asked' = [root |-> PostAt(feed, s).root, visible |-> ~ PostAt(feed, s).visible]
  BY DEF ToggleHide
<1>2. /\ feed.creator /\ seen' = [seen EXCEPT !.toggles = @ + 1]
      /\ content' = content /\ feed' = feed /\ job' = job
  BY DEF ToggleHide, OffersToggle
<1>3. RecordsInv /\ PagesInv(feed, job, seen, content) /\ seen \in SeenRecords /\ feed \in FeedRecords
  BY DEF FeedInv, RecordsInv
<1> DEFINE p == PostAt(feed, s)
<1>4. p.root \in Nat
  BY SpotsOfFeed DEF GoodPost, FeedPosts
<1>5. asked' \in AskedRecords
  <2> DEFINE v == ~ p.visible
  <2>1. v \in BOOLEAN
    OBVIOUS
  <2>2. asked' = [root |-> p.root, visible |-> v]
    BY <1>1
  <2> HIDE DEF p, v
  <2> QED BY <1>4, <2>1, <2>2 DEF AskedRecords
<1>6. /\ seen' \in SeenRecords /\ seen'.moved = seen.moved /\ seen'.movedNext = seen.movedNext
      /\ seen'.other = seen.other /\ seen'.otherNext = seen.otherNext /\ seen'.dropped = seen.dropped
  <2>1. seen.toggles + 1 \in Nat
    BY <1>3 DEF SeenRecords
  <2> QED BY <1>2, <1>3, <2>1 DEF SeenRecords
<1>7. feed.creator = TRUE
  <2>1. feed.creator \in BOOLEAN
    BY <1>3 DEF FeedRecords
  <2> QED BY <1>2, <2>1
<1>8. RecordsInv'
  BY <1>2, <1>3, <1>5, <1>6, <1>7 DEF RecordsInv
<1>9. PagesInv(feed, job, seen', content)
  BY <1>3, <1>6 DEF PagesInv
<1> QED BY <1>2, <1>8, <1>9 DEF FeedInv

LEMMA NoRequestRecord == NoRequest \in AskedRecords
BY DEF NoRequest, AskedRecords

LEMMA TogglesAnswered == ASSUME FeedAssumption, FeedInv, ToggleAnswered PROVE FeedInv'
<1> DEFINE d == WithVisible(content, asked.root, asked.visible)
<1>1. /\ content' = d /\ seen' = Noted(d, {}) /\ asked' = NoRequest /\ feed' = feed
      /\ job' = [kind |-> "again", got |-> <<>>]
  BY DEF ToggleAnswered
<1>2. /\ RecordsInv /\ PagesInv(feed, job, seen, content) /\ GoodTable(content)
      /\ feed \in FeedRecords /\ asked \in AskedRecords
  BY DEF FeedInv, RecordsInv
<1>3. asked.visible \in BOOLEAN
  BY <1>2 DEF AskedRecords
<1>4. Grows(content, d)
  BY <1>2, <1>3, ChangesVisible
<1> HIDE DEF d
<1>5. seen' \in SeenRecords /\ seen'.moved = seen.moved \cup MovedIn(content, d, feed.creator)
  BY <1>1, <1>2, <1>4, NotedRecord
<1>6. Whole(feed.pages, seen'.moved, d, feed.creator)
  <2>1. Whole(feed.pages, seen.moved, content, feed.creator)
    BY <1>2 DEF PagesInv
  <2> QED BY <1>4, <1>5, <2>1, StaysWhole
<1>7. job' \in JobRecords /\ job'.kind = "again" /\ job'.got = <<>>
  BY <1>1, NoJobRecord
<1>8. Whole(<<>>, seen'.movedNext, d, feed.creator) /\ Agree(<<>>, seen'.otherNext, d)
  BY NoPages
<1>9. PagesInv(feed, job', seen', d)
  BY <1>6, <1>7, <1>8 DEF PagesInv
<1>10. RecordsInv'
  <2>1. GoodTable(d)
    BY <1>4 DEF Grows
  <2> QED BY <1>1, <1>2, <1>5, <1>7, <2>1, NoRequestRecord DEF RecordsInv
<1> QED BY <1>1, <1>9, <1>10 DEF FeedInv

LEMMA TogglesFail == ASSUME FeedAssumption, FeedInv, ToggleFails PROVE FeedInv'
<1> DEFINE d == WithVisible(content, asked.root, asked.visible)
           s == Noted(d, {asked.root})
<1>1. /\ asked' = NoRequest /\ feed' = feed /\ job' = job
      /\ (content' = content /\ seen' = seen) \/ (content' = d /\ seen' = s)
  BY DEF ToggleFails
<1>2. /\ GoodTable(content) /\ RecordsInv /\ PagesInv(feed, job, seen, content)
      /\ asked.root \in Nat /\ asked.visible \in BOOLEAN
  BY DEF FeedInv, RecordsInv, AskedRecords
<1>3. CASE content' = content /\ seen' = seen
  <2>1. RecordsInv'
    BY <1>1, <1>2, <1>3, NoRequestRecord DEF RecordsInv
  <2> QED BY <1>1, <1>2, <1>3, <2>1 DEF FeedInv
<1>4. CASE content' = d /\ seen' = s
  <2>1. /\ Grows(content, d)
        /\ \A r \in Rows(content) : content[r].root # asked.root => d[r].visible = content[r].visible
    BY <1>2, ChangesVisible
  <2> HIDE DEF d
  <2>2. {asked.root} \in SUBSET Nat
    BY <1>2
  <2>3. /\ s \in SeenRecords
        /\ s.moved = seen.moved \cup MovedIn(content, d, feed.creator)
        /\ s.movedNext = seen.movedNext \cup MovedIn(content, d, feed.creator)
        /\ s.other = seen.other \cup {asked.root} /\ s.otherNext = seen.otherNext \cup {asked.root}
        /\ s.dropped = seen.dropped
    BY <1>2, <2>1, <2>2, NotedRecord
  <2> HIDE DEF s
  <2>4. PagesInv(feed, job, s, d)
    <3>1. NotedSince(seen, s, content, d, feed.creator, {asked.root})
      BY <2>1, <2>3 DEF NotedSince
    <3> QED BY <1>2, <2>1, <3>1, PagesStay
  <2>5. RecordsInv'
    BY <1>1, <1>2, <1>4, <2>1, <2>3, NoRequestRecord DEF RecordsInv, Grows
  <2> QED BY <1>1, <1>4, <2>4, <2>5 DEF FeedInv
<1> QED BY <1>1, <1>3, <1>4

LEMMA FeedBegins == ASSUME FeedInit PROVE FeedInv
<1>1. GoodTable(content)
  <2>1. CASE content = <<>>
    <3>1. content \in Seq(TableRows) /\ Len(content) = 0
      BY <2>1, EmptySeq
    <3> QED BY <3>1 DEF GoodTable, Rows
  <2>2. ASSUME NEW t \in 1..2,
               content = [i \in 1..2 |-> [root |-> i, at |-> IF i = 1 THEN 1 ELSE t, visible |-> TRUE]]
        PROVE  GoodTable(content)
    <3>1. \A i \in 1..2 : content[i] \in TableRows /\ content[i].root = i
      <4>1. \A i \in 1..2 : i \in Nat /\ (IF i = 1 THEN 1 ELSE t) \in Nat \ {0}
        OBVIOUS
      <4> QED BY <2>2, <4>1 DEF TableRows
    <3>2. content \in [1..2 -> TableRows]
      BY <2>2, <3>1
    <3>3. content \in Seq(TableRows) /\ Len(content) = 2
      <4>1. \A f \in [1..2 -> TableRows] : f \in Seq(TableRows) /\ DOMAIN f = 1..2
        <5>1. \A S : \A n \in Nat : \A f \in [1..n -> S] : f \in Seq(S) /\ DOMAIN f = 1..n
          OBVIOUS
        <5>2. 2 \in Nat
          OBVIOUS
        <5> QED BY <5>1, <5>2
      <4>2. \A f \in Seq(TableRows) : DOMAIN f = 1..2 => Len(f) = 2
        <5>1. \A f \in Seq(TableRows) : Len(f) \in Nat /\ DOMAIN f = 1..Len(f)
          BY LenProperties
        <5>2. \A n \in Nat : 1..n = 1..2 => n = 2
          OBVIOUS
        <5> QED BY <5>1, <5>2
      <4> QED BY <3>2, <4>1, <4>2
    <3>4. \A i \in 1..2 : i \in 1..i
      OBVIOUS
    <3> QED BY <3>1, <3>3, <3>4 DEF GoodTable, Rows
  <2> QED BY <2>1, <2>2 DEF FeedInit
<1>2. PICK creator \in BOOLEAN : feed = [creator |-> creator, pages |-> <<>>]
  BY DEF FeedInit
<1>3. /\ job = [kind |-> "again", got |-> <<>>] /\ asked = NoRequest
      /\ seen = [moved |-> {}, movedNext |-> {}, other |-> {}, otherNext |-> {}, toggles |-> 0, dropped |-> FALSE]
  BY DEF FeedInit
<1>4. <<>> \in Seq(Seq(FeedPosts))
  BY EmptySeq
<1>5. feed \in FeedRecords /\ feed.pages = <<>>
  BY <1>2, <1>4 DEF FeedRecords
<1>6. job \in JobRecords /\ job.kind = "again" /\ job.got = <<>>
  BY <1>3, NoJobRecord
<1>7. seen \in SeenRecords
  BY <1>3 DEF SeenRecords
<1>8. /\ Whole(<<>>, seen.moved, content, feed.creator) /\ Whole(<<>>, seen.movedNext, content, feed.creator)
      /\ Agree(<<>>, seen.otherNext, content)
  BY NoPages
<1>9. RecordsInv
  BY <1>1, <1>3, <1>5, <1>6, <1>7, NoRequestRecord DEF RecordsInv
<1>10. PagesInv(feed, job, seen, content)
  BY <1>5, <1>6, <1>8 DEF PagesInv
<1> QED BY <1>9, <1>10 DEF FeedInv

\* The inductive invariant of the feed: the pages on the screen, and those read again,
\* are whole for the roots that kept their place.
THEOREM FeedAlways == FeedSpec => []FeedInv
<1> USE FeedAssumption
<1>1. FeedInit => FeedInv
  BY FeedBegins
<1>2. FeedInv /\ [FeedNext]_feedVars => FeedInv'
  <2> SUFFICES ASSUME FeedInv, [FeedNext]_feedVars PROVE FeedInv'
    OBVIOUS
  <2>1. CASE FeedNext
    BY <2>1, RowsIndexed, TogglesElsewhere, FetchesNextPage, NextPageIsRead, PagesAreReadAgain,
       ReadsFail, HidesToggled, TogglesAnswered, TogglesFail DEF FeedNext
  <2>2. CASE UNCHANGED feedVars
    <3>1. content' = content /\ feed' = feed /\ job' = job /\ asked' = asked /\ seen' = seen
      BY <2>2 DEF feedVars
    <3>2. RecordsInv'
      BY <3>1 DEF FeedInv, RecordsInv
    <3> QED BY <3>1, <3>2 DEF FeedInv
  <2> QED BY <2>1, <2>2
<1> QED BY <1>1, <1>2, PTL DEF FeedSpec

-----------------------------------------------------------------------------
(* What the reader sees.                                                     *)

\* Types of the feed; a post on the screen is of a version its reader may see.
THEOREM FeedTypeCorrect == FeedSpec => []FeedTypeOK
<1> USE FeedAssumption
<1>1. FeedInv => FeedTypeOK
  <2> SUFFICES ASSUME FeedInv PROVE FeedTypeOK
    OBVIOUS
  <2>1. RecordsInv /\ PagesInv(feed, job, seen, content) /\ GoodTable(content) /\ job \in JobRecords
        /\ feed \in FeedRecords
    BY DEF FeedInv, RecordsInv
  <2>2. \A r \in Rows(content) : /\ content[r].root \in 1..r /\ content[r].at \in Nat
                                 /\ content[r].visible \in BOOLEAN
    <3>1. \A r \in Rows(content) : content[r] \in TableRows /\ content[r].root \in 1..r
      BY <2>1, TableFacts
    <3> QED BY <3>1 DEF TableRows
  <2>3. \A s \in Spots(feed) :
            /\ PostAt(feed, s).root \in RootsOf(content)
            /\ PostAt(feed, s).latest \in Versions(content, PostAt(feed, s).root)
            /\ PostAt(feed, s).visible = TRUE \/ feed.creator = TRUE
    <3> SUFFICES ASSUME NEW s \in Spots(feed)
                 PROVE  /\ PostAt(feed, s).root \in RootsOf(content)
                        /\ PostAt(feed, s).latest \in Versions(content, PostAt(feed, s).root)
                        /\ PostAt(feed, s).visible = TRUE \/ feed.creator = TRUE
      OBVIOUS
    <3>1. GoodPost(PostAt(feed, s), content, feed.creator)
      BY SpotsOfFeed
    <3>2. feed.creator \in BOOLEAN
      BY <2>1 DEF FeedRecords
    <3> QED BY <3>1, <3>2 DEF GoodPost
  <2>4. job.kind \in {"none", "next", "again"} /\ (job.kind # "again" => job.got = <<>>)
    BY <2>1 DEF JobRecords, PagesInv
  <2>5. asked # NoRequest => feed.creator = TRUE
    BY <2>1 DEF RecordsInv
  <2> QED BY <2>2, <2>3, <2>4, <2>5 DEF FeedTypeOK
<1> QED BY <1>1, FeedAlways, PTL

\* A root whose time stayed is at one spot.
LEMMA OneSpot ==
    ASSUME FeedAssumption, FeedInv, NEW s \in Spots(feed), NEW t \in Spots(feed),
           PostAt(feed, s).root = PostAt(feed, t).root, PostAt(feed, s).root \notin seen.moved
    PROVE  s = t
<1> DEFINE ps == feed.pages
           r == PostAt(feed, s).root
           at == RootAt(content, feed.creator, r)
<1>1. /\ s[1] \in 1..Len(ps) /\ s[2] \in 1..Len(ps[s[1]]) /\ s = <<s[1], s[2]>>
      /\ PostAt(feed, s) = ps[s[1]][s[2]]
  BY SpotsOfFeed
<1>2. /\ t[1] \in 1..Len(ps) /\ t[2] \in 1..Len(ps[t[1]]) /\ t = <<t[1], t[2]>>
      /\ PostAt(feed, t) = ps[t[1]][t[2]]
  BY SpotsOfFeed
<1>3. /\ GoodPages(ps, content, feed.creator) /\ Descend(ps)
      /\ TimesHold(ps, seen.moved, content, feed.creator)
  BY DEF FeedInv, PagesInv, Whole
<1>4. ps[s[1]][s[2]].rootAt = at /\ ps[t[1]][t[2]].rootAt = at
  BY <1>1, <1>2, <1>3 DEF TimesHold
<1> HIDE DEF ps, r, at
\* A later page is below every post of an earlier one.
<1>5. ASSUME NEW k \in 1..Len(ps), NEW l \in 1..Len(ps), k < l,
             NEW i \in 1..Len(ps[k]), NEW j \in 1..Len(ps[l]), ps[k][i].rootAt = ps[l][j].rootAt
      PROVE  FALSE
  <2>1. Len(ps) \in Nat /\ PageSize \in Nat \ {0} /\ Len(ps[k]) \in Nat /\ Len(ps[k]) <= PageSize
    BY <1>3, PagesOfPages
  <2>2. Full(ps[k]) /\ PageSize \in 1..Len(ps[k])
    <3>1. k < Len(ps)
      BY <1>5, <2>1
    <3>2. Full(ps[k])
      BY <1>3, <3>1 DEF GoodPages
    <3> QED BY <1>3, <3>2, PagesOfPages
  <2>3. ps[l][j].rootAt < ps[k][PageSize].rootAt
    BY <1>3, <1>5 DEF Descend
  <2>4. /\ ps[l][j].rootAt \in Nat /\ ps[k][PageSize].rootAt \in Nat /\ ps[k][i].rootAt \in Nat
    BY <1>3, <2>2, PagesOfPages
  <2>5. i = PageSize \/ i < PageSize
    BY <2>1
  <2>6. i = PageSize \/ ps[k][PageSize].rootAt <= ps[k][i].rootAt
    BY <1>3, <2>2, <2>5 DEF GoodPages, GoodPage
  <2> QED BY <1>5, <2>3, <2>4, <2>6
<1>6. s[1] = t[1]
  <2>1. s[1] \in Nat /\ t[1] \in Nat
    BY <1>1, <1>2
  <2>2. ~ (s[1] < t[1])
    BY <1>1, <1>2, <1>4, <1>5
  <2>3. ~ (t[1] < s[1])
    BY <1>1, <1>2, <1>4, <1>5
  <2> QED BY <2>1, <2>2, <2>3
<1>7. s[2] = t[2]
  <2> DEFINE g == ps[s[1]]
             i == s[2]
             j == t[2]
  <2>1. i \in 1..Len(g) /\ j \in 1..Len(g) /\ g[i].root = g[j].root
    BY <1>1, <1>2, <1>6
  <2>2. \A x, y \in 1..Len(g) : x < y => g[x].root # g[y].root
    BY <1>1, <1>3 DEF GoodPages, GoodPage
  <2>3. i \in Nat /\ j \in Nat
    BY <2>1
  <2> HIDE DEF g, i, j
  <2>4. i = j
    BY <2>1, <2>2, <2>3
  <2> QED BY <2>4 DEF i, j
<1> QED BY <1>1, <1>2, <1>6, <1>7

\* Whatever is published or hidden between the reads, no post is on the screen twice
\* unless its place in the list changed.
THEOREM AlwaysNothingTwice == FeedSpec => []NothingTwice
<1> USE FeedAssumption
<1>1. FeedInv => NothingTwice
  <2> SUFFICES ASSUME FeedInv, NEW root \in RootsOf(content) \ seen.moved
               PROVE  Cardinality(Shows(feed, root)) <= 1
    BY DEF NothingTwice
  <2> DEFINE S == Shows(feed, root)
  <2>1. \A s \in S : s \in Spots(feed) /\ PostAt(feed, s).root = root
    BY DEF Shows
  <2>2. \A s, t \in S : s = t
    BY <2>1, OneSpot
  <2> HIDE DEF S
  <2>3. CASE S = {}
    BY <2>3, FS_EmptySet DEF S
  <2>4. CASE S # {}
    <3>0. PICK s \in S : TRUE
      BY <2>4
    <3>1. S = {s}
      BY <2>2, <3>0
    <3>2. Cardinality(S) = 1
      BY <3>1, FS_Singleton
    <3> QED BY <3>2 DEF S
  <2> QED BY <2>3, <2>4
<1> QED BY <1>1, FeedAlways, PTL

\* A reader at the end of the feed has every post that kept its place, but those with
\* the time of the last post of a page.
THEOREM AlwaysNothingLeftOut == FeedSpec => []NothingLeftOut
<1> USE FeedAssumption
<1>1. FeedInv => NothingLeftOut
  <2> DEFINE ps == feed.pages
  <2> SUFFICES ASSUME FeedInv, ps # <<>>, NextCursor(ps) = 0, NEW root \in RootsOf(content) \ seen.moved,
                      RootAt(content, feed.creator, root) # 0
               PROVE  \/ Shows(feed, root) # {}
                      \/ \E i \in DOMAIN ps :
                           Len(ps[i]) = PageSize /\ Last(ps[i]).rootAt = RootAt(content, feed.creator, root)
    BY DEF NothingLeftOut
  <2> DEFINE at == RootAt(content, feed.creator, root)
  <2>1. GoodPages(ps, content, feed.creator) /\ CoversAll(ps, seen.moved, content, feed.creator)
    BY DEF FeedInv, PagesInv, Whole
  <2>2. Covers(ps, root, at)
    BY <2>1 DEF CoversAll
  <2>3. ~ Full(ps[Len(ps)])
    BY <2>1, CursorOfPages
  <2>4. /\ DOMAIN ps = 1..Len(ps) /\ PageSize \in Nat
        /\ \A k \in 1..Len(ps) : Len(ps[k]) <= PageSize /\ DOMAIN ps[k] = 1..Len(ps[k]) /\ Len(ps[k]) \in Nat
    BY <2>1, PagesOfPages
  <2> HIDE DEF at
  <2>5. CASE \E k \in 1..Len(ps) : \E i \in 1..Len(ps[k]) : ps[k][i].root = root
    <3>1. PICK k \in 1..Len(ps) : \E i \in 1..Len(ps[k]) : ps[k][i].root = root
      BY <2>5
    <3>2. PICK i \in 1..Len(ps[k]) : ps[k][i].root = root
      BY <3>1
    <3>3. i \in 1..PageSize
      BY <2>4
    <3> DEFINE s == <<k, i>>
    <3>4. s[1] = k /\ s[2] = i /\ s \in (DOMAIN ps) \X (1..PageSize)
      BY <2>4, <3>3
    <3>5. s \in Spots(feed)
      BY <2>4, <3>4 DEF Spots
    <3>6. PostAt(feed, s).root = root
      BY <3>2, <3>4 DEF PostAt
    <3> HIDE DEF s
    <3> QED BY <3>5, <3>6 DEF Shows
  <2>6. CASE \E k \in 1..Len(ps) : Full(ps[k]) /\ ps[k][PageSize].rootAt = at
    BY <2>4, <2>6 DEF Full, Last, at
  <2> QED BY <2>2, <2>3, <2>5, <2>6 DEF Covers
<1> QED BY <1>1, FeedAlways, PTL

\* A post at rest says of hiding what the table says, unless another page changed it
\* or the reader scrolled into the read that would have told.
THEOREM AlwaysToggledIsShown == FeedSpec => []ToggledIsShown
<1> USE FeedAssumption
<1>1. FeedInv => ToggledIsShown
  <2> SUFFICES ASSUME FeedInv, job = NoJob, ~ seen.dropped, NEW s \in Spots(feed),
                      PostAt(feed, s).root \notin seen.other
               PROVE  PostAt(feed, s).visible = content[PostAt(feed, s).latest].visible
    BY DEF ToggledIsShown
  <2>1. job.kind # "again" /\ seen.dropped = FALSE
    <3>1. seen.dropped \in BOOLEAN
      BY DEF FeedInv, RecordsInv, SeenRecords
    <3>2. job.kind = "none"
      BY NoJobRecord
    <3> QED BY <3>1, <3>2
  <2>2. Agree(feed.pages, seen.other, content)
    BY <2>1 DEF FeedInv, PagesInv
  <2>3. /\ s[1] \in 1..Len(feed.pages) /\ s[2] \in 1..Len(feed.pages[s[1]])
        /\ PostAt(feed, s) = feed.pages[s[1]][s[2]]
    BY SpotsOfFeed
  <2> QED BY <2>2, <2>3 DEF Agree
<1> QED BY <1>1, FeedAlways, PTL

-----------------------------------------------------------------------------
(* The lists of campaigns (CampaignList).                                  *)

ListPages == [Sections -> 1..MaxListPage]
Typed == [text : Searches, timer : BOOLEAN]
Sifts == [text : Searches, status : {"active", "all"}, verified : Sections \cup {"all"}, mine : BOOLEAN]

ListTypes ==
    /\ address \in ListPages /\ goal \in ListPages /\ localPages \in ListPages
    /\ search \in Typed /\ sift \in Sifts /\ remembered \in BOOLEAN
    /\ fits \in [Sections -> BOOLEAN] /\ overtaken \in BOOLEAN

\* The pages of the state are reset with the filters; of the address, the navigation
\* under way goes to the first page, or to the page a pager chose.
ListInv ==
    /\ ListTypes
    /\ remembered => sift.mine
    /\ sift.mine => \A l \in Sections : localPages[l] = 1 \/ fits[l]
    /\ ~ sift.mine /\ ~ overtaken =>
         goal["unverified"] = 1 \/ fits["unverified"] \/ goal["unverified"] # address["unverified"]

LEMMA FirstOfPages ==
    ASSUME CampaignListAssumption
    PROVE  /\ 1 \in 1..MaxListPage /\ FirstPages \in ListPages /\ \A l \in Sections : FirstPages[l] = 1
           /\ "unverified" \in Sections
BY DEF CampaignListAssumption, FirstPages, ListPages, Sections

\* The filters change, or the page is loaded with an address.
LEMMA PagesReset ==
    ASSUME CampaignListAssumption, ListTypes, address' \in ListPages,
           goal' = [address' EXCEPT !["unverified"] = 1], localPages' = FirstPages,
           search' \in Typed, sift' \in Sifts, remembered' \in BOOLEAN, remembered' => sift'.mine,
           fits' = [l \in Sections |-> FALSE], overtaken' = FALSE
    PROVE  ListInv'
<1>1. /\ goal' \in ListPages /\ goal'["unverified"] = 1 /\ localPages' \in ListPages
      /\ \A l \in Sections : localPages'[l] = 1
  <2>1. goal' \in ListPages /\ goal'["unverified"] = 1
    <3>1. address' \in ListPages /\ goal' = [address' EXCEPT !["unverified"] = 1]
      OBVIOUS
    <3>2. 1 \in 1..MaxListPage /\ "unverified" \in Sections
      BY FirstOfPages
    <3> QED BY <3>1, <3>2 DEF ListPages
  <2> QED BY <2>1, FirstOfPages
<1> QED BY <1>1 DEF ListInv, ListTypes

\* Nothing but what is typed, or its timer, changes.
LEMMA TypedOnly ==
    ASSUME ListInv, search' \in Typed,
           UNCHANGED <<address, goal, localPages, sift, remembered, fits, overtaken>>
    PROVE  ListInv'
BY DEF ListInv, ListTypes

LEMMA ListFilters ==
    ASSUME CampaignListAssumption, ListInv, NEW f \in Sifts, FiltersBecome(f), search' \in Typed,
           remembered' \in BOOLEAN, remembered' => f.mine
    PROVE  ListInv'
<1>1. ListTypes /\ address' = address /\ address' \in ListPages
  BY DEF ListInv, ListTypes, FiltersBecome
<1> QED BY <1>1, PagesReset DEF FiltersBecome, ResetPages

LEMMA TurnsList ==
    ASSUME CampaignListAssumption, ListInv, NEW l \in Sections, ChangeListPage(l)
    PROVE  ListInv'
<1>1. PICK p \in 1..MaxListPage :
        /\ p # ListPage(l)
        /\ IF sift.mine
           THEN /\ localPages' = [localPages EXCEPT ![l] = p]
                /\ fits' = [fits EXCEPT ![l] = TRUE]
                /\ UNCHANGED <<goal, overtaken>>
           ELSE /\ goal' = [address EXCEPT ![l] = p]
                /\ overtaken' = (overtaken \/ goal # address)
                /\ UNCHANGED <<localPages, fits>>
  BY DEF ChangeListPage
<1>2. UNCHANGED <<address, search, sift, remembered>> /\ ListTypes
  BY DEF ChangeListPage, ListInv
<1>3. CASE sift.mine
  <2>1. localPages' = [localPages EXCEPT ![l] = p] /\ fits' = [fits EXCEPT ![l] = TRUE] /\ UNCHANGED <<goal, overtaken>>
    BY <1>1, <1>3
  <2>2. localPages' \in ListPages /\ \A k \in Sections : k # l => localPages'[k] = localPages[k]
    <3>1. localPages \in ListPages
      BY <1>2 DEF ListTypes
    <3> QED BY <2>1, <3>1 DEF ListPages
  <2>3. fits' \in [Sections -> BOOLEAN] /\ fits'[l] /\ \A k \in Sections : k # l => fits'[k] = fits[k]
    BY <1>2, <2>1 DEF ListTypes
  <2>4. \A k \in Sections : localPages'[k] = 1 \/ fits'[k]
    <3> SUFFICES ASSUME NEW k \in Sections PROVE localPages'[k] = 1 \/ fits'[k]
      OBVIOUS
    <3>1. CASE k = l
      BY <2>3, <3>1
    <3>2. CASE k # l
      BY <1>3, <2>2, <2>3, <3>2 DEF ListInv
    <3> QED BY <3>1, <3>2
  <2> QED BY <1>2, <1>3, <2>1, <2>2, <2>3, <2>4 DEF ListInv, ListTypes
<1>4. CASE ~ sift.mine
  <2>1. /\ goal' = [address EXCEPT ![l] = p] /\ overtaken' = (overtaken \/ goal # address)
        /\ UNCHANGED <<localPages, fits>> /\ p # address[l]
    BY <1>1, <1>4 DEF ListPage
  <2>2. goal' \in ListPages /\ goal'[l] = p /\ \A k \in Sections : k # l => goal'[k] = address[k]
    <3>1. address \in ListPages
      BY <1>2 DEF ListTypes
    <3> QED BY <2>1, <3>1 DEF ListPages
  <2>3. ~ overtaken' => \/ goal'["unverified"] = 1 \/ fits'["unverified"]
                        \/ goal'["unverified"] # address'["unverified"]
    <3> SUFFICES ASSUME ~ overtaken'
                 PROVE  goal'["unverified"] = 1 \/ fits["unverified"] \/ goal'["unverified"] # address["unverified"]
      BY <1>2, <2>1
    <3>1. ~ overtaken /\ goal = address
      BY <2>1
    <3>2. CASE l = "unverified"
      BY <2>1, <2>2, <3>2
    <3>3. CASE l # "unverified"
      <4>1. goal'["unverified"] = address["unverified"]
        BY <2>2, <3>3, FirstOfPages
      <4>2. goal["unverified"] = 1 \/ fits["unverified"]
        BY <1>4, <3>1 DEF ListInv
      <4> QED BY <3>1, <4>1, <4>2
    <3> QED BY <3>2, <3>3
  <2>4. overtaken' \in BOOLEAN
    BY <2>1
  <2> QED BY <1>2, <1>4, <2>1, <2>2, <2>3, <2>4 DEF ListInv, ListTypes
<1> QED BY <1>3, <1>4

LEMMA AddressMoves == ASSUME CampaignListAssumption, ListInv, AddressChanges PROVE ListInv'
<1>1. /\ goal # address /\ address' = goal /\ UNCHANGED <<goal, search, sift, remembered, overtaken>>
      /\ localPages' = (IF sift.mine THEN localPages ELSE goal)
      /\ fits' = [l \in Sections |-> fits[l] \/ (~ sift.mine /\ goal[l] # address[l])]
  BY DEF AddressChanges
<1>2. /\ ListTypes /\ localPages' \in ListPages
  BY <1>1 DEF ListInv, ListTypes
<1>3. fits' \in [Sections -> BOOLEAN] /\ \A l \in Sections : fits'[l] = (fits[l] \/ (~ sift.mine /\ goal[l] # address[l]))
  BY <1>1
<1>4. sift.mine => \A l \in Sections : localPages'[l] = 1 \/ fits'[l]
  BY <1>1, <1>3 DEF ListInv
<1>5. ~ sift.mine /\ ~ overtaken => goal["unverified"] = 1 \/ fits'["unverified"]
  BY <1>3, FirstOfPages DEF ListInv
<1> QED BY <1>1, <1>2, <1>3, <1>4, <1>5 DEF ListInv, ListTypes

LEMMA ListStep == ASSUME CampaignListAssumption, ListInv, [ListNext]_listVars PROVE ListInv'
<1>0. /\ ListTypes /\ search \in Typed /\ sift \in Sifts /\ remembered \in BOOLEAN
  BY DEF ListInv, ListTypes
<1>1. CASE TypeSearch
  <2>1. PICK s \in Searches : search' = [text |-> s, timer |-> TRUE]
    BY <1>1 DEF TypeSearch
  <2>2. search' \in Typed
    BY <2>1 DEF Typed
  <2> QED BY <1>1, <2>2, TypedOnly DEF TypeSearch
<1>2. CASE DebounceEnds
  <2>1. search' \in Typed /\ search.text \in Searches /\ UNCHANGED remembered
    BY <1>0, <1>2 DEF DebounceEnds, Typed
  <2>2. CASE search.text = sift.text
    BY <1>2, <2>1, <2>2, TypedOnly DEF DebounceEnds
  <2>3. CASE search.text # sift.text
    <3>1. [sift EXCEPT !.text = search.text] \in Sifts /\ [sift EXCEPT !.text = search.text].mine = sift.mine
      BY <1>0, <2>1 DEF Sifts
    <3>2. FiltersBecome([sift EXCEPT !.text = search.text])
      BY <1>2, <2>3 DEF DebounceEnds
    <3>3. remembered' \in BOOLEAN /\ (remembered' => sift.mine)
      BY <1>0, <2>1 DEF ListInv
    <3> QED BY <2>1, <3>1, <3>2, <3>3, ListFilters
  <2> QED BY <2>2, <2>3
<1>3. CASE ChangeFilter
  <2>1. UNCHANGED <<search, remembered>> /\ (remembered => sift.mine)
    BY <1>3 DEF ChangeFilter, ListInv
  <2>2. ASSUME NEW s \in {"active", "all"}, FiltersBecome([sift EXCEPT !.status = s]) PROVE ListInv'
    <3>1. [sift EXCEPT !.status = s] \in Sifts /\ [sift EXCEPT !.status = s].mine = sift.mine
      BY <1>0 DEF Sifts
    <3> QED BY <1>0, <2>1, <2>2, <3>1, ListFilters
  <2>3. ASSUME NEW v \in Sections \cup {"all"}, FiltersBecome([sift EXCEPT !.verified = v]) PROVE ListInv'
    <3>1. [sift EXCEPT !.verified = v] \in Sifts /\ [sift EXCEPT !.verified = v].mine = sift.mine
      BY <1>0 DEF Sifts
    <3> QED BY <1>0, <2>1, <2>3, <3>1, ListFilters
  <2> QED BY <1>3, <2>2, <2>3 DEF ChangeFilter
<1>4. CASE ToggleMine
  <2>1. FiltersBecome([sift EXCEPT !.mine = ~ @]) /\ remembered' = ~ sift.mine /\ UNCHANGED search
    BY <1>4 DEF ToggleMine
  <2>2. sift.mine \in BOOLEAN
    BY <1>0 DEF Sifts
  <2>3. [sift EXCEPT !.mine = ~ @] \in Sifts /\ [sift EXCEPT !.mine = ~ @].mine = ~ sift.mine
    BY <1>0, <2>2 DEF Sifts
  <2>4. remembered' \in BOOLEAN /\ (remembered' => [sift EXCEPT !.mine = ~ @].mine)
    BY <2>1, <2>3
  <2> QED BY <1>0, <2>1, <2>3, <2>4, ListFilters
<1>5. ASSUME NEW mark \in BOOLEAN, NEW a \in ListPages, LoadWith(mark, a) PROVE ListInv'
  <2>1. search' \in Typed /\ sift' \in Sifts /\ remembered' = FALSE
    BY <1>5, CampaignListAssumption DEF LoadWith, Typed, Sifts, NoFilters, CampaignListAssumption
  <2> QED BY <1>0, <1>5, <2>1, PagesReset DEF LoadWith
<1>6. CASE Reload
  BY <1>0, <1>5, <1>6 DEF Reload, ListTypes
<1>7. CASE MyCampaigns
  BY <1>5, <1>7, FirstOfPages DEF MyCampaigns
<1>8. CASE UNCHANGED listVars
  BY <1>8 DEF listVars, ListInv, ListTypes
<1> QED BY <1>1, <1>2, <1>3, <1>4, <1>6, <1>7, <1>8, TurnsList, AddressMoves DEF ListNext

(* The inductive invariant of the campaign lists: pages are reset with the    *)
(* filters, or chosen under them.                                             *)
THEOREM ListAlways == ListSpec => []ListInv
<1>1. ListInit => ListInv
  <2> SUFFICES ASSUME ListInit PROVE ListInv
    OBVIOUS
  <2>1. /\ address \in ListPages /\ goal = [address EXCEPT !["unverified"] = 1] /\ localPages = FirstPages
    <3>1. {1, MaxListPage} \subseteq 1..MaxListPage
      BY CampaignListAssumption DEF CampaignListAssumption
    <3> QED BY <3>1 DEF ListInit, ListPages
  <2>2. goal \in ListPages /\ goal["unverified"] = 1 /\ localPages \in ListPages
    <3>1. 1 \in 1..MaxListPage /\ "unverified" \in Sections /\ FirstPages \in ListPages
      BY CampaignListAssumption, FirstOfPages
    <3> QED BY <2>1, <3>1 DEF ListPages
  <2>3. search \in Typed /\ sift \in Sifts /\ ~ sift.mine /\ fits \in [Sections -> BOOLEAN]
    BY CampaignListAssumption DEF ListInit, Typed, Sifts, NoFilters, CampaignListAssumption
  <2> QED BY <2>1, <2>2, <2>3 DEF ListInit, ListInv, ListTypes
<1>2. ListInv /\ [ListNext]_listVars => ListInv'
  BY CampaignListAssumption, ListStep
<1> QED BY <1>1, <1>2, PTL DEF ListSpec

(* Types of the campaign lists; the storage says "mine" only while the user's *)
(* own campaigns are shown.                                                   *)
THEOREM ListTypeCorrect == ListSpec => []ListTypeOK
<1>1. ListInv => ListTypeOK
  BY DEF ListInv, ListTypes, ListTypeOK, ListPages, Typed
<1> QED BY <1>1, ListAlways, PTL

(* New filters start a list at its first page, whatever was under way, unless *)
(* a pager overtook the reset.                                                *)
THEOREM AlwaysFirstPage == ListSpec => []NewFiltersFirstPage
<1>1. ListInv => NewFiltersFirstPage
  <2> SUFFICES ASSUME ListInv, goal = address, ~ overtaken, NEW l \in Sections, l = "unverified" \/ sift.mine
               PROVE  ListPage(l) = 1 \/ fits[l]
    BY DEF NewFiltersFirstPage
  <2> QED BY DEF ListInv, ListPage
<1> QED BY <1>1, ListAlways, PTL

-----------------------------------------------------------------------------
(* The viewer of images (ImageViewer).                                     *)

ImageLists == [post : Posts \cup {0}, len : Nat, whole : BOOLEAN]
Viewers == [isOpen : BOOLEAN, images : ImageLists, initialIndex : Nat, currentIndex : Nat,
            mobile : BOOLEAN, showControls : BOOLEAN]
Touches == [touchStart : BOOLEAN, touchEnd : Ways \cup {"none"}, down : BOOLEAN, way : Ways \cup {"none"},
            broken : BOOLEAN]
Clicks == [index : Nat, turned : BOOLEAN, same : BOOLEAN]

ViewerTypes == viewer \in Viewers /\ clicked \in Clicks /\ expanded \subseteq Posts

\* A viewer that was opened once keeps an index of its list, also while it is closed.
ShowsItsList ==
    /\ viewer.images.len = 0 => ~ viewer.isOpen
    /\ viewer.images.len # 0 => viewer.currentIndex < viewer.images.len
    /\ viewer.isOpen => dialog # "closed"

\* Between touches that were all ended nothing is remembered of them.
TouchesEnd ==
    /\ touch \in Touches /\ (touch.down => touch.touchStart /\ viewer.isOpen)
    /\ ~ touch.broken /\ ~ touch.down => touch.touchEnd = "none"
    /\ TapsDoNotTurn

ViewerInv ==
    /\ dialog \in {"none", "closed", "open"}
    /\ ViewerTypes /\ ShowsItsList /\ OpensAtTheClick /\ TouchesEnd

LEMMA ThumbnailsOfPosts ==
    ASSUME ViewerAssumption, NEW p \in Posts
    PROVE  Thumbnails(p) \in Nat \ {0} /\ ListOf(p) \in ImageLists /\ ListOf(p).len = Thumbnails(p)
<1>1. ImagesOf[p] \in Nat \ {0} /\ MaxDisplayed \in Nat \ {0}
  BY DEF ViewerAssumption, Posts
<1>2. Thumbnails(p) \in Nat \ {0}
  BY <1>1 DEF Thumbnails
<1>3. (p \in expanded) \in BOOLEAN
  OBVIOUS
<1> QED BY <1>2, <1>3 DEF ListOf, ImageLists

LEMMA Remainders == ASSUME NEW n \in Nat, NEW m \in Nat \ {0} PROVE n % m \in 0..(m - 1)
OBVIOUS

LEMMA TurnedIndex ==
    ASSUME ViewerTypes, viewer.images.len # 0
    PROVE  \A j \in {NextIndex(viewer.currentIndex), PrevIndex(viewer.currentIndex)} :
             j \in Nat /\ j < viewer.images.len
<1> DEFINE i == viewer.currentIndex
           m == viewer.images.len
<1>1. i \in Nat /\ m \in Nat \ {0}
  BY DEF ViewerTypes, Viewers, ImageLists
<1>2. NextIndex(i) = (i + 1) % m /\ PrevIndex(i) = (i + m - 1) % m
  BY DEF NextIndex, PrevIndex
<1> HIDE DEF i, m
<1>3. i + 1 \in Nat /\ i + m - 1 \in Nat
  BY <1>1
<1>4. (i + 1) % m \in 0..(m - 1) /\ (i + m - 1) % m \in 0..(m - 1)
  BY <1>1, <1>3, Remainders
<1>5. \A j \in 0..(m - 1) : j \in Nat /\ j < m
  BY <1>1
<1> QED BY <1>2, <1>4, <1>5 DEF i, m

\* The viewer stays open or closed on its list, and turns if its index is another.
LEMMA ViewerMoves ==
    ASSUME ViewerInv, viewer' \in Viewers, viewer'.images = viewer.images, clicked' \in Clicks,
           viewer'.isOpen = viewer.isOpen, clicked'.index = clicked.index, clicked'.same = clicked.same,
           clicked.turned => clicked'.turned, UNCHANGED <<expanded, dialog>>,
           viewer'.currentIndex # viewer.currentIndex =>
              clicked'.turned /\ viewer.isOpen /\ viewer'.currentIndex < viewer.images.len,
           TouchesEnd'
    PROVE  ViewerInv'
<1>1. ViewerTypes' /\ ShowsItsList'
  BY DEF ViewerInv, ViewerTypes, ShowsItsList
<1>2. OpensAtTheClick'
  BY DEF ViewerInv, OpensAtTheClick
<1> QED BY <1>1, <1>2 DEF ViewerInv

LEMMA ViewerClicked ==
    ASSUME ViewerAssumption, ViewerInv, HandleImageClick
    PROVE  ViewerInv'
<1>0. PICK p \in Posts : \E i \in 0..(Thumbnails(p) - 1) :
         /\ viewer' = [viewer EXCEPT !.isOpen = TRUE, !.images = ListOf(p), !.initialIndex = i,
                                     !.currentIndex = IndexFollows(ListOf(p), i),
                                     !.showControls = @ \/ viewer.mobile]
         /\ clicked' = [index |-> i, turned |-> FALSE,
                        same  |-> i = viewer.initialIndex /\ p \in expanded /\ viewer.images = ListOf(p)]
  BY DEF HandleImageClick
<1>1. PICK i \in 0..(Thumbnails(p) - 1) :
         /\ viewer' = [viewer EXCEPT !.isOpen = TRUE, !.images = ListOf(p), !.initialIndex = i,
                                     !.currentIndex = IndexFollows(ListOf(p), i),
                                     !.showControls = @ \/ viewer.mobile]
         /\ clicked' = [index |-> i, turned |-> FALSE,
                        same  |-> i = viewer.initialIndex /\ p \in expanded /\ viewer.images = ListOf(p)]
  BY <1>0
<1>2. ~ viewer.isOpen /\ dialog # "closed" /\ UNCHANGED <<expanded, dialog, touch>>
  BY DEF HandleImageClick
<1>3. viewer \in Viewers /\ expanded \subseteq Posts /\ ~ touch.down
  BY <1>2 DEF ViewerInv, ViewerTypes, TouchesEnd
<1>4. Thumbnails(p) \in Nat \ {0} /\ ListOf(p) \in ImageLists /\ ListOf(p).len = Thumbnails(p)
  BY ThumbnailsOfPosts
<1>5. i \in Nat /\ i < Thumbnails(p)
  BY <1>4
<1>6. IndexFollows(ListOf(p), i) \in Nat /\ IndexFollows(ListOf(p), i) < Thumbnails(p)
  <2>1. CASE i = viewer.initialIndex /\ ListOf(p) = viewer.images /\ ListOf(p).whole
    <3>1. IndexFollows(ListOf(p), i) = viewer.currentIndex
      BY <2>1 DEF IndexFollows
    <3>2. viewer.images.len # 0 /\ viewer.images.len = Thumbnails(p)
      BY <1>4, <2>1
    <3> QED BY <1>3, <3>1, <3>2 DEF ViewerInv, ShowsItsList, Viewers
  <2>2. CASE ~ (i = viewer.initialIndex /\ ListOf(p) = viewer.images /\ ListOf(p).whole)
    <3>1. IndexFollows(ListOf(p), i) = i
      BY <2>2 DEF IndexFollows
    <3> QED BY <1>5, <3>1
  <2> QED BY <2>1, <2>2
<1> DEFINE j == IndexFollows(ListOf(p), i)
           b == viewer.showControls \/ viewer.mobile
<1>7. viewer' \in Viewers /\ viewer'.isOpen /\ viewer'.images = ListOf(p) /\ viewer'.currentIndex = j
  <2>1. b \in BOOLEAN
    OBVIOUS
  <2>2. viewer' = [viewer EXCEPT !.isOpen = TRUE, !.images = ListOf(p), !.initialIndex = i,
                                 !.currentIndex = j, !.showControls = b]
    BY <1>1
  <2>3. j \in Nat
    BY <1>6
  <2> HIDE DEF b, j
  <2> QED BY <1>3, <1>4, <1>5, <2>1, <2>2, <2>3 DEF Viewers
<1>8. clicked' \in Clicks /\ clicked'.index = i
  <2> DEFINE s == i = viewer.initialIndex /\ p \in expanded /\ viewer.images = ListOf(p)
  <2>1. s \in BOOLEAN /\ clicked' = [index |-> i, turned |-> FALSE, same |-> s]
    BY <1>1
  <2> HIDE DEF s
  <2> QED BY <1>5, <2>1 DEF Clicks
<1>9. OpensAtTheClick'
  <2>1. clicked'.same <=> (i = viewer.initialIndex /\ p \in expanded /\ viewer.images = ListOf(p))
    BY <1>1
  <2>2. j # i => i = viewer.initialIndex /\ p \in expanded /\ viewer.images = ListOf(p)
    BY DEF IndexFollows, ListOf
  <2> HIDE DEF j
  <2> QED BY <1>7, <1>8, <2>1, <2>2 DEF OpensAtTheClick
<1>10. ShowsItsList'
  BY <1>2, <1>4, <1>6, <1>7 DEF ShowsItsList
<1>11. TouchesEnd'
  BY <1>2, <1>3 DEF ViewerInv, TouchesEnd, TapsDoNotTurn
<1> QED BY <1>2, <1>3, <1>7, <1>8, <1>9, <1>10, <1>11 DEF ViewerInv, ViewerTypes

LEMMA ViewerTouchEnds ==
    ASSUME ViewerInv, HandleTouchEnd
    PROVE  ViewerInv'
<1>1. touch.down /\ UNCHANGED <<expanded, dialog>> /\ touch \in Touches /\ viewer.isOpen
  BY DEF HandleTouchEnd, ViewerInv, TouchesEnd
<1>2. viewer \in Viewers /\ clicked \in Clicks /\ viewer.images.len # 0
  BY <1>1 DEF ViewerInv, ViewerTypes, ShowsItsList
<1>3. CASE touch.touchEnd = "none"
  <2>1. touch' = [touch EXCEPT !.down = FALSE] /\ UNCHANGED <<viewer, clicked>>
    BY <1>3 DEF HandleTouchEnd
  <2>2. TouchesEnd'
    BY <1>1, <1>3, <2>1 DEF TouchesEnd, Touches, TapsDoNotTurn
  <2> QED BY <1>1, <1>2, <2>1, <2>2, ViewerMoves
<1>4. CASE touch.touchEnd # "none"
  <2>1. /\ touch' = [touch EXCEPT !.down = FALSE, !.touchStart = FALSE, !.touchEnd = "none"]
        /\ viewer' = [viewer EXCEPT !.currentIndex = CASE touch.touchEnd = "left" -> NextIndex(@)
                                                       [] touch.touchEnd = "right" -> PrevIndex(@)
                                                       [] OTHER -> @]
        /\ clicked' = [clicked EXCEPT !.turned = @ \/ touch.touchEnd # "near"]
    BY <1>4 DEF HandleTouchEnd
  <2>2. TouchesEnd'
    BY <1>1, <2>1 DEF TouchesEnd, Touches, TapsDoNotTurn
  <2> DEFINE j == CASE touch.touchEnd = "left" -> NextIndex(viewer.currentIndex)
                    [] touch.touchEnd = "right" -> PrevIndex(viewer.currentIndex)
                    [] OTHER -> viewer.currentIndex
             t == clicked.turned \/ touch.touchEnd # "near"
  <2>3. touch.touchEnd = "near" => j = viewer.currentIndex
    OBVIOUS
  <2>4. touch.touchEnd # "near" => j \in {NextIndex(viewer.currentIndex), PrevIndex(viewer.currentIndex)}
    BY <1>1, <1>4 DEF Touches, Ways
  <2>5. t \in BOOLEAN /\ viewer' = [viewer EXCEPT !.currentIndex = j] /\ clicked' = [clicked EXCEPT !.turned = t]
    BY <2>1
  <2>6. (touch.touchEnd # "near" => t) /\ (clicked.turned => t)
    OBVIOUS
  <2> HIDE DEF j, t
  <2>7. viewer.currentIndex \in Nat
    BY <1>2 DEF Viewers
  <2>8. j \in Nat /\ (j # viewer.currentIndex => j < viewer.images.len /\ t)
    BY <1>2, <2>3, <2>4, <2>6, <2>7, TurnedIndex DEF ViewerInv
  <2>9. /\ viewer' \in Viewers /\ viewer'.images = viewer.images /\ viewer'.isOpen = viewer.isOpen
        /\ viewer'.currentIndex = j
    BY <1>2, <2>5, <2>8 DEF Viewers
  <2>10. clicked' \in Clicks /\ clicked'.index = clicked.index /\ clicked'.same = clicked.same /\ clicked'.turned = t
    BY <1>2, <2>5 DEF Clicks
  <2> QED BY <1>1, <2>2, <2>6, <2>8, <2>9, <2>10, ViewerMoves
<1> QED BY <1>3, <1>4

\* A step that moves the finger only.
LEMMA FingerMoves ==
    ASSUME ViewerInv, TouchesEnd', UNCHANGED <<expanded, dialog, viewer, clicked>>
    PROVE  ViewerInv'
BY DEF ViewerInv, ViewerTypes, ShowsItsList, OpensAtTheClick

LEMMA ViewerStep == ASSUME ViewerAssumption, ViewerInv, [ViewerNext]_viewerVars PROVE ViewerInv'
<1>0. viewer \in Viewers /\ clicked \in Clicks /\ touch \in Touches
  BY DEF ViewerInv, ViewerTypes, TouchesEnd
<1>1. CASE SeeMore
  <2>1. UNCHANGED <<dialog, viewer, touch, clicked>> /\ expanded' \subseteq Posts
    BY <1>1 DEF SeeMore, ViewerInv, ViewerTypes
  <2> QED BY <2>1 DEF ViewerInv, ViewerTypes, ShowsItsList, OpensAtTheClick, TouchesEnd, TapsDoNotTurn
<1>2. CASE HandleDialogOpenChange
  <2>1. /\ UNCHANGED <<expanded, viewer, touch, clicked>> /\ dialog' \in {"none", "closed", "open"}
        /\ viewer.isOpen => dialog' # "closed"
    BY <1>2 DEF HandleDialogOpenChange
  <2> QED BY <2>1 DEF ViewerInv, ViewerTypes, ShowsItsList, OpensAtTheClick, TouchesEnd, TapsDoNotTurn
<1>3. CASE Turn
  <2>1. PICK j \in {NextIndex(viewer.currentIndex), PrevIndex(viewer.currentIndex)} :
           viewer' = [viewer EXCEPT !.currentIndex = j]
    BY <1>3 DEF Turn
  <2>2. viewer.isOpen /\ clicked' = [clicked EXCEPT !.turned = TRUE] /\ UNCHANGED <<expanded, dialog, touch>>
    BY <1>3 DEF Turn
  <2>3. j \in Nat /\ j < viewer.images.len
    BY <2>2, TurnedIndex DEF ViewerInv, ShowsItsList
  <2>4. /\ viewer' \in Viewers /\ viewer'.images = viewer.images /\ viewer'.isOpen = viewer.isOpen
        /\ viewer'.currentIndex = j
    BY <1>0, <2>1, <2>3 DEF Viewers
  <2>5. clicked' \in Clicks /\ clicked'.index = clicked.index /\ clicked'.same = clicked.same /\ clicked'.turned
    BY <1>0, <2>2 DEF Clicks
  <2>6. TouchesEnd'
    BY <2>2, <2>4 DEF ViewerInv, TouchesEnd, TapsDoNotTurn
  <2> QED BY <2>2, <2>3, <2>4, <2>5, <2>6, ViewerMoves
<1>4. CASE HandleClose
  <2>1. /\ viewer' = [viewer EXCEPT !.isOpen = FALSE, !.showControls = FALSE]
        /\ touch' = [touch EXCEPT !.down = FALSE, !.broken = @ \/ touch.down]
        /\ UNCHANGED <<expanded, dialog, clicked>>
    BY <1>4 DEF HandleClose
  <2>2. /\ viewer' \in Viewers /\ viewer'.images = viewer.images /\ ~ viewer'.isOpen
        /\ viewer'.currentIndex = viewer.currentIndex
    BY <1>0, <2>1 DEF Viewers
  <2>3. /\ touch' \in Touches /\ ~ touch'.down /\ touch'.touchEnd = touch.touchEnd
        /\ touch'.broken = (touch.broken \/ touch.down)
    <3> DEFINE b == touch.broken \/ touch.down
    <3>1. b \in BOOLEAN /\ touch' = [touch EXCEPT !.down = FALSE, !.broken = b]
      BY <2>1
    <3> HIDE DEF b
    <3>2. touch' \in Touches /\ ~ touch'.down /\ touch'.touchEnd = touch.touchEnd /\ touch'.broken = b
      BY <1>0, <3>1 DEF Touches
    <3> QED BY <3>2 DEF b
  <2>4. TouchesEnd'
    BY <2>3 DEF ViewerInv, TouchesEnd, TapsDoNotTurn
  <2>5. ShowsItsList' /\ OpensAtTheClick'
    BY <2>1, <2>2 DEF ViewerInv, ShowsItsList, OpensAtTheClick
  <2> QED BY <2>1, <2>2, <2>4, <2>5 DEF ViewerInv, ViewerTypes
<1>5. ASSUME NEW b \in BOOLEAN, NEW m \in BOOLEAN, viewer' = [viewer EXCEPT !.mobile = m, !.showControls = b],
             UNCHANGED <<expanded, dialog, touch, clicked>>
      PROVE  ViewerInv'
  <2>1. /\ viewer' \in Viewers /\ viewer'.images = viewer.images /\ viewer'.isOpen = viewer.isOpen
        /\ viewer'.currentIndex = viewer.currentIndex
    BY <1>0, <1>5 DEF Viewers
  <2>2. TouchesEnd'
    BY <1>5, <2>1 DEF ViewerInv, TouchesEnd, TapsDoNotTurn
  <2> QED BY <1>0, <1>5, <2>1, <2>2, ViewerMoves
<1>6. CASE ToggleControls
  <2>1. viewer.mobile \in BOOLEAN /\ viewer.showControls \in BOOLEAN
    BY <1>0 DEF Viewers
  <2>2. viewer' = [viewer EXCEPT !.showControls = ~ @] /\ UNCHANGED <<expanded, dialog, touch, clicked>>
    BY <1>6 DEF ToggleControls
  <2> DEFINE b == ~ viewer.showControls
  <2>3. b \in BOOLEAN /\ viewer' = [viewer EXCEPT !.showControls = b]
    BY <2>2
  <2> HIDE DEF b
  <2>4. viewer' = [viewer EXCEPT !.mobile = viewer.mobile, !.showControls = b]
    BY <1>0, <2>3 DEF Viewers
  <2> QED BY <1>5, <2>1, <2>2, <2>3, <2>4
<1>7. CASE WindowResized
  <2> DEFINE b == viewer.showControls \/ (viewer.isOpen /\ ~ viewer.mobile)
             m == ~ viewer.mobile
  <2>1. b \in BOOLEAN /\ m \in BOOLEAN
    OBVIOUS
  <2>2. viewer' = [viewer EXCEPT !.mobile = m, !.showControls = b] /\ UNCHANGED <<expanded, dialog, touch, clicked>>
    BY <1>7 DEF WindowResized
  <2> HIDE DEF b, m
  <2> QED BY <1>5, <2>1, <2>2
<1>8. CASE HandleTouchStart
  <2>1. /\ touch' = [touch EXCEPT !.touchStart = TRUE, !.down = TRUE, !.way = "near"]
        /\ viewer.isOpen /\ ~ touch.down /\ UNCHANGED <<expanded, dialog, viewer, clicked>>
    BY <1>8 DEF HandleTouchStart
  <2>2. TouchesEnd'
    BY <1>0, <2>1 DEF ViewerInv, TouchesEnd, Touches, TapsDoNotTurn, Ways
  <2> QED BY <2>1, <2>2, FingerMoves
<1>9. CASE HandleTouchMove
  <2>1. PICK way \in Ways : touch' = [touch EXCEPT !.touchEnd = way, !.way = way]
    BY <1>9 DEF HandleTouchMove
  <2>2. touch.down /\ UNCHANGED <<expanded, dialog, viewer, clicked>>
    BY <1>9 DEF HandleTouchMove
  <2>3. TouchesEnd'
    BY <1>0, <2>1, <2>2 DEF ViewerInv, TouchesEnd, Touches, TapsDoNotTurn
  <2> QED BY <2>2, <2>3, FingerMoves
<1>10. CASE TouchCancelled
  <2>1. /\ touch' = [touch EXCEPT !.down = FALSE, !.broken = TRUE]
        /\ UNCHANGED <<expanded, dialog, viewer, clicked>>
    BY <1>10 DEF TouchCancelled
  <2>2. TouchesEnd'
    BY <1>0, <2>1 DEF ViewerInv, TouchesEnd, Touches, TapsDoNotTurn
  <2> QED BY <2>1, <2>2, FingerMoves
<1>11. CASE UNCHANGED viewerVars
  BY <1>11 DEF viewerVars, ViewerInv, ViewerTypes, ShowsItsList, OpensAtTheClick, TouchesEnd, TapsDoNotTurn
<1> QED BY <1>1, <1>2, <1>3, <1>4, <1>6, <1>7, <1>8, <1>9, <1>10, <1>11, ViewerClicked, ViewerTouchEnds DEF ViewerNext

(* The inductive invariant of the image viewer: an index of its list, and no  *)
(* memory of touches that were ended.                                         *)
THEOREM ViewerAlways == ViewerSpec => []ViewerInv
<1>1. ViewerInit => ViewerInv
  <2> SUFFICES ASSUME ViewerInit PROVE ViewerInv
    OBVIOUS
  <2>1. viewer \in Viewers /\ ~ viewer.isOpen /\ viewer.images.len = 0
    BY DEF ViewerInit, Viewers, ImageLists
  <2>2. touch \in Touches /\ ~ touch.down /\ touch.touchEnd = "none"
    BY DEF ViewerInit, Touches
  <2>3. clicked \in Clicks /\ expanded \subseteq Posts /\ dialog \in {"none", "closed", "open"}
    BY DEF ViewerInit, Clicks
  <2> QED BY <2>1, <2>2, <2>3 DEF ViewerInv, ViewerTypes, ShowsItsList, OpensAtTheClick, TouchesEnd, TapsDoNotTurn
<1>2. ViewerInv /\ [ViewerNext]_viewerVars => ViewerInv'
  BY ViewerAssumption, ViewerStep
<1> QED BY <1>1, <1>2, PTL DEF ViewerSpec

(* Types of the viewer; an open one shows one of its images.                  *)
THEOREM ViewerTypeCorrect == ViewerSpec => []ViewerTypeOK
<1>1. ViewerInv => ViewerTypeOK
  <2> SUFFICES ASSUME ViewerInv PROVE ViewerTypeOK
    OBVIOUS
  <2>1. /\ viewer.currentIndex \in Nat /\ viewer.images.len \in Nat /\ viewer.showControls \in BOOLEAN
        /\ viewer.mobile \in BOOLEAN /\ touch.touchEnd \in Ways \cup {"none"}
    BY DEF ViewerInv, ViewerTypes, TouchesEnd, Viewers, ImageLists, Touches
  <2>2. viewer.isOpen => viewer.currentIndex \in 0..(viewer.images.len - 1)
    BY <2>1 DEF ViewerInv, ShowsItsList
  <2> QED BY <2>1, <2>2 DEF ViewerInv, ViewerTypes, ShowsItsList, TouchesEnd, ViewerTypeOK
<1> QED BY <1>1, ViewerAlways, PTL

(* Until it turns, the viewer shows the image that was clicked, for any posts *)
(* and any lists it showed before.                                            *)
THEOREM AlwaysOpensAtTheClick == ViewerSpec => []OpensAtTheClick
<1>1. ViewerInv => OpensAtTheClick
  BY DEF ViewerInv
<1> QED BY <1>1, ViewerAlways, PTL

(* A tap turns no page, as long as every touch before it was ended.           *)
THEOREM TapsNeverTurn == ViewerSpec => []TapsDoNotTurn
<1>1. ViewerInv => TapsDoNotTurn
  BY DEF ViewerInv, TouchesEnd
<1> QED BY <1>1, ViewerAlways, PTL

==============================================================================
