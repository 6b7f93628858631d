-------------------------- MODULE ChatConnection --------------------------
(***************************************************************************)
(* How the chat of a trading room is connected (the effect initChat of     *)
(* ChatSidebar) and what it shows.  Each change of the light client or of  *)
(* the other party's id ends the effect and starts it anew; a run of it    *)
(* that is waiting goes on, for only its first wait is followed by a look  *)
(* at isMounted.                                                           *)
(***************************************************************************)
EXTENDS Naturals, Sequences, FiniteSets, SequencesExt, FiniteSetsExt

CONSTANTS
    ChatRuns,      \* how often the effect may start in a run of the model
    ChatMessages,  \* how many messages are written in the channel
    ChatDays       \* the days they may be written on, 1..ChatDays

ASSUME ChatConstants == /\ ChatRuns \in Nat \ {0} /\ ChatDays \in Nat \ {0}
                        /\ ChatMessages \in Nat

VARIABLES
    chat,     \* the state and the refs of ChatSidebar; socket and channel name the run that set them
    inits,    \* the runs of the effect
    lines,    \* at the chat service: the sockets that are open, the runs that listen to theirs
    written,  \* the messages in the order they were written
    due,      \* <<run, message>>: deliveries on their way
    since     \* the messages from the other party that came while the sheet was closed (history)

chatVars == <<chat, inits, lines, written, due, since>>

RunIds == 1..ChatRuns
NoInit == [st |-> "none", seller |-> FALSE, live |-> FALSE, late |-> FALSE]
NewChat == [mounted |-> TRUE, client |-> FALSE, seller |-> FALSE, connected |-> FALSE,
            socket |-> 0, channel |-> 0, sheet |-> FALSE, unread |-> 0, thread |-> <<>>]

Started == {r \in RunIds : inits[r].st # "none"}
Waits == {"session", "socket", "channel"}

ChatInit ==
    /\ chat = NewChat
    /\ inits = [r \in RunIds |-> NoInit]
    /\ lines = [open |-> {}, listen |-> {}]
    /\ written = <<>> /\ due = {} /\ since = {}

----------------------------------------------------------------------------
(* The effect and its cleanup *)

\* The runs as the cleanup leaves them: one that still waits for more than the
\* session is past its look at isMounted and will go on.
Cleared == [r \in RunIds |->
              [inits[r] EXCEPT !.live = FALSE,
                               !.late = @ \/ (inits[r].live /\ inits[r].st \in Waits \ {"session"})]]
\* A variant that stops the listener alone.
ListenersStopped == [lines EXCEPT !.listen = @ \ {r \in RunIds : inits[r].live}]

\* The cleanup stops the listener of the run it belongs to, and whatever socket the ref holds.
Disconnected == [open |-> lines.open \ {chat.socket},
                 listen |-> lines.listen \ {r \in RunIds : inits[r].live}]

\* The effect starts again when the light client or the party's id has changed.
InitChat(client, seller) ==
    /\ IF client
       THEN /\ Cardinality(Started) < ChatRuns
            /\ inits' = [Cleared EXCEPT ![Cardinality(Started) + 1] =
                            [st |-> "session", seller |-> seller, live |-> TRUE, late |-> FALSE]]
       ELSE inits' = Cleared
    /\ lines' = Disconnected
    /\ chat' = [chat EXCEPT !.client = client, !.seller = seller]
    /\ UNCHANGED <<written, due, since>>

\* AppProvider has restored the light client, or a logout took it away.
LightClientChanges == chat.mounted /\ InitChat(~chat.client, chat.seller)

\* The offer or the order is loaded, and with it the other party's id.
SellerKnown == chat.mounted /\ ~chat.seller /\ InitChat(chat.client, TRUE)

Unmount ==
    /\ chat.mounted
    /\ inits' = Cleared /\ lines' = Disconnected
    /\ chat' = [chat EXCEPT !.mounted = FALSE]
    /\ UNCHANGED <<written, due, since>>

\* The session has been refreshed where it had to be; only here a run that was
\* cleared ends.
SessionReady(r) ==
    /\ inits[r].st = "session"
    /\ inits' = [inits EXCEPT ![r].st = IF inits[r].live THEN "socket" ELSE "failed"]
    /\ UNCHANGED <<chat, lines, written, due, since>>

\* A variant that says so before there is a channel.
SocketSaysConnected(r) ==
    /\ inits[r].st = "socket"
    /\ inits' = [inits EXCEPT ![r].st = "channel"]
    /\ lines' = [lines EXCEPT !.open = @ \cup {r}]
    /\ chat' = [chat EXCEPT !.socket = r, !.connected = TRUE]
    /\ UNCHANGED <<written, due, since>>

SocketConnected(r) ==
    /\ inits[r].st = "socket"
    /\ inits' = [inits EXCEPT ![r].st = "channel"]
    /\ lines' = [lines EXCEPT !.open = @ \cup {r}]
    /\ chat' = [chat EXCEPT !.socket = r]
    /\ UNCHANGED <<written, due, since>>

\* createDM and joinDMChannel are through.  A room whose other party is not
\* known yet asks for a channel with nobody, which is refused.
ChannelJoined(r) ==
    /\ inits[r].st = "channel" /\ inits[r].seller /\ r \in lines.open
    /\ inits' = [inits EXCEPT ![r].st = "online"]
    /\ lines' = [lines EXCEPT !.listen = @ \cup {r}]
    /\ chat' = [chat EXCEPT !.channel = r, !.connected = @ \/ inits[r].live]
    /\ UNCHANGED <<written, due, since>>

\* Any of the waits throws; the socket stays as it is.
InitFails(r) ==
    /\ inits[r].st \in Waits
    /\ inits' = [inits EXCEPT ![r].st = "failed"]
    /\ UNCHANGED <<chat, lines, written, due, since>>

----------------------------------------------------------------------------
(* Messages *)

\* Someone writes in the channel: it goes to every run that listens.
MessageWritten(from, day) ==
    /\ Len(written) < ChatMessages
    /\ written # <<>> => Last(written).day <= day
    /\ LET msg == [id |-> Len(written) + 1, from |-> from, day |-> day]
       IN /\ written' = Append(written, msg)
          /\ due' = due \cup {<<r, msg>> : r \in lines.listen \cap lines.open}
    /\ UNCHANGED <<chat, inits, lines, since>>

\* A variant without the look at message_id.
ShownAgain(thread, msg) == Append(thread, msg)
\* setMessages
Shown(thread, msg) == IF Contains(thread, msg) THEN thread ELSE Append(thread, msg)

\* onChannelMessage: a message shown already is not shown again, but counted.
OnChannelMessage(r, msg) ==
    /\ <<r, msg>> \in due /\ due' = due \ {<<r, msg>>}
    /\ IF r \in lines.listen
       THEN LET missed == msg.from = "peer" /\ ~chat.sheet
            IN /\ chat' = [chat EXCEPT !.thread = Shown(@, msg),
                                       !.unread = IF missed THEN @ + 1 ELSE @]
               /\ since' = IF missed THEN since \cup {msg} ELSE since
       ELSE UNCHANGED <<chat, since>>
    /\ UNCHANGED <<inits, lines, written>>

\* A variant that forgets to count from zero.
SheetOpensUncounted ==
    /\ chat.mounted
    /\ chat' = [chat EXCEPT !.sheet = ~@]
    /\ since' = {}
    /\ UNCHANGED <<inits, lines, written, due>>

\* setIsMobileOpen, with the effect that resets the badge.
SheetToggled ==
    /\ chat.mounted
    /\ chat' = [chat EXCEPT !.sheet = ~@, !.unread = IF chat.sheet THEN @ ELSE 0]
    /\ since' = {}
    /\ UNCHANGED <<inits, lines, written, due>>

\* How the thread is laid out: a divider for each day, a name above each group,
\* the avatar and the time below it.
ShowDateDivider(i) == i = 1 \/ chat.thread[i].day # chat.thread[i - 1].day
SenderChanges(i) == i = 1 \/ chat.thread[i].from # chat.thread[i - 1].from
IsFirstInGroup(i) == SenderChanges(i) \/ ShowDateDivider(i)
IsLastInGroup(i) ==
    \/ i = Len(chat.thread)
    \/ chat.thread[i + 1].from # chat.thread[i].from \/ chat.thread[i + 1].day # chat.thread[i].day

ChatNext ==
    \/ LightClientChanges \/ SellerKnown \/ Unmount \/ SheetToggled
    \/ \E r \in RunIds : SessionReady(r) \/ SocketConnected(r) \/ ChannelJoined(r) \/ InitFails(r)
    \/ \E from \in {"me", "peer"}, day \in 1..ChatDays : MessageWritten(from, day)
    \/ \E d \in due : OnChannelMessage(d[1], d[2])

ChatSpec == ChatInit /\ [][ChatNext]_chatVars

----------------------------------------------------------------------------

\* A run has been overtaken: it was cleared in the middle of connecting.
Overtaken == \E r \in RunIds : inits[r].late
Current == {r \in RunIds : inits[r].live}

\* Types of the state.
ChatTypeOK ==
    /\ chat.socket \in 0..ChatRuns /\ chat.channel \in 0..ChatRuns
    /\ \A f \in {chat.mounted, chat.client, chat.seller, chat.connected, chat.sheet} : f \in BOOLEAN
    /\ chat.unread \in 0..(ChatRuns * ChatMessages)
    /\ inits \in [RunIds -> [st : Waits \cup {"none", "online", "failed"}, seller : BOOLEAN,
                             live : BOOLEAN, late : BOOLEAN]]
    /\ lines \in [open : SUBSET RunIds, listen : SUBSET RunIds]
    /\ ToSet(chat.thread) \subseteq ToSet(written) /\ IsInjective(chat.thread)

\* Without an overtaken run, the refs, the open sockets and the listeners are
\* those of the run the page is about, and none is left behind by an earlier one
\* or by a page that is gone.
ChatFollowsTheRoom ==
    ~Overtaken =>
        /\ lines.open \cup lines.listen \subseteq Current
        /\ ~chat.mounted => lines.open = {}
        /\ \A r \in Current : inits[r].st = "online" =>
              chat.socket = r /\ chat.channel = r /\ r \in lines.open \cap lines.listen

\* A chat that says it is connected has a channel with the other party, also
\* after its first run asked for one too early.
ConnectedToTheParty ==
    /\ chat.connected => chat.channel # 0 /\ chat.socket # 0
    /\ chat.channel # 0 => inits[chat.channel].seller

\* The badge counts the other party's messages that came while the sheet was
\* closed, each once (two runs that both listen count twice).
UnreadIsCounted == ~Overtaken => chat.unread = IF chat.sheet THEN 0 ELSE Cardinality(since)

\* Whatever order days and senders come in, the name above a message and the
\* day over it are its own, and each group ends where the next begins.
GroupsAreOfOneSender ==
    \A i \in DOMAIN chat.thread :
        LET h == Max({j \in 1..i : IsFirstInGroup(j)})
        IN /\ chat.thread[h].from = chat.thread[i].from /\ chat.thread[h].day = chat.thread[i].day
           /\ IsLastInGroup(i) = (i = Len(chat.thread) \/ IsFirstInGroup(i + 1))

\* The chat is that of the room, from its socket to the messages it groups and
\* counts, while runs overtake each other and the page is opened and left.
ChatIsOfTheRoom ==
    ChatFollowsTheRoom /\ ConnectedToTheParty /\ UnreadIsCounted /\ GroupsAreOfOneSender
=============================================================================
