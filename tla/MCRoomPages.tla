----------------------------- MODULE MCRoomPages -----------------------------
(***************************************************************************)
(* The trading room, the chat beside it, the socket both listen to, and    *)
(* the forms that lead to it, in one model: a run follows one of them, and *)
(* the others stay as they are mounted. The state space is the sum of      *)
(* theirs.                                                                 *)
(***************************************************************************)
EXTENDS TradingRoom, ChatComposer, ChatConnection, RoomSocket, PaymentAccounts, EscrowTransfers

VARIABLE part   \* the part that is followed

roomPagesVars == <<part, roomVars, composerVars, chatVars, socketVars, accountVars, escrowVars>>

RoomParts == {"room", "composer", "chat", "socket", "accounts", "escrow"}

\* Where the parts that are not followed begin, of the places where they may.
RoomOfBuyer == party.side = "SELL" /\ party.creator
NoAccounts == \A b \in Banks : table[b] = NoRow
OfferToSell == deal.form = "offer" /\ deal.sells

RoomPagesInit ==
    /\ part \in RoomParts
    /\ RoomInit /\ ComposerInit /\ ChatInit /\ SocketInit /\ AccountsInit /\ EscrowInit
    /\ part # "room" => RoomOfBuyer
    /\ part # "accounts" => NoAccounts
    /\ part # "escrow" => OfferToSell

OfRoom ==
    \/ /\ part = "room" /\ RoomNext
       /\ UNCHANGED <<accountVars, escrowVars>>
    \/ /\ part = "accounts" /\ AccountsNext
       /\ UNCHANGED <<roomVars, escrowVars>>
    \/ /\ part = "escrow" /\ EscrowNext
       /\ UNCHANGED <<roomVars, accountVars>>

OfChat ==
    \/ /\ part = "composer" /\ ComposerNext
       /\ UNCHANGED <<chatVars, socketVars>>
    \/ /\ part = "chat" /\ ChatNext
       /\ UNCHANGED <<composerVars, socketVars>>
    \/ /\ part = "socket" /\ SocketNext
       /\ UNCHANGED <<composerVars, chatVars>>

RoomPagesNext ==
    /\ UNCHANGED part
    /\ \/ OfRoom /\ UNCHANGED <<composerVars, chatVars, socketVars>>
       \/ OfChat /\ UNCHANGED <<roomVars, accountVars, escrowVars>>

RoomPagesSpec == RoomPagesInit /\ [][RoomPagesNext]_roomPagesVars

\* What tells two states apart (the VIEW of the run): the part and its variables. The
\* others have the one value they begin with.
RoomFollowed ==
    <<part, CASE part = "room"   -> roomVars      [] part = "composer" -> composerVars
              [] part = "chat"   -> chatVars      [] part = "socket"   -> socketVars
              [] part = "escrow" -> escrowVars    [] part = "accounts" -> accountVars>>

-----------------------------------------------------------------------------
\* Types of the state of every part.
RoomPagesTypeOK ==
    /\ RoomTypeOK /\ ComposerTypeOK /\ ChatTypeOK /\ SocketTypeOK
    /\ AccountsTypeOK /\ EscrowTypeOK
==============================================================================
