---------------------------- MODULE MCRedEnvelope ----------------------------
(* Instances of RedEnvelope for TLC.                                       *)
EXTENDS RedEnvelope, TLC

(* Claimers are interchangeable.                                           *)
Interchangeable == Permutations(Users)

(* Starting point of the runs about claims and wallets: one envelope has been
   funded and published, as PublishEnvelopes and CommitBlock leave it, and the
   others do not exist yet.  Nothing reads how an envelope was split once it is
   published: a random split that comes out even is left to the even envelope. *)
CONSTANTS First, FirstTotal, FirstLimits
Published ==
    LET w == CHOOSE v \in Wallets : TRUE IN
    /\ \E limit \in FirstLimits, random \in BOOLEAN :
          envelopes = [e \in Envelopes |->
              [status |-> IF e = First THEN "PUBLISHED" ELSE "NONE",
               total |-> IF e = First THEN FirstTotal ELSE 0,
               limit |-> IF e = First THEN limit ELSE 0,
               count |-> 0, random |-> e = First /\ random, wallet |-> w, due |-> FALSE]]
    /\ claims = [e \in Envelopes |-> [u \in Users |-> [status |-> "NONE", amount |-> 0]]]
    /\ wallets = [v \in Wallets |-> IF v = w THEN "IN_USE" ELSE "NONE"]
    /\ \E split \in Splits(First) :
          /\ envelopes[First].random => split # EvenSplit(FirstTotal, envelopes[First].limit)
          /\ queue = [e \in Envelopes |-> IF e = First THEN split ELSE <<>>]
    /\ reserved = [e \in Envelopes |-> [u \in Users |-> NoReservation]]
    /\ balance = [v \in Wallets |-> IF v = w THEN FirstTotal * Multiplier ELSE 0]
    /\ mined = {}
    /\ sent = [e \in Envelopes |-> IF e = First THEN 1 ELSE 0]
    /\ taken = [e \in Envelopes |-> [u \in Users |-> 0]]
    /\ recent = {}
    /\ lost = [e \in Envelopes |-> [u \in Users |-> {}]]
    /\ held = {}
    /\ claiming = [e \in Envelopes |-> [u \in Users |-> "idle"]]
    /\ proc = [p \in Procs |-> Idle]
    /\ todo = {}
    /\ indexing = Idle
    /\ payouts = [e \in Envelopes |-> [u \in Users |-> 0]]
    /\ deposited = {First}
    /\ stuck = {}
(* Bounds of the runs.  Where owner requests run beside the job, they have ended
   when end_date passes and none starts later: what remains is the job alone
   with claims that come too late.                                           *)
RequestsInTime == \A e \in Envelopes, p \in Requests : envelopes'[e].due => proc'[p] = Idle
InTimeSpec == Init /\ [][Next /\ RequestsInTime]_vars
PublishedInTimeSpec == Published /\ [][Next /\ RequestsInTime]_vars

(* Where a second envelope follows on the wallet of the first, each transaction
   is committed before the next one is sent, and after the end of the second
   envelope nobody begins to claim it and its Redis keys stay: late claims and
   keys that run out come with the first envelope.                           *)
CalmAfterwards ==
    /\ mined' \subseteq mined \/ mined = {}
    /\ \A e \in {f \in Envelopes \ {First} : envelopes[f].due} :
          /\ \A u \in Users : claiming[e][u] = "idle" => claiming'[e][u] = "idle"
          /\ \A u \in Users : <<e, u>> \in held' => <<e, u>> \in held
          /\ queue'[e] = queue[e] /\ reserved'[e] = reserved[e]
FollowedLiveSpec == Published /\ [][Next /\ CalmAfterwards]_vars /\ Fairness
=============================================================================
