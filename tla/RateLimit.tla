----------------------------- MODULE RateLimit -----------------------------
(***************************************************************************)
(* app/ratelimit.py: a token bucket for each client, in an OrderedDict of  *)
(* bounded size.  _allow does not await, so each request is one step.      *)
(*                                                                         *)
(* Tokens are counted in sixtieths, so that a second adds PerMinute of     *)
(* them and all arithmetic is exact; the code's is in floats.  Requests    *)
(* come at whole seconds.                                                  *)
(***************************************************************************)
EXTENDS Integers, SequencesExt

CONSTANTS Clients,
          PerMinute,   \* RATE_LIMIT_PER_MINUTE
          BurstSetting,\* RATE_LIMIT_BURST
          MaxClients   \* buckets kept

ASSUME Limits ==
    /\ PerMinute \in Nat \ {0}
    /\ BurstSetting \in Nat
    /\ MaxClients \in Nat \ {0}

VARIABLES buckets,  \* the OrderedDict, first item first
          refused,  \* who was refused by the last step, if anyone
          excess    \* history: what the requests of a client exceed the rate
                    \* by, over the interval up to now for which that is most,
                    \* since its bucket was last dropped

vars == <<buckets, refused, excess>>

Token == 60

Burst == (IF BurstSetting < 1 THEN 1 ELSE BurstSetting) * Token

(* After so many seconds every bucket is full; time idle is not told apart *)
(* beyond that.                                                            *)
FullAfter == (Burst + PerMinute - 1) \div PerMinute

Bucket(c, tokens, idle) == [client |-> c, tokens |-> tokens, idle |-> idle]

TypeOK ==
    /\ \A i \in DOMAIN buckets :
            buckets[i] \in [client : Clients, tokens : 0 .. Burst, idle : 0 .. FullAfter]
    /\ \A i, j \in DOMAIN buckets : buckets[i].client = buckets[j].client => i = j
    /\ Len(buckets) <= MaxClients
    /\ refused \subseteq Clients
    /\ excess \in [Clients -> Nat]

Init ==
    /\ buckets = <<>>
    /\ refused = {}
    /\ excess = [c \in Clients |-> 0]

Known(c) == \E i \in DOMAIN buckets : buckets[i].client = c

Place(c) == CHOOSE i \in DOMAIN buckets : buckets[i].client = c

Others(c) == IF Known(c) THEN RemoveAt(buckets, Place(c)) ELSE buckets

(* Wrong on purpose: what has come in is not capped at the burst. *)
Uncapped(b) == b.tokens + b.idle * PerMinute

Refilled(b) == Min({Burst, b.tokens + b.idle * PerMinute})

(* A client without a bucket starts with a full one. *)
Tokens(c) == IF Known(c) THEN Refilled(buckets[Place(c)]) ELSE Burst

----------------------------------------------------------------------------
(* Wrong on purpose: one more bucket is kept than max_clients. *)
TooManyLate(all) == Len(all) > MaxClients + 1

TooMany(all) == Len(all) > MaxClients

(* The bucket goes to the end; the first is dropped if it is one too many. *)
Allow(c) ==
    LET all == Append(Others(c), Bucket(c, Tokens(c) - Token, 0)) IN
    /\ Tokens(c) >= Token
    /\ refused' = {}
    /\ \/ /\ ~TooMany(all)
          /\ buckets' = all
          /\ excess' = [excess EXCEPT ![c] = @ + Token]
       \/ /\ TooMany(all)
          /\ buckets' = Tail(all)
          /\ excess' = [excess EXCEPT ![c] = @ + Token, ![Head(all).client] = 0]

(* Wrong on purpose: a refused request is paid for too. *)
RefuseCharged(c) ==
    /\ Tokens(c) < Token
    /\ buckets' = Append(Others(c), Bucket(c, 0, 0))
    /\ refused' = {c}
    /\ UNCHANGED excess

(* The bucket is brought up to date and kept; nothing is trimmed here.     *)
Refuse(c) ==
    /\ Tokens(c) < Token
    /\ buckets' = Append(Others(c), Bucket(c, Tokens(c), 0))
    /\ refused' = {c}
    /\ UNCHANGED excess

(* A second passes. *)
Tick ==
    /\ buckets' = [i \in DOMAIN buckets |->
                    [buckets[i] EXCEPT !.idle = IF @ < FullAfter THEN @ + 1 ELSE @]]
    /\ refused' = {}
    /\ excess' = [c \in Clients |-> IF excess[c] > PerMinute THEN excess[c] - PerMinute ELSE 0]

Next ==
    \/ \E c \in Clients : Allow(c) \/ Refuse(c)
    \/ Tick

Spec == Init /\ [][Next]_vars

----------------------------------------------------------------------------
(* Properties. *)

(* No client gets more than RATE_LIMIT_BURST requests above the rate       *)
(* through in any interval, however it spaces them, for as long as its     *)
(* bucket is not dropped (ratelimit.py:40-52).                             *)
WithinRate == \A c \in Clients : excess[c] <= Burst

(* Nobody is refused who stays within the rate and the burst: refused      *)
(* requests cost nothing (ratelimit.py:44-47).                             *)
RefusedOnlyOverRate == \A c \in refused : excess[c] > Burst - Token
=============================================================================
