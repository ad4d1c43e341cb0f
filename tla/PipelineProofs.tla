--------------------------- MODULE PipelineProofs ---------------------------
(***************************************************************************)
(* Proofs about Pipeline and the RateLimit in it, whatever the requests,   *)
(* the limits and the number of clients: log and response can be matched,  *)
(* the limiter is exact, and so is Vary.                                   *)
(*                                                                         *)
(* The limiter keeps tokens, its promise is about what it has granted.     *)
(* RInv joins the two: what a client has left, refilled, and what it has   *)
(* had above the rate are the burst together.                              *)
(***************************************************************************)
EXTENDS Pipeline, SequenceTheorems, TLAPS

(* What the limiter, or the layers within it, hand to the request context. *)
Inner(r) ==
    \/ r = Raised
    \/ \E status \in {200, 403, 409, 422, 429} : \E headers : r = Reply(status, headers)

LEMMA HandledIsInner == ASSUME NEW q \in Requests PROVE Inner(Handled(q))
  <1>1. q.result \in {"ok", "conflict", "violation", "raises"}
    BY PipelineConstants DEF Request
  <1>2. \/ Handled(q) = Raised
        \/ Handled(q) = Reply(403, <<>>)
        \/ Handled(q) = Reply(409, <<>>)
        \/ Handled(q) = Reply(422, <<>>)
        \/ Handled(q) = Reply(200, IF q.endpoint = "read" THEN <<<<"accept-encoding">>>> ELSE <<>>)
    BY <1>1 DEF Handled
  <1> QED BY <1>2 DEF Inner

LEMMA VaryKeepsInner ==
    ASSUME NEW r, NEW token, Inner(r), r # Raised
    PROVE  Inner(AddVary(r, token))
  <1>0. PICK status \in {200, 403, 409, 422, 429} : \E h : r = Reply(status, h)
    BY DEF Inner
  <1>1. PICK headers : r = Reply(status, headers)
    BY <1>0
  <1>2. \A h : [Reply(status, headers) EXCEPT !.headers = h] = Reply(status, h)
    BY DEF Reply
  <1>3. AddVary(r, token) =
            [Reply(status, headers) EXCEPT !.headers = <<Append(FlattenSeq(r.headers), token)>>]
    BY <1>1 DEF AddVary
  <1>4. AddVary(r, token) = Reply(status, <<Append(FlattenSeq(r.headers), token)>>)
    BY <1>2, <1>3, Zenon
  <1>5. \E h : AddVary(r, token) = Reply(status, h)
    BY <1>4, Zenon
  <1> QED BY <1>0, <1>5 DEF Inner

LEMMA LayersKeepInner == ASSUME NEW q \in Requests PROVE Inner(Shared(q, Encoded(q, Handled(q))))
  <1>1. Inner(Encoded(q, Handled(q)))
    BY HandledIsInner, VaryKeepsInner DEF Encoded
  <1> QED BY <1>1, VaryKeepsInner DEF Shared

(* One request: what is logged of it and what its client gets. *)
LEMMA AnswerMatches ==
    ASSUME NEW q, NEW r, Inner(r), Answer(q, r)
    PROVE  LogMatchesResponse'
  <1>1. /\ request' = q
        /\ line'.id = IdOf(q)
        /\ line'.status = IF r = Raised THEN 500 ELSE r.status
    BY DEF Answer, Logged
  <1>2. CASE r = Raised \/ q.id = "other"
    <2>1. response' = Reply(500, <<>>)
      BY <1>2 DEF Answer, Answered, WithContext
    <2> QED BY <1>1, <1>2, <2>1 DEF LogMatchesResponse, Reply, IdOf
  <1>3. CASE r # Raised /\ q.id # "other"
    <2>0. PICK status \in {200, 403, 409, 422, 429} : \E h : r = Reply(status, h)
      BY <1>3 DEF Inner
    <2>1. PICK headers : r = Reply(status, headers)
      BY <2>0
    <2>2. WithContext(q, r) = [status |-> status, headers |-> MergedVary(headers), id |-> IdOf(q)]
      BY <1>3, <2>1 DEF WithContext, Reply
    <2>3. WithContext(q, r) # Raised
      BY <2>2 DEF Raised, Reply
    <2>4. response' = [status |-> status, headers |-> MergedVary(headers), id |-> IdOf(q)]
      BY <2>2, <2>3 DEF Answer, Answered
    <2>5. r.status = status
      BY <2>1 DEF Reply
    <2> QED BY <1>1, <1>3, <2>4, <2>5 DEF LogMatchesResponse, IdOf
  <1> QED BY <1>2, <1>3

LEMMA InitMatches == PipelineInit => LogMatchesResponse
  BY DEF PipelineInit, LogMatchesResponse, Reply, IdOf, NoRequest

LEMMA StepMatches ==
    LogMatchesResponse /\ [PipelineNext]_pipelineVars => LogMatchesResponse'
  <1> SUFFICES ASSUME LogMatchesResponse, [PipelineNext]_pipelineVars
               PROVE  LogMatchesResponse'
    OBVIOUS
  <1>1. ASSUME NEW c \in Clients, NEW q \in Requests, Admit(c, q)
        PROVE  LogMatchesResponse'
    BY <1>1, LayersKeepInner, AnswerMatches DEF Admit
  <1>2. ASSUME NEW c \in Clients, NEW q \in Requests, TurnAway(c, q)
        PROVE  LogMatchesResponse'
    <2>1. Inner(Reply(429, <<>>))
      BY DEF Inner
    <2> QED BY <1>2, <2>1, AnswerMatches DEF TurnAway
  <1>3. CASE UNCHANGED <<request, response, line>>
    BY <1>3 DEF LogMatchesResponse, IdOf
  <1> QED BY <1>1, <1>2, <1>3 DEF PipelineNext, pipelineVars

(* For all requests: the id in the log is the client's own if there is     *)
(* one, the response has it unless it is a 500, and both tell one status   *)
(* unless the id cannot be encoded (middleware.py:28-70, main.py:127-162). *)
THEOREM LogAlwaysMatches == PipelineSpec => []LogMatchesResponse
  BY InitMatches, StepMatches, PTL DEF PipelineSpec

----------------------------------------------------------------------------
(* The rate limiter.  What a client is above the rate by and what is left  *)
(* in its bucket, brought up to date, add up to the burst at all times:    *)
(* that makes both of its promises hold.  The lemmas say what the buckets  *)
(* are worth after each of the operations on the OrderedDict, for any      *)
(* sequence of them.                                                       *)

BucketRow == [client : Clients, tokens : 0 .. Burst, idle : 0 .. FullAfter]

Shape(bs) ==
    /\ bs \in Seq(BucketRow)
    /\ \A i, j \in 1 .. Len(bs) : bs[i].client = bs[j].client => i = j

KnownIn(bs, c) == \E i \in DOMAIN bs : bs[i].client = c

TokensIn(bs, c) ==
    IF KnownIn(bs, c) THEN Refilled(bs[CHOOSE i \in DOMAIN bs : bs[i].client = c]) ELSE Burst

(* The same buckets for everybody but c. *)
SameBut(bs, new, c) ==
    \A b \in BucketRow : b.client # c =>
        ((\E i \in 1 .. Len(bs) : bs[i] = b) <=> (\E i \in 1 .. Len(new) : new[i] = b))

LEMMA Amounts ==
    /\ Burst \in Nat /\ Burst >= Token /\ Token = 60
    /\ FullAfter \in Nat /\ FullAfter * PerMinute >= Burst
    /\ PerMinute \in Nat \ {0} /\ MaxClients \in Nat \ {0}
<1>1. Burst \in Nat /\ Burst >= Token /\ Token = 60
  BY Limits DEF Burst, Token
<1>2. ASSUME NEW b \in Nat, NEW p \in Nat \ {0}
      PROVE  ((b + p - 1) \div p) \in Nat /\ ((b + p - 1) \div p) * p >= b
  BY Z3
<1>3. FullAfter \in Nat /\ FullAfter * PerMinute >= Burst
  <2> HIDE DEF Burst
  <2> QED BY <1>1, <1>2, Limits DEF FullAfter
<1> QED BY <1>1, <1>3, Limits

LEMMA RefilledIs ==
    ASSUME NEW b \in BucketRow
    PROVE  LET n == b.tokens + b.idle * PerMinute IN
           /\ n \in Nat
           /\ Refilled(b) = IF n <= Burst THEN n ELSE Burst
           /\ Refilled(b) \in 0 .. Burst
<1>1. b.tokens + b.idle * PerMinute \in Nat
  BY Amounts DEF BucketRow
<1>2. ASSUME NEW x \in Nat, NEW y \in Nat
      PROVE  Min({x, y}) = IF y <= x THEN y ELSE x
  BY DEF Min
<1> QED BY <1>1, <1>2, Amounts DEF Refilled

(* A client has one bucket, so what it has left is what that is worth.     *)
LEMMA TokensOf ==
    ASSUME NEW bs, Shape(bs), NEW i \in 1 .. Len(bs)
    PROVE  TokensIn(bs, bs[i].client) = Refilled(bs[i])
<1> DEFINE c == bs[i].client
           j == CHOOSE k \in DOMAIN bs : bs[k].client = c
<1>1. DOMAIN bs = 1 .. Len(bs)
  BY DEF Shape
<1>2. j \in DOMAIN bs /\ bs[j].client = c
  BY <1>1
<1>3. j = i
  BY <1>1, <1>2 DEF Shape
<1>4. KnownIn(bs, c)
  BY <1>1 DEF KnownIn
<1> QED BY <1>3, <1>4 DEF TokensIn

LEMMA SameButEffect ==
    ASSUME NEW bs, Shape(bs), NEW new, Shape(new), NEW c, SameBut(bs, new, c),
           NEW d \in Clients, d # c
    PROVE  TokensIn(new, d) = TokensIn(bs, d)
<1>1. DOMAIN bs = 1 .. Len(bs) /\ DOMAIN new = 1 .. Len(new)
  BY DEF Shape
<1>2. CASE KnownIn(bs, d)
  <2>1. PICK i \in 1 .. Len(bs) : bs[i].client = d
    BY <1>1, <1>2 DEF KnownIn
  <2>2. bs[i] \in BucketRow
    BY <2>1 DEF Shape
  <2>3. PICK k \in 1 .. Len(new) : new[k] = bs[i]
    BY <2>1, <2>2 DEF SameBut
  <2> QED BY <2>1, <2>3, TokensOf
<1>3. CASE ~KnownIn(bs, d)
  <2>1. ~KnownIn(new, d)
    <3> SUFFICES ASSUME NEW k \in 1 .. Len(new), new[k].client = d
                 PROVE  FALSE
      BY <1>1 DEF KnownIn
    <3>1. new[k] \in BucketRow
      BY DEF Shape
    <3> QED BY <1>1, <1>3, <3>1 DEF SameBut, KnownIn
  <2> QED BY <1>3, <2>1 DEF TokensIn
<1> QED BY <1>2, <1>3

LEMMA RemoveAtEffect ==
    ASSUME NEW S, NEW s \in Seq(S), NEW i \in 1 .. Len(s)
    PROVE  /\ RemoveAt(s, i) \in Seq(S)
           /\ Len(RemoveAt(s, i)) = Len(s) - 1
           /\ \A k \in 1 .. (Len(s) - 1) :
                RemoveAt(s, i)[k] = IF k < i THEN s[k] ELSE s[k + 1]
<1> DEFINE front == SubSeq(s, 1, i - 1)
           back == SubSeq(s, i + 1, Len(s))
<1>0. Len(s) \in Nat /\ i \in Nat
  OBVIOUS
<1>1. /\ front \in Seq(S) /\ Len(front) = i - 1
      /\ \A k \in 1 .. (i - 1) : front[k] = s[k]
  OBVIOUS
<1>2. /\ back \in Seq(S) /\ Len(back) = Len(s) - i
      /\ \A k \in 1 .. (Len(s) - i) : back[k] = s[k + i]
  OBVIOUS
<1>3. RemoveAt(s, i) = front \o back
  BY DEF RemoveAt
<1> HIDE DEF front, back
<1>4. front \o back \in Seq(S) /\ Len(front \o back) = Len(s) - 1
  BY <1>1, <1>2
<1>5. ASSUME NEW k \in 1 .. (Len(s) - 1)
      PROVE  (front \o back)[k] = IF k < i THEN s[k] ELSE s[k + 1]
  <2>1. (front \o back)[k] = IF k <= Len(front) THEN front[k] ELSE back[k - Len(front)]
    BY <1>1, <1>2, ConcatProperties
  <2>2. CASE k < i
    BY <1>1, <2>1, <2>2
  <2>3. CASE ~(k < i)
    <3>1. k - (i - 1) \in 1 .. (Len(s) - i) /\ k - (i - 1) + i = k + 1
      BY <1>0, <2>3
    <3> QED BY <1>1, <1>2, <2>1, <2>3, <3>1
  <2> QED BY <1>0, <2>2, <2>3
<1> QED BY <1>3, <1>4, <1>5

(* pop: c is out, nobody else is touched. *)
LEMMA OthersEffect ==
    ASSUME NEW bs, Shape(bs), NEW i \in 1 .. Len(bs), NEW c, bs[i].client = c
    PROVE  /\ Shape(RemoveAt(bs, i)) /\ Len(RemoveAt(bs, i)) = Len(bs) - 1
           /\ ~KnownIn(RemoveAt(bs, i), c)
           /\ SameBut(bs, RemoveAt(bs, i), c)
<1> DEFINE o == RemoveAt(bs, i)
<1>1. /\ o \in Seq(BucketRow) /\ Len(o) = Len(bs) - 1
      /\ \A k \in 1 .. (Len(bs) - 1) : o[k] = IF k < i THEN bs[k] ELSE bs[k + 1]
  BY RemoveAtEffect DEF Shape
<1> HIDE DEF o
<1>2. DOMAIN o = 1 .. Len(o) /\ Len(bs) \in Nat
  BY <1>1 DEF Shape
<1>3. Shape(o)
  BY <1>1, <1>2 DEF Shape
<1>4. ~KnownIn(o, c)
  BY <1>1, <1>2 DEF KnownIn, Shape
<1>5. ASSUME NEW b \in BucketRow, b.client # c
      PROVE  (\E k \in 1 .. Len(bs) : bs[k] = b) <=> (\E k \in 1 .. Len(o) : o[k] = b)
  <2>1. ASSUME NEW k \in 1 .. Len(bs), bs[k] = b
        PROVE  \E l \in 1 .. Len(o) : o[l] = b
    <3>1. k # i
      BY <1>5, <2>1
    <3>2. CASE k < i
      BY <1>1, <1>2, <2>1, <3>2
    <3>3. CASE k > i
      <4>1. k - 1 \in 1 .. Len(o) /\ ~(k - 1 < i) /\ (k - 1) + 1 = k
        BY <1>1, <1>2, <3>3
      <4> QED BY <1>1, <2>1, <4>1
    <3> QED BY <1>2, <3>1, <3>2, <3>3
  <2>2. ASSUME NEW l \in 1 .. Len(o), o[l] = b
        PROVE  \E k \in 1 .. Len(bs) : bs[k] = b
    BY <1>1, <1>2, <2>2
  <2> QED BY <2>1, <2>2
<1> QED BY <1>1, <1>3, <1>4, <1>5 DEF o, SameBut

(* The bucket put at the end. *)
LEMMA AppendEffect ==
    ASSUME NEW bs, Shape(bs), NEW b \in BucketRow, ~KnownIn(bs, b.client)
    PROVE  /\ Shape(Append(bs, b)) /\ Len(Append(bs, b)) = Len(bs) + 1
           /\ TokensIn(Append(bs, b), b.client) = Refilled(b)
           /\ SameBut(bs, Append(bs, b), b.client)
<1> DEFINE new == Append(bs, b)
<1>1. /\ new \in Seq(BucketRow) /\ Len(new) = Len(bs) + 1 /\ Len(bs) \in Nat
      /\ new[Len(bs) + 1] = b
      /\ \A k \in 1 .. Len(bs) : new[k] = bs[k]
  BY DEF Shape
<1> HIDE DEF new
<1>2. \A k \in 1 .. Len(bs) : bs[k].client # b.client
  BY DEF KnownIn, Shape
<1>3. Shape(new)
  BY <1>1, <1>2 DEF Shape
<1>4. TokensIn(new, b.client) = Refilled(b)
  <2>1. Len(bs) + 1 \in 1 .. Len(new)
    BY <1>1
  <2> QED BY <1>1, <1>3, <2>1, TokensOf
<1>5. SameBut(bs, new, b.client)
  BY <1>1 DEF SameBut
<1> QED BY <1>1, <1>3, <1>4, <1>5 DEF new

(* popitem(last=False): the first client starts afresh. *)
LEMMA TailEffect ==
    ASSUME NEW bs, Shape(bs), Len(bs) > 0
    PROVE  /\ Shape(Tail(bs)) /\ Len(Tail(bs)) = Len(bs) - 1
           /\ Head(bs).client \in Clients
           /\ TokensIn(Tail(bs), Head(bs).client) = Burst
           /\ SameBut(bs, Tail(bs), Head(bs).client)
<1> DEFINE new == Tail(bs)
<1>1. /\ new \in Seq(BucketRow) /\ Len(new) = Len(bs) - 1 /\ Len(bs) \in Nat
      /\ \A k \in 1 .. Len(new) : new[k] = bs[k + 1]
      /\ Head(bs) = bs[1] /\ bs[1] \in BucketRow
  BY DEF Shape
<1> HIDE DEF new
<1>2. Shape(new)
  BY <1>1 DEF Shape
<1>3. ~KnownIn(new, bs[1].client)
  BY <1>1, <1>2 DEF KnownIn, Shape
<1>4. ASSUME NEW b \in BucketRow, b.client # bs[1].client
      PROVE  (\E k \in 1 .. Len(bs) : bs[k] = b) <=> (\E k \in 1 .. Len(new) : new[k] = b)
  <2>1. ASSUME NEW k \in 1 .. Len(bs), bs[k] = b
        PROVE  \E l \in 1 .. Len(new) : new[l] = b
    <3>1. k # 1
      BY <1>4, <2>1
    <3>2. k - 1 \in 1 .. Len(new) /\ (k - 1) + 1 = k
      BY <1>1, <3>1
    <3> QED BY <1>1, <2>1, <3>2
  <2> QED BY <1>1, <2>1
<1> QED BY <1>1, <1>2, <1>3, <1>4 DEF new, SameBut, TokensIn, BucketRow

RInv ==
    /\ Shape(buckets)
    /\ Len(buckets) <= MaxClients
    /\ refused \subseteq Clients
    /\ excess \in [Clients -> Nat]
    /\ \A c \in Clients : excess[c] + TokensIn(buckets, c) = Burst
    /\ \A c \in refused : TokensIn(buckets, c) < Token

LEMMA TokensBounded ==
    ASSUME NEW bs, Shape(bs), NEW c
    PROVE  TokensIn(bs, c) \in 0 .. Burst
<1>1. CASE KnownIn(bs, c)
  <2>1. PICK i \in 1 .. Len(bs) : bs[i].client = c
    BY <1>1 DEF KnownIn, Shape
  <2>2. bs[i] \in BucketRow
    BY <2>1 DEF Shape
  <2> QED BY <2>1, <2>2, TokensOf, RefilledIs
<1>2. CASE ~KnownIn(bs, c)
  BY <1>2, Amounts DEF TokensIn
<1> QED BY <1>1, <1>2

LEMMA TokensHere == \A c : Tokens(c) = TokensIn(buckets, c)
  BY DEF Tokens, Known, Place, TokensIn, KnownIn

LEMMA OthersHere ==
    ASSUME Shape(buckets), NEW c
    PROVE  /\ Shape(Others(c)) /\ Len(Others(c)) \in Nat
           /\ Len(Others(c)) = Len(buckets) - (IF KnownIn(buckets, c) THEN 1 ELSE 0)
           /\ ~KnownIn(Others(c), c)
           /\ SameBut(buckets, Others(c), c)
<1>1. CASE KnownIn(buckets, c)
  <2>1. Place(c) \in 1 .. Len(buckets) /\ buckets[Place(c)].client = c
    BY <1>1 DEF KnownIn, Place, Shape
  <2>2. Others(c) = RemoveAt(buckets, Place(c))
    BY <1>1 DEF Others, Known, KnownIn
  <2>3. /\ Shape(Others(c)) /\ Len(Others(c)) = Len(buckets) - 1
        /\ ~KnownIn(Others(c), c) /\ SameBut(buckets, Others(c), c)
    BY <2>1, <2>2, OthersEffect
  <2> QED BY <1>1, <2>3 DEF Shape
<1>2. CASE ~KnownIn(buckets, c)
  <2>1. Others(c) = buckets
    BY <1>2 DEF Others, Known, KnownIn
  <2> QED BY <1>2, <2>1 DEF Shape, SameBut
<1> QED BY <1>1, <1>2

(* The bucket of c goes to the end with so many tokens and no idle time.   *)
LEMMA PutLast ==
    ASSUME Shape(buckets), NEW c \in Clients, NEW n \in 0 .. Burst
    PROVE  LET all == Append(Others(c), Bucket(c, n, 0)) IN
           /\ Shape(all)
           /\ Len(all) = Len(buckets) + (IF KnownIn(buckets, c) THEN 0 ELSE 1)
           /\ all[Len(all)].client = c
           /\ TokensIn(all, c) = n
           /\ \A d \in Clients \ {c} : TokensIn(all, d) = TokensIn(buckets, d)
<1> DEFINE b == Bucket(c, n, 0)
           all == Append(Others(c), b)
<1>1. b \in BucketRow /\ b.client = c /\ b.tokens = n /\ b.idle = 0
  BY Amounts DEF Bucket, BucketRow
<1>2. Refilled(b) = n
  <2>1. b.tokens + b.idle * PerMinute = n
    BY <1>1, Amounts
  <2> HIDE DEF b
  <2> QED BY <1>1, <2>1, RefilledIs, Amounts
<1> HIDE DEF b
<1>3. /\ Shape(Others(c)) /\ ~KnownIn(Others(c), c) /\ SameBut(buckets, Others(c), c)
      /\ Len(Others(c)) = Len(buckets) - (IF KnownIn(buckets, c) THEN 1 ELSE 0)
      /\ Len(Others(c)) \in Nat
  BY OthersHere
<1>4. /\ Shape(all) /\ Len(all) = Len(Others(c)) + 1
      /\ TokensIn(all, c) = n /\ SameBut(Others(c), all, c)
  BY <1>1, <1>2, <1>3, AppendEffect
<1>5. all[Len(all)].client = c
  BY <1>1, <1>3 DEF Shape
<1> HIDE DEF all
<1>6. SameBut(buckets, all, c)
  BY <1>3, <1>4 DEF SameBut
<1>7. \A d \in Clients \ {c} : TokensIn(all, d) = TokensIn(buckets, d)
  BY <1>4, <1>6, SameButEffect
<1>8. Len(buckets) \in Nat
  BY DEF Shape
<1> QED BY <1>3, <1>4, <1>5, <1>7, <1>8 DEF all, b

LEMMA AllowKeepsRInv == ASSUME RInv, NEW c \in Clients, Allow(c) PROVE RInv'
<1> DEFINE n == TokensIn(buckets, c)
           all == Append(Others(c), Bucket(c, n - Token, 0))
<1>1. n \in 0 .. Burst /\ n >= Token /\ n - Token \in 0 .. Burst
  BY TokensBounded, TokensHere, Amounts DEF RInv, Allow
<1>2. /\ Shape(all)
      /\ Len(all) = Len(buckets) + (IF KnownIn(buckets, c) THEN 0 ELSE 1)
      /\ all[Len(all)].client = c
      /\ TokensIn(all, c) = n - Token
      /\ \A d \in Clients \ {c} : TokensIn(all, d) = TokensIn(buckets, d)
  BY <1>1, PutLast DEF RInv
<1>3. /\ refused' = {}
      /\ \/ /\ ~TooMany(all)
            /\ buckets' = all
            /\ excess' = [excess EXCEPT ![c] = @ + Token]
         \/ /\ TooMany(all)
            /\ buckets' = Tail(all)
            /\ excess' = [excess EXCEPT ![c] = @ + Token, ![Head(all).client] = 0]
  BY TokensHere DEF Allow
<1>4. Len(buckets) \in Nat /\ Len(all) \in Nat
  BY <1>2 DEF RInv, Shape
<1> HIDE DEF all
<1>5. excess[c] + n = Burst /\ excess[c] \in Nat
  BY DEF RInv
<1> HIDE DEF n
<1>6. CASE ~TooMany(all)
  <2>1. Len(all) <= MaxClients
    BY <1>4, <1>6, Amounts DEF TooMany
  <2>2. excess' \in [Clients -> Nat]
    BY <1>3, <1>5, <1>6, Amounts DEF RInv
  <2>3. \A d \in Clients : excess'[d] + TokensIn(all, d) = Burst
    BY <1>1, <1>2, <1>3, <1>5, <1>6, Amounts DEF RInv
  <2> QED BY <1>2, <1>3, <1>6, <2>1, <2>2, <2>3 DEF RInv
<1>7. CASE TooMany(all)
  <2> DEFINE h == Head(all).client
  <2>1. Len(all) = MaxClients + 1 /\ Len(all) > 1
    BY <1>2, <1>4, <1>7, Amounts DEF TooMany, RInv
  <2>2. /\ Shape(Tail(all)) /\ Len(Tail(all)) = Len(all) - 1
        /\ h \in Clients /\ TokensIn(Tail(all), h) = Burst
        /\ SameBut(all, Tail(all), h)
    BY <1>2, <2>1, TailEffect
  <2>3. h # c
    <3>1. Head(all) = all[1]
      BY <1>2, <2>1 DEF Shape
    <3> QED BY <1>2, <1>4, <2>1, <3>1 DEF Shape
  <2>4. \A d \in Clients \ {h} : TokensIn(Tail(all), d) = TokensIn(all, d)
    BY <1>2, <2>2, SameButEffect
  <2>5. /\ buckets' = Tail(all) /\ refused' = {}
        /\ excess' = [excess EXCEPT ![c] = @ + Token, ![h] = 0]
    BY <1>3, <1>7
  <2> HIDE DEF h
  <2>6. excess' \in [Clients -> Nat]
    <3>1. excess \in [Clients -> Nat] /\ excess[c] + Token \in Nat
      BY <1>5, Amounts DEF RInv
    <3>2. [excess EXCEPT ![c] = excess[c] + Token] \in [Clients -> Nat]
      BY <3>1
    <3> QED BY <2>5, <3>2
  <2>7. ASSUME NEW d \in Clients
        PROVE  excess'[d] + TokensIn(Tail(all), d) = Burst
    <3>1. CASE d = h
      BY <2>2, <2>3, <2>5, <3>1, Amounts DEF RInv
    <3>2. CASE d = c
      BY <1>1, <1>2, <1>5, <2>3, <2>4, <2>5, <3>2, Amounts DEF RInv
    <3>3. CASE d # h /\ d # c
      BY <1>2, <2>4, <2>5, <3>3 DEF RInv
    <3> QED BY <3>1, <3>2, <3>3
  <2> QED BY <1>4, <2>1, <2>2, <2>5, <2>6, <2>7, Amounts DEF RInv
<1> QED BY <1>6, <1>7

LEMMA RefuseKeepsRInv == ASSUME RInv, NEW c \in Clients, Refuse(c) PROVE RInv'
<1> DEFINE n == TokensIn(buckets, c)
           all == Append(Others(c), Bucket(c, n, 0))
<1>1. n \in 0 .. Burst /\ n < Token
  BY TokensBounded, TokensHere, Amounts DEF RInv, Refuse
<1>2. KnownIn(buckets, c)
  BY <1>1, Amounts DEF TokensIn
<1>3. /\ Shape(all) /\ Len(all) = Len(buckets) + 0
      /\ TokensIn(all, c) = n
      /\ \A d \in Clients \ {c} : TokensIn(all, d) = TokensIn(buckets, d)
  BY <1>1, <1>2, PutLast DEF RInv
<1>4. buckets' = all /\ refused' = {c} /\ UNCHANGED excess
  BY TokensHere DEF Refuse
<1>5. Len(buckets) \in Nat
  BY DEF RInv, Shape
<1> HIDE DEF all
<1> QED BY <1>1, <1>3, <1>4, <1>5 DEF RInv

LEMMA TickKeepsRInv == ASSUME RInv, Tick PROVE RInv'
<1> DEFINE later(i) == IF i < FullAfter THEN i + 1 ELSE i
<1>0. DOMAIN buckets = 1 .. Len(buckets) /\ Len(buckets) \in Nat
  BY DEF RInv, Shape
<1>1. ASSUME NEW b \in BucketRow
      PROVE  LET b2 == [b EXCEPT !.idle = later(@)] IN
             /\ b2 \in BucketRow /\ b2.client = b.client
             /\ Refilled(b2) = IF Refilled(b) + PerMinute <= Burst THEN Refilled(b) + PerMinute
                               ELSE Burst
  <2> DEFINE b2 == [b EXCEPT !.idle = later(@)]
  <2>1. b.tokens \in 0 .. Burst /\ b.idle \in 0 .. FullAfter
    BY DEF BucketRow
  <2>2. b2 \in BucketRow /\ b2.client = b.client /\ b2.tokens = b.tokens
        /\ b2.idle = later(b.idle)
    BY Amounts DEF BucketRow
  <2> HIDE DEF b2
  <2>3. /\ Refilled(b) = IF b.tokens + b.idle * PerMinute <= Burst
                         THEN b.tokens + b.idle * PerMinute ELSE Burst
        /\ Refilled(b2) = IF b.tokens + b2.idle * PerMinute <= Burst
                          THEN b.tokens + b2.idle * PerMinute ELSE Burst
    BY <2>2, RefilledIs
  <2>4. CASE b.idle < FullAfter
    <3>1. b2.idle * PerMinute = b.idle * PerMinute + PerMinute /\ b.idle * PerMinute \in Nat
      BY <2>1, <2>2, <2>4, Amounts
    <3> QED BY <2>1, <2>2, <2>3, <3>1, Amounts DEF b2
  <2>5. CASE ~(b.idle < FullAfter)
    <3>1. b2.idle = FullAfter /\ b.idle = FullAfter
      BY <2>1, <2>2, <2>5, Amounts
    <3> QED BY <2>1, <2>2, <2>3, <3>1, Amounts DEF b2
  <2> QED BY <2>4, <2>5, <2>1, Amounts
<1>2. /\ buckets' = [i \in 1 .. Len(buckets) |-> [buckets[i] EXCEPT !.idle = later(@)]]
      /\ refused' = {}
      /\ excess' = [c \in Clients |-> IF excess[c] > PerMinute THEN excess[c] - PerMinute ELSE 0]
  BY <1>0 DEF Tick
<1> HIDE DEF later
<1>3. \A i \in 1 .. Len(buckets) : buckets[i] \in BucketRow
  BY DEF RInv, Shape
<1>4. /\ buckets' \in Seq(BucketRow) /\ Len(buckets') = Len(buckets)
      /\ \A i \in 1 .. Len(buckets) :
            /\ buckets'[i].client = buckets[i].client
            /\ Refilled(buckets'[i]) =
                    IF Refilled(buckets[i]) + PerMinute <= Burst
                    THEN Refilled(buckets[i]) + PerMinute ELSE Burst
  <2>1. \A i \in 1 .. Len(buckets) :
            buckets'[i] = [buckets[i] EXCEPT !.idle = later(buckets[i].idle)]
    BY <1>2
  <2>2. \A i \in 1 .. Len(buckets) :
            /\ buckets'[i] \in BucketRow
            /\ buckets'[i].client = buckets[i].client
            /\ Refilled(buckets'[i]) =
                    IF Refilled(buckets[i]) + PerMinute <= Burst
                    THEN Refilled(buckets[i]) + PerMinute ELSE Burst
    BY <1>1, <1>3, <2>1
  <2>3. buckets' \in [1 .. Len(buckets) -> BucketRow]
    BY <1>2, <2>2
  <2> QED BY <1>0, <2>2, <2>3
<1>5. Shape(buckets')
  BY <1>4 DEF RInv, Shape
<1>6. excess' \in [Clients -> Nat]
  BY <1>2, Amounts DEF RInv
<1>7. ASSUME NEW c \in Clients
      PROVE  excess'[c] + TokensIn(buckets', c) = Burst
  <2>1. excess[c] + TokensIn(buckets, c) = Burst /\ excess[c] \in Nat
    BY DEF RInv
  <2>2. TokensIn(buckets', c) = IF TokensIn(buckets, c) + PerMinute <= Burst
                                THEN TokensIn(buckets, c) + PerMinute ELSE Burst
    <3>1. CASE KnownIn(buckets, c)
      <4>1. PICK i \in 1 .. Len(buckets) : buckets[i].client = c
        BY <1>0, <3>1 DEF KnownIn
      <4>2. TokensIn(buckets, c) = Refilled(buckets[i])
        BY <4>1, TokensOf DEF RInv
      <4>3. TokensIn(buckets', c) = Refilled(buckets'[i])
        BY <1>4, <1>5, <4>1, TokensOf
      <4> QED BY <1>4, <4>1, <4>2, <4>3
    <3>2. CASE ~KnownIn(buckets, c)
      <4>1. ~KnownIn(buckets', c)
        BY <1>0, <1>4, <1>5, <3>2 DEF KnownIn, Shape
      <4> QED BY <3>2, <4>1, Amounts DEF TokensIn
    <3> QED BY <3>1, <3>2
  <2>3. TokensIn(buckets, c) \in 0 .. Burst
    BY TokensBounded DEF RInv
  <2> QED BY <1>2, <2>1, <2>2, <2>3, Amounts
<1> QED BY <1>2, <1>4, <1>5, <1>6, <1>7 DEF RInv

LEMMA StepRInv ==
    RInv /\ [PipelineNext]_pipelineVars => RInv'
<1> SUFFICES ASSUME RInv, [PipelineNext]_pipelineVars PROVE RInv'
  OBVIOUS
<1>1. ASSUME NEW c \in Clients, NEW q \in Requests, Admit(c, q) \/ TurnAway(c, q)
      PROVE  RInv'
  BY <1>1, AllowKeepsRInv, RefuseKeepsRInv DEF Admit, TurnAway
<1>2. CASE Tick
  BY <1>2, TickKeepsRInv
<1>3. CASE UNCHANGED pipelineVars
  BY <1>3 DEF pipelineVars, vars, RInv
<1> QED BY <1>1, <1>2, <1>3 DEF PipelineNext

LEMMA RInvHolds == PipelineSpec => []RInv
<1>1. PipelineInit => RInv
  <2> SUFFICES ASSUME PipelineInit PROVE RInv
    OBVIOUS
  <2>1. buckets = <<>> /\ refused = {} /\ excess = [c \in Clients |-> 0]
    BY DEF PipelineInit, Init
  <2>2. Shape(buckets) /\ Len(buckets) = 0 /\ DOMAIN buckets = {}
    BY <2>1 DEF Shape
  <2>3. \A c : TokensIn(buckets, c) = Burst
    BY <2>2 DEF TokensIn, KnownIn
  <2> QED BY <2>1, <2>2, <2>3, Amounts DEF RInv
<1> QED BY <1>1, StepRInv, PTL DEF PipelineSpec

LEMMA AllAccountedFor ==
    ASSUME RInv, NEW c \in Clients
    PROVE  excess[c] \in Nat /\ TokensIn(buckets, c) \in 0 .. Burst
           /\ excess[c] + TokensIn(buckets, c) = Burst
  BY TokensBounded DEF RInv

(* For any rate, burst, number of clients and of buckets kept: however a   *)
(* client spaces its requests, no more than the burst gets through above   *)
(* the rate while its bucket is kept (ratelimit.py:40-52).                 *)
THEOREM NeverOverRate == PipelineSpec => []WithinRate
<1>1. RInv => WithinRate
  BY AllAccountedFor, Amounts DEF WithinRate
<1> QED BY <1>1, RInvHolds, PTL

(* Whoever is refused has just used all of it: refusals cost nothing, and *)
(* no tokens are lost as time goes by (ratelimit.py:44-52).                *)
THEOREM RefusedOnlyForCause == PipelineSpec => []RefusedOnlyOverRate
<1>1. RInv => RefusedOnlyOverRate
  BY AllAccountedFor, Amounts DEF RefusedOnlyOverRate, RInv
<1> QED BY <1>1, RInvHolds, PTL

----------------------------------------------------------------------------
(* The types of what a request leaves behind. *)

Told ==
    /\ request \in Requests \cup {NoRequest}
    /\ response.status \in {200, 403, 409, 422, 429, 500}
    /\ response.id \in {"none", "fresh", "ascii"}
    /\ line.status \in {200, 403, 409, 422, 429, 500}
    /\ line.id \in {"fresh", "ascii", "other"}

LEMMA AnswerTold ==
    ASSUME NEW q \in Requests, NEW r, Inner(r), Answer(q, r)
    PROVE  Told'
<1>1. q.id \in {"none", "ascii", "other"}
  BY PipelineConstants DEF Request
<1>2. r.status \in {0, 200, 403, 409, 422, 429} /\ (r.status = 0 => r = Raised)
  BY DEF Inner, Raised, Reply
<1>3. /\ request' = q /\ line'.id = IdOf(q)
      /\ line'.status = IF r = Raised THEN 500 ELSE r.status
  BY DEF Answer, Logged
<1>4. response'.status \in {200, 403, 409, 422, 429, 500}
      /\ response'.id \in {"none", "fresh", "ascii"}
  <2>1. CASE r = Raised \/ q.id = "other"
    <3>1. response' = Reply(500, <<>>)
      BY <2>1 DEF Answer, Answered, WithContext
    <3> QED BY <3>1 DEF Reply
  <2>2. CASE r # Raised /\ q.id # "other"
    <3>1. PICK status \in {200, 403, 409, 422, 429} : \E h : r = Reply(status, h)
      BY <2>2 DEF Inner
    <3>2. PICK headers : r = Reply(status, headers)
      BY <3>1
    <3>3. WithContext(q, r) = [status |-> status, headers |-> MergedVary(headers),
                               id |-> IdOf(q)]
      BY <2>2, <3>2 DEF WithContext, Reply
    <3>4. WithContext(q, r) # Raised
      BY <3>3 DEF Raised, Reply
    <3>5. response' = [status |-> status, headers |-> MergedVary(headers), id |-> IdOf(q)]
      BY <3>3, <3>4 DEF Answer, Answered
    <3> QED BY <1>1, <2>2, <3>5 DEF IdOf
  <2> QED BY <2>1, <2>2
<1> QED BY <1>1, <1>2, <1>3, <1>4 DEF Told, IdOf

(* Every answer is one that the layers can give, and is logged as one, and *)
(* the table of buckets never grows past max_clients (ratelimit.py:50-51). *)
THEOREM PipelineTypeCorrect == PipelineSpec => []PipelineTypeOK
<1>1. PipelineInit => Told
  BY DEF PipelineInit, Told, Reply
<1>2. Told /\ [PipelineNext]_pipelineVars => Told'
  <2> SUFFICES ASSUME Told, [PipelineNext]_pipelineVars PROVE Told'
    OBVIOUS
  <2>1. ASSUME NEW c \in Clients, NEW q \in Requests, Admit(c, q)
        PROVE  Told'
    BY <2>1, LayersKeepInner, AnswerTold DEF Admit
  <2>2. ASSUME NEW c \in Clients, NEW q \in Requests, TurnAway(c, q)
        PROVE  Told'
    <3>1. Inner(Reply(429, <<>>))
      BY DEF Inner
    <3> QED BY <2>2, <3>1, AnswerTold DEF TurnAway
  <2>3. CASE UNCHANGED <<request, response, line>>
    BY <2>3 DEF Told
  <2> QED BY <2>1, <2>2, <2>3 DEF PipelineNext, pipelineVars
<1>3. RInv /\ Told => PipelineTypeOK
  <2> SUFFICES ASSUME RInv, Told PROVE PipelineTypeOK
    OBVIOUS
  <2>1. DOMAIN buckets = 1 .. Len(buckets) /\ \A i \in DOMAIN buckets : buckets[i] \in BucketRow
    BY DEF RInv, Shape
  <2>2. TypeOK
    BY <2>1 DEF RInv, Shape, TypeOK, BucketRow
  <2> QED BY <2>2 DEF Told, PipelineTypeOK
<1> QED BY <1>1, <1>2, <1>3, RInvHolds, PTL DEF PipelineSpec

----------------------------------------------------------------------------
(* Vary.  Two layers add to it after the handler, so there are three       *)
(* tokens at most: what the recursive functions that join and merge them   *)
(* give is worked out for lists of that length, and then layer by layer.   *)

LEMMA FlattenOne == FlattenSeq(<<>>) = <<>> /\ \A h : FlattenSeq(<<h>>) = h
<1>1. FlattenSeq(<<>>) = <<>>
  BY DEF FlattenSeq
<1>2. ASSUME NEW h PROVE FlattenSeq(<<h>>) = h
  <2> DEFINE seqs == <<h>>
             body(f) == [i \in 1 .. Len(seqs) |-> IF i = 1 THEN seqs[i] ELSE f[i - 1] \o seqs[i]]
             flatten == CHOOSE f : f = body(f)
  <2>1. Len(seqs) = 1 /\ seqs[1] = h /\ 1 \in 1 .. Len(seqs) /\ \A i \in 1 .. Len(seqs) : i = 1
    OBVIOUS
  <2>2. FlattenSeq(seqs) = flatten[Len(seqs)]
    BY <2>1 DEF FlattenSeq
  <2> HIDE DEF seqs
  <2>3. \E f : f = body(f)
    <3> DEFINE g == [i \in 1 .. Len(seqs) |-> h]
    <3>1. g = body(g)
      BY <2>1
    <3> QED BY <3>1
  <2>4. flatten = body(flatten)
    BY <2>3
  <2> HIDE DEF flatten
  <2> QED BY <2>1, <2>2, <2>4 DEF seqs
<1> QED BY <1>1, <1>2

LEMMA MergedThree ==
    ASSUME NEW tokens, Len(tokens) \in 0 .. 3, NEW headers, headers # <<>>, FlattenSeq(headers) = tokens
    PROVE  LET k1 == Kept(<<>>, tokens[1])
               k2 == Kept(k1, tokens[2])
               k3 == Kept(k2, tokens[3])
           IN  MergedVary(headers) = IF Len(tokens) = 0 THEN <<<<>>>>
                                     ELSE IF Len(tokens) = 1 THEN <<k1>>
                                     ELSE IF Len(tokens) = 2 THEN <<k2>> ELSE <<k3>>
<1> DEFINE k1 == Kept(<<>>, tokens[1])
           k2 == Kept(k1, tokens[2])
           k3 == Kept(k2, tokens[3])
           last == Len(tokens)
           body(f) == [n \in 0 .. last |-> IF n = 0 THEN <<>> ELSE Kept(f[n - 1], tokens[n])]
           seen == CHOOSE f : f = body(f)
           g == [n \in 0 .. last |-> IF n = 0 THEN <<>> ELSE IF n = 1 THEN k1
                                     ELSE IF n = 2 THEN k2 ELSE k3]
<1>1. MergedVary(headers) = <<seen[last]>>
  BY DEF MergedVary
<1>2. g = body(g)
  <2> SUFFICES ASSUME NEW n \in 0 .. last
               PROVE  g[n] = IF n = 0 THEN <<>> ELSE Kept(g[n - 1], tokens[n])
    OBVIOUS
  <2>1. n = 0 \/ n = 1 \/ n = 2 \/ n = 3
    <3>1. last \in 0 .. 3
      OBVIOUS
    <3> HIDE DEF last
    <3> QED BY <3>1
  <2>2. CASE n = 0
    BY <2>2
  <2>3. CASE n = 1
    BY <2>3
  <2>4. CASE n = 2
    BY <2>4
  <2>5. CASE n = 3
    BY <2>5
  <2> QED BY <2>1, <2>2, <2>3, <2>4, <2>5
<1>3. seen = body(seen)
  BY <1>2
<1> HIDE DEF seen, k1, k2, k3, g
<1>4. /\ seen[0] = <<>>
      /\ \A n \in 1 .. last : seen[n] = Kept(seen[n - 1], tokens[n])
  BY <1>3
<1>5. CASE last = 0
  BY <1>1, <1>4, <1>5
<1>6. CASE last = 1
  BY <1>1, <1>4, <1>6 DEF k1
<1>7. CASE last = 2
  BY <1>1, <1>4, <1>7 DEF k1, k2
<1>8. CASE last = 3
  BY <1>1, <1>4, <1>8 DEF k1, k2, k3
<1> QED BY <1>5, <1>6, <1>7, <1>8 DEF k1, k2, k3

(* What VaryIsExact asks of the Vary headers. *)
Exact(headers, used) ==
    /\ Len(headers) <= 1
    /\ ToSet(FlattenSeq(headers)) = used
    /\ IsInjective(FlattenSeq(headers))

LEMMA ExactLists ==
    /\ Exact(<<>>, {})
    /\ \A x : Exact(<<<<x>>>>, {x})
    /\ \A x, y : x # y => Exact(<<<<x, y>>>>, {x, y})
<1>1. Exact(<<>>, {})
  BY FlattenOne DEF Exact, ToSet, IsInjective
<1>2. ASSUME NEW x PROVE Exact(<<<<x>>>>, {x})
  <2> DEFINE t == <<x>>
  <2>1. DOMAIN t = {1} /\ t[1] = x
    OBVIOUS
  <2>2. Len(<<t>>) = 1 /\ FlattenSeq(<<t>>) = t
    BY FlattenOne
  <2> HIDE DEF t
  <2>3. ToSet(t) = {x} /\ IsInjective(t)
    BY <2>1 DEF ToSet, IsInjective
  <2> QED BY <2>2, <2>3 DEF Exact, t
<1>3. ASSUME NEW x, NEW y, x # y PROVE Exact(<<<<x, y>>>>, {x, y})
  <2> DEFINE t == <<x, y>>
  <2>1. DOMAIN t = {1, 2} /\ t[1] = x /\ t[2] = y
    OBVIOUS
  <2>2. Len(<<t>>) = 1 /\ FlattenSeq(<<t>>) = t
    BY FlattenOne
  <2> HIDE DEF t
  <2>3. ToSet(t) = {x, y} /\ IsInjective(t)
    BY <1>3, <2>1 DEF ToSet, IsInjective
  <2> QED BY <2>2, <2>3 DEF Exact, t
<1> QED BY <1>1, <1>2, <1>3

(* Sequences of up to three tokens, one by one. *)
LEMMA OneMore ==
    /\ \A x : Append(<<>>, x) = <<x>>
    /\ \A x, y : Append(<<x>>, y) = <<x, y>>
    /\ \A x, y, z : Append(<<x, y>>, z) = <<x, y, z>>
<1>1. ASSUME NEW x PROVE Append(<<>>, x) = <<x>>
  OBVIOUS
<1>2. ASSUME NEW S, NEW s \in Seq(S), NEW e \in S, NEW t \in Seq(S), Len(t) = Len(s) + 1,
             \A i \in 1 .. Len(s) : t[i] = s[i], t[Len(s) + 1] = e
      PROVE  Append(s, e) = t
  <2> DEFINE longer == Append(s, e)
  <2>1. /\ longer \in Seq(S) /\ Len(longer) = Len(s) + 1
        /\ \A i \in 1 .. Len(s) : longer[i] = s[i]
        /\ longer[Len(s) + 1] = e
    BY AppendProperties
  <2> HIDE DEF longer
  <2>2. \A i \in 1 .. Len(longer) : longer[i] = t[i]
    BY <1>2, <2>1
  <2>3. longer = t
    BY <1>2, <2>1, <2>2, SeqEqual
  <2> QED BY <2>3 DEF longer
<1>3. ASSUME NEW x, NEW y PROVE Append(<<x>>, y) = <<x, y>>
  <2> DEFINE s == <<x>>
             t == <<x, y>>
  <2>1. /\ s \in Seq({x, y}) /\ Len(s) = 1 /\ s[1] = x
        /\ t \in Seq({x, y}) /\ Len(t) = 2 /\ t[1] = x /\ t[2] = y
    OBVIOUS
  <2> HIDE DEF s, t
  <2>2. Len(t) = Len(s) + 1 /\ (\A i \in 1 .. Len(s) : t[i] = s[i]) /\ t[Len(s) + 1] = y
    BY <2>1
  <2>3. Append(s, y) = t
    BY <1>2, <2>1, <2>2
  <2> QED BY <2>3 DEF s, t
<1>4. ASSUME NEW x, NEW y, NEW z PROVE Append(<<x, y>>, z) = <<x, y, z>>
  <2> DEFINE s == <<x, y>>
             t == <<x, y, z>>
  <2>1. /\ s \in Seq({x, y, z}) /\ Len(s) = 2 /\ s[1] = x /\ s[2] = y
        /\ t \in Seq({x, y, z}) /\ Len(t) = 3 /\ t[1] = x /\ t[2] = y /\ t[3] = z
    OBVIOUS
  <2> HIDE DEF s, t
  <2>2. Len(t) = Len(s) + 1 /\ (\A i \in 1 .. Len(s) : t[i] = s[i]) /\ t[Len(s) + 1] = z
    BY <2>1
  <2>3. Append(s, z) = t
    BY <1>2, <2>1, <2>2
  <2> QED BY <2>3 DEF s, t
<1> QED BY <1>1, <1>3, <1>4

LEMMA KeptLists ==
    /\ \A x : Kept(<<>>, x) = <<x>> /\ Kept(<<x>>, x) = <<x>>
    /\ \A x, y : x # y => Kept(<<x>>, y) = <<x, y>>
<1>1. ASSUME NEW x PROVE Kept(<<>>, x) = <<x>>
  <2>1. ~Contains(<<>>, x)
    BY DEF Contains
  <2> QED BY <2>1 DEF Kept
<1>2. ASSUME NEW x PROVE Kept(<<x>>, x) = <<x>>
  <2>1. Contains(<<x>>, x)
    BY DEF Contains
  <2> QED BY <2>1 DEF Kept
<1>3. ASSUME NEW x, NEW y, x # y PROVE Kept(<<x>>, y) = <<x, y>>
  <2>1. ~Contains(<<x>>, y)
    BY <1>3 DEF Contains
  <2> QED BY <2>1, OneMore DEF Kept
<1> QED BY <1>1, <1>2, <1>3

(* The lists of tokens that the layers can make, merged. *)
LEMMA MergedLists ==
    /\ MergedVary(<<>>) = <<>>
    /\ \A x : MergedVary(<<<<x>>>>) = <<<<x>>>> /\ MergedVary(<<<<x, x>>>>) = <<<<x>>>>
    /\ \A x, y : x # y => /\ MergedVary(<<<<x, y>>>>) = <<<<x, y>>>>
                          /\ MergedVary(<<<<x, x, y>>>>) = <<<<x, y>>>>
<1>1. MergedVary(<<>>) = <<>>
  BY DEF MergedVary
<1>2. ASSUME NEW t
      PROVE  /\ Len(t) = 1 => MergedVary(<<t>>) = <<Kept(<<>>, t[1])>>
             /\ Len(t) = 2 => MergedVary(<<t>>) = <<Kept(Kept(<<>>, t[1]), t[2])>>
             /\ Len(t) = 3 => MergedVary(<<t>>) = <<Kept(Kept(Kept(<<>>, t[1]), t[2]), t[3])>>
  <2>1. FlattenSeq(<<t>>) = t /\ <<t>> # <<>>
    BY FlattenOne
  <2>2. CASE Len(t) = 1
    BY <2>1, <2>2, MergedThree
  <2>3. CASE Len(t) = 2
    BY <2>1, <2>3, MergedThree
  <2>4. CASE Len(t) = 3
    BY <2>1, <2>4, MergedThree
  <2> QED BY <2>2, <2>3, <2>4
<1>3. ASSUME NEW x PROVE MergedVary(<<<<x>>>>) = <<<<x>>>>
  <2> DEFINE t == <<x>>
  <2>1. Len(t) = 1 /\ t[1] = x
    OBVIOUS
  <2> HIDE DEF t
  <2>2. MergedVary(<<t>>) = <<Kept(<<>>, x)>>
    BY <1>2, <2>1, Zenon
  <2> QED BY <2>2, KeptLists DEF t
<1>4. ASSUME NEW x, NEW y
      PROVE  MergedVary(<<<<x, y>>>>) = <<Kept(Kept(<<>>, x), y)>>
  <2> DEFINE t == <<x, y>>
  <2>1. Len(t) = 2 /\ t[1] = x /\ t[2] = y
    OBVIOUS
  <2> HIDE DEF t
  <2>2. MergedVary(<<t>>) = <<Kept(Kept(<<>>, x), y)>>
    BY <1>2, <2>1, Zenon
  <2> QED BY <2>2 DEF t
<1>5. ASSUME NEW x, NEW y
      PROVE  MergedVary(<<<<x, x, y>>>>) = <<Kept(Kept(Kept(<<>>, x), x), y)>>
  <2> DEFINE t == <<x, x, y>>
  <2>1. Len(t) = 3 /\ t[1] = x /\ t[2] = x /\ t[3] = y
    OBVIOUS
  <2> HIDE DEF t
  <2>2. MergedVary(<<t>>) = <<Kept(Kept(Kept(<<>>, x), x), y)>>
    BY <1>2, <2>1, Zenon
  <2> QED BY <2>2 DEF t
<1> QED BY <1>1, <1>3, <1>4, <1>5, KeptLists

(* What the layers chose a response by. *)
Used(q, status) ==
    (IF q.gzip \/ (q.endpoint = "read" /\ status = 200) THEN {"accept-encoding"} ELSE {})
    \cup (IF q.listed THEN {"origin"} ELSE {})

(* Each layer adds its token to what there is. *)
LEMMA VaryAdded ==
    ASSUME NEW status, NEW headers, NEW token
    PROVE  AddVary(Reply(status, headers), token)
               = Reply(status, <<Append(FlattenSeq(headers), token)>>)
  BY DEF AddVary, Reply

LEMMA AddedLists ==
    /\ \A x : Append(FlattenSeq(<<>>), x) = <<x>>
    /\ \A x, y : Append(FlattenSeq(<<<<x>>>>), y) = <<x, y>>
    /\ \A x, y, z : Append(FlattenSeq(<<<<x, y>>>>), z) = <<x, y, z>>
<1>1. /\ FlattenSeq(<<>>) = <<>>
      /\ \A x : FlattenSeq(<<<<x>>>>) = <<x>>
      /\ \A x, y : FlattenSeq(<<<<x, y>>>>) = <<x, y>>
  BY FlattenOne
<1>2. \A x : Append(FlattenSeq(<<>>), x) = <<x>>
  BY <1>1, OneMore
<1>3. ASSUME NEW x, NEW y PROVE Append(FlattenSeq(<<<<x>>>>), y) = <<x, y>>
  BY <1>1, OneMore, Zenon
<1>4. ASSUME NEW x, NEW y, NEW z PROVE Append(FlattenSeq(<<<<x, y>>>>), z) = <<x, y, z>>
  <2>1. FlattenSeq(<<<<x, y>>>>) = <<x, y>>
    BY <1>1
  <2>2. Append(<<x, y>>, z) = <<x, y, z>>
    BY OneMore
  <2> QED BY <2>1, <2>2, Zenon
<1> QED BY <1>2, <1>3, <1>4

(* The Vary headers of a response as the request context gets it.          *)
LEMMA VaryOfLayers ==
    ASSUME NEW q \in Requests,
           Shared(q, Encoded(q, Handled(q))) # Raised
    PROVE  \E status \in {200, 403, 409, 422} : \E headers :
              /\ Shared(q, Encoded(q, Handled(q))) = Reply(status, headers)
              /\ Exact(MergedVary(headers), Used(q, status))
<1> DEFINE ae == "accept-encoding"
           o == "origin"
<1>1. /\ Handled(q) # Raised
      /\ q.gzip \in BOOLEAN /\ q.listed \in BOOLEAN
  BY PipelineConstants DEF Request, Encoded, Shared
<1>2. \E status \in {200, 403, 409, 422} : \E base :
        /\ Handled(q) = Reply(status, base)
        /\ \/ base = <<>> /\ ~(q.endpoint = "read" /\ status = 200)
           \/ base = <<<<ae>>>> /\ q.endpoint = "read" /\ status = 200
  <2>1. q.result \in {"ok", "conflict", "violation", "raises"}
    BY PipelineConstants DEF Request
  <2> QED BY <1>1, <2>1 DEF Handled
<1>3. PICK status \in {200, 403, 409, 422} : \E base :
        /\ Handled(q) = Reply(status, base)
        /\ \/ base = <<>> /\ ~(q.endpoint = "read" /\ status = 200)
           \/ base = <<<<ae>>>> /\ q.endpoint = "read" /\ status = 200
  BY <1>2
<1>4. PICK base :
        /\ Handled(q) = Reply(status, base)
        /\ \/ base = <<>> /\ ~(q.endpoint = "read" /\ status = 200)
           \/ base = <<<<ae>>>> /\ q.endpoint = "read" /\ status = 200
  BY <1>3
<1>5. \A h : Reply(status, h) # Raised
  BY DEF Raised, Reply
<1> DEFINE encoded == IF q.gzip THEN <<Append(FlattenSeq(base), ae)>> ELSE base
           shared == IF q.listed THEN <<Append(FlattenSeq(encoded), o)>> ELSE encoded
<1>6. Encoded(q, Handled(q)) = Reply(status, encoded)
  BY <1>4, <1>5, VaryAdded DEF Encoded
<1> HIDE DEF encoded
<1>7. Shared(q, Encoded(q, Handled(q))) = Reply(status, shared)
  BY <1>5, <1>6, VaryAdded DEF Shared
<1>8. Exact(MergedVary(shared), Used(q, status))
  <2>1. ae # o
    OBVIOUS
  <2> HIDE DEF ae, o
  <2>2. \/ encoded = <<>> /\ ~(q.gzip \/ (q.endpoint = "read" /\ status = 200))
        \/ encoded \in {<<<<ae>>>>, <<<<ae, ae>>>>}
           /\ (q.gzip \/ (q.endpoint = "read" /\ status = 200))
    <3>1. CASE ~q.gzip
      BY <1>4, <3>1 DEF encoded
    <3>2. CASE q.gzip /\ base = <<>>
      BY <3>2, AddedLists DEF encoded
    <3>3. CASE q.gzip /\ base = <<<<ae>>>>
      <4>1. encoded = <<Append(FlattenSeq(<<<<ae>>>>), ae)>>
        BY <3>3 DEF encoded
      <4> QED BY <3>3, <4>1, AddedLists
    <3> QED BY <1>1, <1>4, <3>1, <3>2, <3>3
  <2>3. CASE encoded = <<>> /\ ~(q.gzip \/ (q.endpoint = "read" /\ status = 200))
    <3>1. CASE q.listed
      <4>1. shared = <<<<o>>>>
        BY <2>3, <3>1, AddedLists
      <4>2. Used(q, status) = {o}
        BY <2>3, <3>1 DEF Used, o
      <4> HIDE DEF shared
      <4> QED BY <4>1, <4>2, MergedLists, ExactLists, Zenon
    <3>2. CASE ~q.listed
      <4>1. shared = <<>> /\ Used(q, status) = {}
        BY <2>3, <3>2 DEF Used
      <4> HIDE DEF shared
      <4> QED BY <4>1, MergedLists, ExactLists
    <3> QED BY <3>1, <3>2
  <2>4. CASE /\ encoded \in {<<<<ae>>>>, <<<<ae, ae>>>>}
             /\ (q.gzip \/ (q.endpoint = "read" /\ status = 200))
    <3>1. CASE q.listed
      <4>1. shared = <<<<ae, o>>>> \/ shared = <<<<ae, ae, o>>>>
        <5>1. shared = <<Append(FlattenSeq(encoded), o)>>
          BY <3>1
        <5> HIDE DEF shared
        <5>2. \/ shared = <<Append(FlattenSeq(<<<<ae>>>>), o)>>
              \/ shared = <<Append(FlattenSeq(<<<<ae, ae>>>>), o)>>
          BY <2>4, <5>1
        <5>3. /\ Append(FlattenSeq(<<<<ae>>>>), o) = <<ae, o>>
              /\ Append(FlattenSeq(<<<<ae, ae>>>>), o) = <<ae, ae, o>>
          BY AddedLists
        <5> QED BY <5>2, <5>3, Zenon
      <4>2. Used(q, status) = {ae, o}
        BY <2>4, <3>1 DEF Used, o, ae
      <4> HIDE DEF shared
      <4>3. MergedVary(shared) = <<<<ae, o>>>>
        BY <2>1, <4>1, MergedLists, Zenon
      <4>4. Exact(<<<<ae, o>>>>, {ae, o})
        BY <2>1, ExactLists, Zenon
      <4> QED BY <4>2, <4>3, <4>4, Zenon
    <3>2. CASE ~q.listed
      <4>1. shared = <<<<ae>>>> \/ shared = <<<<ae, ae>>>>
        BY <2>4, <3>2
      <4>2. Used(q, status) = {ae}
        BY <2>4, <3>2 DEF Used, ae
      <4> HIDE DEF shared
      <4>3. MergedVary(shared) = <<<<ae>>>>
        BY <4>1, MergedLists, Zenon
      <4> QED BY <4>2, <4>3, ExactLists, Zenon
    <3> QED BY <3>1, <3>2
  <2> QED BY <2>2, <2>3, <2>4
<1> HIDE DEF shared
<1> QED BY <1>7, <1>8

LEMMA VaryAsExact ==
    VaryIsExact <=> (response.status \notin {429, 500} =>
                        Exact(response.headers, Used(request, response.status)))
  BY DEF VaryIsExact, Exact, Used

LEMMA AnswerIsExact ==
    ASSUME NEW q \in Requests, NEW r, Answer(q, r),
           \/ r = Reply(429, <<>>)
           \/ r = Shared(q, Encoded(q, Handled(q)))
    PROVE  response'.status \notin {429, 500} =>
                Exact(response'.headers, Used(request', response'.status))
<1>1. request' = q /\ response' = Answered(WithContext(q, r))
  BY DEF Answer
<1>2. CASE r = Raised \/ q.id = "other"
  <2>1. response' = Reply(500, <<>>)
    BY <1>1, <1>2 DEF Answered, WithContext
  <2> QED BY <2>1 DEF Reply
<1>3. CASE r # Raised /\ q.id # "other"
  <2>1. ASSUME NEW status \in {200, 403, 409, 422, 429}, NEW headers, r = Reply(status, headers)
        PROVE  response' = [status |-> status, headers |-> MergedVary(headers), id |-> IdOf(q)]
    <3>1. WithContext(q, r) = [status |-> status, headers |-> MergedVary(headers), id |-> IdOf(q)]
      BY <1>3, <2>1 DEF WithContext, Reply
    <3>2. WithContext(q, r) # Raised
      BY <3>1 DEF Raised, Reply
    <3> QED BY <1>1, <3>1, <3>2 DEF Answered
  <2>2. CASE r = Reply(429, <<>>)
    <3>1. response'.status = 429
      BY <2>1, <2>2
    <3> QED BY <3>1
  <2>3. CASE r = Shared(q, Encoded(q, Handled(q)))
    <3>1. PICK status \in {200, 403, 409, 422} : \E headers :
              /\ r = Reply(status, headers)
              /\ Exact(MergedVary(headers), Used(q, status))
      BY <1>3, <2>3, VaryOfLayers
    <3>2. PICK headers : /\ r = Reply(status, headers)
                         /\ Exact(MergedVary(headers), Used(q, status))
      BY <3>1
    <3>3. response'.headers = MergedVary(headers) /\ response'.status = status
      BY <2>1, <3>2
    <3> QED BY <1>1, <3>2, <3>3
  <2> QED BY <2>2, <2>3
<1> QED BY <1>2, <1>3

(* Vary names, once each, what the layers between handler and client chose *)
(* the response by, whatever they have joined and repeated, for any        *)
(* requests (middleware.py:73-99).                                         *)
THEOREM VaryAlwaysExact == PipelineSpec => []VaryIsExact
<1>1. PipelineInit => VaryIsExact
  <2> SUFFICES ASSUME PipelineInit PROVE VaryIsExact
    OBVIOUS
  <2>1. response.headers = <<>> /\ Used(request, response.status) = {}
    BY DEF PipelineInit, Reply, NoRequest, Used
  <2> QED BY <2>1, ExactLists, VaryAsExact
<1>2. VaryIsExact /\ [PipelineNext]_pipelineVars => VaryIsExact'
  <2> SUFFICES ASSUME VaryIsExact, [PipelineNext]_pipelineVars PROVE VaryIsExact'
    OBVIOUS
  <2>1. ASSUME NEW c \in Clients, NEW q \in Requests, Admit(c, q) \/ TurnAway(c, q)
        PROVE  VaryIsExact'
    <3>1. response'.status \notin {429, 500} =>
                Exact(response'.headers, Used(request', response'.status))
      BY <2>1, AnswerIsExact DEF Admit, TurnAway
    <3> QED BY <3>1 DEF VaryIsExact, Exact, Used
  <2>2. CASE UNCHANGED <<request, response>>
    BY <2>2 DEF VaryIsExact
  <2> QED BY <2>1, <2>2 DEF PipelineNext, pipelineVars
<1> QED BY <1>1, <1>2, PTL DEF PipelineSpec
=============================================================================
