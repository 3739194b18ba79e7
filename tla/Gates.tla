------------------------------- MODULE Gates --------------------------------
(***************************************************************************)
(* The two gates a worker passes before it fetches a page, against the     *)
(* wall clock they both read: its own CircuitBreaker, and a TokenBucket     *)
(* that several workers and the dashboard share.  Fleet leaves both to     *)
(* chance; here they compute.                                              *)
(*                                                                         *)
(* The clock is time.time(): it may jump forward, and it may be set back.  *)
(* Time is counted in ticks and tokens in parts of a token, so that a tick *)
(* is worth a whole number of parts (Rate) and a request costs Token.      *)
(* Whether a fetch is blocked is left to chance.                           *)
(***************************************************************************)
EXTENDS Integers, Sequences

CONSTANTS
  Worker,
  Threshold, \* failure_threshold of each worker's breaker: 1 in the fleet
  Base,      \* BASE_DELAY, in ticks
  Token,     \* what a request costs, in parts of a token
  Rate,      \* parts of a token per tick
  Capacity,  \* in parts of a token
  MaxNow,    \* bound: the clock does not go further
  MaxBack    \* bound: the clock is set back by no more than this in all

ASSUME GatesAssumption ==
  /\ Threshold \in [Worker -> Nat \ {0}]
  /\ Base \in Nat /\ Rate \in Nat /\ Token \in Nat \ {0}
  /\ Capacity \in Nat /\ Capacity >= Token
  /\ MaxNow \in Nat /\ MaxBack \in Nat

VARIABLES
  now,      \* the wall clock
  bucket,   \* the shared bucket: its tokens, and when it was last refilled
  breaker,  \* worker -> its circuit breaker
  pc,       \* worker -> where its thread is: "gate", "bucket" or "fetch"
  peak,     \* history: the latest time the bucket has been refilled at
  back,     \* history: by how much the clock has been set back in all
  grants,   \* history: the times at which the bucket granted a request
  refused,  \* history: the last refusal: its time, and peak before it
  opens     \* history: worker -> the times at which its breaker opened

clockVars   == <<now, back>>
bucketVars  == <<bucket, peak, grants, refused>>
breakerVars == <<breaker, opens>>
vars == <<clockVars, bucketVars, breakerVars, pc>>

-----------------------------------------------------------------------------
(* The token bucket.                                                       *)

FullBucket == [tokens |-> Capacity, last |-> 0]

\* Mutant: the capacity does not bound the refill.
MutRefilled(b, t) ==
  [tokens |-> b.tokens + (t - b.last) * Rate, last |-> t]

\* _refill adds what the time since the last refill is worth, which is
\* negative after the clock has been set back.
Refilled(b, t) ==
  LET filled == b.tokens + (t - b.last) * Rate
  IN  [tokens |-> IF filled < Capacity THEN filled ELSE Capacity, last |-> t]

Spent(b) == [b EXCEPT !.tokens = @ - Token]

-----------------------------------------------------------------------------
(* The circuit breaker.                                                    *)

NewBreaker ==
  [state |-> "CLOSED", failures |-> 0, blocks |-> 0, since |-> 0, cooldown |-> 0]

\* 2 ** min(n, 5) times the first delay.
CooldownOf(n) == <<2, 4, 8, 16, 32>>[IF n < 5 THEN n ELSE 5] * Base

\* allow_request returns TRUE...
Allows(b, t) == b.state = "OPEN" => t - b.since >= b.cooldown

\* ...and an open breaker whose cooldown is over becomes half open.
Probing(b) == [b EXCEPT !.state = IF @ = "OPEN" THEN "HALF_OPEN" ELSE @]

\* Mutant: a success forgets the blocks the cooldown grows with.
MutAfterSuccess(b) ==
  [b EXCEPT !.failures = 0, !.blocks = 0,
            !.state = IF @ = "HALF_OPEN" THEN "CLOSED" ELSE @]

AfterSuccess(b) ==
  [b EXCEPT !.failures = 0,
            !.state = IF @ = "HALF_OPEN" THEN "CLOSED" ELSE @]

Opens(b, threshold) == b.failures + 1 >= threshold

\* record_failure: the failure that reaches the threshold opens the breaker,
\* in whatever state it is, for a time that only ever grows.
AfterFailure(b, threshold, t) ==
  IF Opens(b, threshold)
  THEN [state |-> "OPEN", failures |-> 0, blocks |-> b.blocks + 1,
        since |-> t, cooldown |-> CooldownOf(b.blocks + 1)]
  ELSE [b EXCEPT !.failures = @ + 1, !.blocks = @ + 1]

-----------------------------------------------------------------------------
Init ==
  /\ now = 0 /\ back = 0 /\ peak = 0
  /\ bucket = FullBucket
  /\ breaker = [w \in Worker |-> NewBreaker]
  /\ pc = [w \in Worker |-> "gate"]
  /\ grants = <<>>
  /\ refused = [at |-> 0, peak |-> 0]
  /\ opens = [w \in Worker |-> <<>>]

Goto(w, from, to) == pc[w] = from /\ pc' = [pc EXCEPT ![w] = to]

\* The breaker lets the iteration through; while it does not, the worker
\* polls it, which changes nothing.
PassGate(w) ==
  /\ Goto(w, "gate", "bucket")
  /\ Allows(breaker[w], now)
  /\ breaker' = [breaker EXCEPT ![w] = Probing(@)]
  /\ UNCHANGED <<clockVars, bucketVars, opens>>

\* A refill reads the clock, under the bucket's lock.
Refill(then) ==
  /\ bucket' = then
  /\ peak' = IF now > peak THEN now ELSE peak

\* consume finds a token for the request.
Grant(w) ==
  LET b == Refilled(bucket, now) IN
  /\ Goto(w, "bucket", "fetch")
  /\ b.tokens >= Token
  /\ Refill(Spent(b))
  /\ grants' = Append(grants, now)
  /\ UNCHANGED <<clockVars, breakerVars, refused>>

\* Mutant: a refused request is paid for.
MutRefuse(w) ==
  LET b == Refilled(bucket, now) IN
  /\ Goto(w, "bucket", "gate")
  /\ b.tokens < Token
  /\ Refill(Spent(b))
  /\ refused' = [at |-> now, peak |-> peak]
  /\ UNCHANGED <<clockVars, breakerVars, grants>>

\* consume finds none: the URL is put back and the thread goes round.
Refuse(w) ==
  LET b == Refilled(bucket, now) IN
  /\ Goto(w, "bucket", "gate")
  /\ b.tokens < Token
  /\ Refill(b)
  /\ refused' = [at |-> now, peak |-> peak]
  /\ UNCHANGED <<clockVars, breakerVars, grants>>

\* The site blocks the request.
Block(w) ==
  /\ Goto(w, "fetch", "gate")
  /\ breaker' = [breaker EXCEPT ![w] = AfterFailure(@, Threshold[w], now)]
  /\ opens' = IF Opens(breaker[w], Threshold[w])
              THEN [opens EXCEPT ![w] = Append(@, now)] ELSE opens
  /\ UNCHANGED <<clockVars, bucketVars>>

\* The site answers.
Succeed(w) ==
  /\ Goto(w, "fetch", "gate")
  /\ breaker' = [breaker EXCEPT ![w] = AfterSuccess(@)]
  /\ UNCHANGED <<clockVars, bucketVars, opens>>

\* The dashboard reads fill_level, which refills the bucket too.
ReadFill ==
  /\ Refill(Refilled(bucket, now))
  /\ UNCHANGED <<clockVars, breakerVars, pc, grants, refused>>

Advance ==
  /\ \E t \in now + 1 .. MaxNow : now' = t
  /\ UNCHANGED <<back, bucketVars, breakerVars, pc>>

\* Somebody sets the clock back.
SetBack ==
  /\ \E d \in 1 .. MaxBack - back : now' = now - d /\ back' = back + d
  /\ UNCHANGED <<bucketVars, breakerVars, pc>>

Next ==
  \/ \E w \in Worker : \/ PassGate(w) \/ Grant(w) \/ Refuse(w)
                       \/ Block(w) \/ Succeed(w)
  \/ ReadFill \/ Advance \/ SetBack

Spec == Init /\ [][Next]_vars

-----------------------------------------------------------------------------
Breaker == [state : {"CLOSED", "OPEN", "HALF_OPEN"}, failures : Nat,
            blocks : Nat, since : Int, cooldown : Nat]

\* Every variable has its type: the clock and what is computed from it are
\* integers, the failures that count stay below the threshold.
TypeOK ==
  /\ now \in Int /\ peak \in Int /\ back \in Nat
  /\ bucket \in [tokens : Int, last : Int]
  /\ breaker \in [Worker -> Breaker]
  /\ \A w \in Worker : breaker[w].failures < Threshold[w]
  /\ pc \in [Worker -> {"gate", "bucket", "fetch"}]
  /\ grants \in Seq(Int)
  /\ refused \in [at : Int, peak : Int]
  /\ opens \in [Worker -> Seq(Int)]

\* However the workers and the dashboard interleave their refills, and
\* however the clock jumps, the bucket grants between any two of its grants
\* no more requests than a full bucket and the time between them are worth
\* (consume, _refill): a refill counts no stretch of time twice.
RateBound ==
  \A j \in 1..Len(grants) : \A i \in 1..j :
    Token * (j - i + 1) <= Capacity + Rate * (grants[j] - grants[i])

\* A bucket in debt after the clock has been set back recovers as soon as the
\* clock is where it was: a request is refused only when less than the time
\* of one token has passed since the latest refill ever (consume, _refill).
RefusedOnlyNearPeak == Rate * (refused.at - refused.peak) < Token

\* After its i-th opening a worker sends nothing before 2 ** min(i, 5) delays
\* have passed, save for what the clock has been set back: successes, probes
\* and failures below the threshold in between do not shorten the backoff
\* (allow_request, record_failure, record_success).
CooldownServed ==
  \A w \in Worker :
    pc[w] # "gate" /\ opens[w] # <<>> =>
      now + back >= opens[w][Len(opens[w])] + CooldownOf(Len(opens[w]))
=============================================================================
