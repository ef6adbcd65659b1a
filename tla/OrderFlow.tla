------------------------------ MODULE OrderFlow ------------------------------
(***************************************************************************)
(* A user buying through the api-gateway: the clicks of one user, one after *)
(* the other, each proxied to checkout-service by CartProxyController or   *)
(* OrdersProxyController, whose proxy gives an attempt up after its timeout *)
(* and repeats what failed.  Every attempt is a request of Checkout, and   *)
(* one that was given up runs on there beside its repetition and beside    *)
(* the clicks that follow.                                                 *)
(*                                                                         *)
(* GatewayProxy says when the circuit refuses; here it may refuse any      *)
(* click.  A published order is charged once (PaymentPipeline), so what a  *)
(* click publishes is what it costs the user.                              *)
(***************************************************************************)
EXTENDS Checkout

CONSTANTS NumClicks,
          MaxRetries,    \* 4 in the code
          MaxLost        \* bound: attempts nobody waited for the end of

Clicks   == 1..NumClicks
Attempts == 1..(MaxRetries + 1)

ASSUME FlowAssumption ==
  /\ NumClicks \in Nat /\ MaxRetries \in Nat /\ MaxLost \in Nat
  /\ Requests = Clicks \X Attempts

VARIABLES
  click,    \* [phase, attempt, asked, answer] of each click
  lost      \* history: attempts of each click whose answer did not arrive

flow == <<vars, click, lost>>

Waiting(k) == click[k].phase = "waiting"
Current(k) == <<k, click[k].attempt>>
Lost       == MapThenSumSet(LAMBDA k : lost[k], Clicks)

FlowInit ==
  /\ Init
  /\ click = [k \in Clicks |-> [phase |-> "idle", attempt |-> 0, asked |-> NotMade,
                                answer |-> None]]
  /\ lost = [k \in Clicks |-> 0]

-------------------------------------------------------------------------------
(* The gateway *)

Becomes(k, phase, n, a, answer) ==
  click' = [click EXCEPT ![k] = [phase |-> phase, attempt |-> n, asked |-> a, answer |-> answer]]

Concluded(k, n, a, answer) == Becomes(k, "answered", n, a, answer)

\* Another attempt follows its delay, or the fallback's error (a plain 500).
AttemptFailed(k, n, a) ==
  IF n <= MaxRetries THEN Becomes(k, "backoff", n, a, None)
                     ELSE Concluded(k, n, a, "unavailable")

\* Attempt n reaches the service, or it does not get there.
Attempt(k, n, a) ==
  \/ Becomes(k, "waiting", n, a, None) /\ Made(<<k, n>>, a)
  \/ AttemptFailed(k, n, a) /\ UNCHANGED vars

\* JwtAuthGuard of the gateway refuses the token before anything is called ...
TurnedAway(k) == Concluded(k, 0, NotMade, "unauthorized") /\ UNCHANGED vars

\* ... and the guard of the service looks at it again on each attempt; it may
\* have expired since the click.
TokenExpired(k, n, a) == Concluded(k, n, a, "unauthorized") /\ UNCHANGED vars

\* The user asks for something once the last click is answered; the circuit may
\* refuse the click.
Click(k) ==
  /\ click[k].phase = "idle" /\ \A j \in 1..(k - 1) : click[j].phase = "answered"
  /\ \/ \E a \in Asked : Attempt(k, 1, a) \/ TokenExpired(k, 1, a)
     \/ TurnedAway(k)
     \/ Concluded(k, 0, NotMade, "unavailable") /\ UNCHANGED vars
  /\ UNCHANGED lost

\* The answer arrives: a 2xx and a 4xx are passed on, a 5xx failed the attempt.
TakeAnswer(k) ==
  /\ Waiting(k) /\ req[Current(k)].pc = "done"
  /\ LET n == click[k].attempt a == click[k].asked res == req[Current(k)].result IN
     IF res = "error" THEN AttemptFailed(k, n, a) ELSE Concluded(k, n, a, res)
  /\ UNCHANGED <<vars, lost>>

\* The timeout wins the race, or the connection breaks before the answer; the
\* handler, if it is still at work, does not notice.
TimesOut(k) ==
  /\ Waiting(k) /\ Lost < MaxLost
  /\ AttemptFailed(k, click[k].attempt, click[k].asked)
  /\ lost' = [lost EXCEPT ![k] = @ + 1]
  /\ UNCHANGED vars

\* Mutant: the attempts are not counted.
RetryUncounted(k) ==
  /\ click[k].phase = "backoff"
  /\ Attempt(k, click[k].attempt, click[k].asked)
  /\ UNCHANGED lost

\* The next attempt.
Retry(k) ==
  /\ click[k].phase = "backoff"
  /\ LET n == click[k].attempt + 1 a == click[k].asked IN
     Attempt(k, n, a) \/ TokenExpired(k, n, a)
  /\ UNCHANGED lost

\* The gateway dies with the click it was working on.
GatewayRestart ==
  /\ Lost < MaxLost
  /\ \E k \in Clicks :
       /\ click[k].phase \in {"waiting", "backoff"}
       /\ Concluded(k, click[k].attempt, click[k].asked, "lost")
       /\ lost' = [lost EXCEPT ![k] = @ + 1]
  /\ UNCHANGED vars

\* checkout-service goes on with what it was asked, as Checkout says.
ServiceStep ==
  /\ \/ \E r \in Requests : Handle(r) \/ DatabaseError(r)
     \/ Restart \/ LoseChannel
  /\ UNCHANGED <<click, lost>>

-------------------------------------------------------------------------------
FlowNext ==
  \/ \E k \in Clicks : Click(k) \/ TakeAnswer(k) \/ TimesOut(k) \/ Retry(k)
  \/ GatewayRestart \/ ServiceStep

FlowSpec == FlowInit /\ [][FlowNext]_flow

\* Each event loop makes progress: awaited calls return or fail, answers arrive,
\* delays end.  (A handler has finitely many steps and one click is under way at
\* a time, so which of them goes on first does not matter.)
HandlersStep  == (\E r \in Requests : Handle(r)) /\ UNCHANGED <<click, lost>>
GatewayStep   == \E k \in Clicks : TakeAnswer(k) \/ Retry(k)
FlowFairness  == WF_flow(HandlersStep) /\ WF_flow(GatewayStep)

FairFlowSpec == FlowSpec /\ FlowFairness

-------------------------------------------------------------------------------
(* What a click does *)

OrdersOf(k)  == {req[<<k, n>>].order : n \in Attempts} \ {0}

\* The messages, by their places, that ask for the payment of an order of click k.
Charged(k)   == {i \in DOMAIN published : published[i].order \in OrdersOf(k)}
Answered(k)  == click[k].phase = "answered"
AllAnswered  == \A k \in Clicks : click[k].phase \in {"idle", "answered"}

\* A click charges the user once, though its attempts are repeated, its writes
\* fail and the service restarts: only an attempt that was given up can make it
\* two, and only attempts that overlapped can charge one cart twice.
ChargedOnce ==
  /\ \A k \in Clicks : lost[k] = 0 => Cardinality(Charged(k)) <= 1
  /\ ~ overlapped =>
       \A i, j \in DOMAIN published :
         orders[published[i].order].cart = orders[published[j].order].cart => i = j

\* A user who is not told that the checkout worked was not charged for it,
\* unless an answer got lost; and no order of it is left behind, unless one of
\* its attempts was cut off.
RefusalsAreTrue ==
  \A k \in Clicks : Answered(k) /\ click[k].answer # "ok" =>
    /\ Charged(k) # {} => lost[k] > 0
    /\ OrdersOf(k) # {} => lost[k] > 0 \/ faults > 0

Adds(answers) == {k \in Clicks : click[k].asked.op = "add" /\ click[k].answer \in answers}
NoneRemoved   == \A k \in Clicks : click[k].asked.op # "remove"
InCarts       == MapThenSumSet(LAMBDA i : i.quantity, items)
AcceptedAdds  == MapThenSumSet(LAMBDA k : click[k].asked.quantity, Adds({"ok"}))
MostPerClick  == Max({click[k].asked.quantity : k \in Clicks} \cup {0})

\* Every accepted add is in a cart, as long as no two attempts ran at once, and
\* it is there once, but for one time more with every attempt that failed or was
\* lost after its write: neither a products-service that does not answer nor a
\* repetition alone counts an add twice.
AddsCounted ==
  AllAnswered /\ NoneRemoved =>
    /\ ~ overlapped => InCarts >= AcceptedAdds
    /\ InCarts <= AcceptedAdds + (faults + Lost) * MostPerClick

\* Every click is answered: there is always a later moment at which none is
\* under way, however its attempts fail, are given up or are refused.
ClicksAnswered == []<>AllAnswered

-------------------------------------------------------------------------------
(* What the documentation says of a click, and the repetitions refute *)

\* docs/specs/04: a checkout makes an order of the cart; so of the orders that
\* are sent to be paid, a click made one at most.
OneOrderPerClick == \A k \in Clicks : Cardinality(Charged(k)) <= 1
===============================================================================
