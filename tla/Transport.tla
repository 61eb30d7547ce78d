------------------------------- MODULE Transport -------------------------------
(***************************************************************************)
(* internal/transport/client.go: the HTTP client of a kasapi-cli process,  *)
(* with its flood gate (RecordDelay, waitGate) and its retry loop (Do,     *)
(* doOnce), and the way api.Client.callOnce feeds the gate.  A process     *)
(* uses its client for one request at a time; several processes of one     *)
(* login each have a client of their own.                                  *)
(*                                                                         *)
(* Deadlines are kept as the time left until them, so time needs no bound: *)
(* gate[c] is nextEarliest - now and 0 once that is past (or never set),   *)
(* sleep[c] is what is left of a Sleep.  The server and the network are    *)
(* external: Answer lets them do anything doOnce tells apart.              *)
(***************************************************************************)
EXTENDS Integers

CONSTANTS Client,         \* the transport clients: one per process
          MaxRetries,     \* retries after the first attempt
          defaultBackoff, \* the sleep before the first retry
          Delays,         \* values of KasFloodDelay in a response, 0 for none
          floodFallback   \* what api.Client records after flood_protection

ASSUME MaxRetriesAssumption == MaxRetries \in Nat
ASSUME BackoffAssumption == defaultBackoff \in Nat \ {0}
ASSUME DelaysAssumption == Delays \subseteq Nat
ASSUME FloodFallbackAssumption == floodFallback \in Nat \ {0}

VARIABLES gate,     \* the time left until the client's flood gate opens
          pc,       \* where each client is inside Do
          sleep,    \* the time left of the Sleep it is in
          attempt,  \* the loop counter of Do
          backoff,  \* the sleep before the next retry
          ctxDone,  \* whether the caller's context is cancelled
          last,     \* what the last attempt came back with
          result,   \* what Do returns
          delay,    \* the delay the decoded response asks for
          asked,    \* the time the server still wants this login to wait
          posts,    \* the requests sent by the current Do
          since     \* the time since the last of them, up to SinceCap

clientVars == <<gate, pc, sleep, attempt, backoff, ctxDone, last, result, delay>>
vars == <<clientVars, asked, posts, since>>

\* What an attempt may end in.  A body with the fault marker counts as a body
\* whatever its status; flood_protection is a fault of its own.
Transient == {"5xx", "network"}
Final     == {"4xx", "too_large"}
Bodies    == {"response", "fault", "flood"}

Results == {"none", "body", "rejected", "exhausted", "cancelled"}

\* What a retry has to wait: each sleep is twice as long as the one before.
backoffs[n \in Nat] == IF n = 0 THEN defaultBackoff ELSE 2 * backoffs[n - 1]

\* No property looks at a longer time between two posts.
SinceCap == backoffs[MaxRetries]

Max2(a, b) == IF a > b THEN a ELSE b
Minus1(n)  == IF n > 0 THEN n - 1 ELSE 0

TypeOK ==
    /\ gate \in [Client -> Nat]
    /\ pc \in [Client -> {"idle", "gate", "post", "sent", "backoff", "returned"}]
    /\ sleep \in [Client -> Nat]
    /\ attempt \in [Client -> 0..MaxRetries]
    /\ backoff \in [Client -> Nat]
    /\ ctxDone \in [Client -> BOOLEAN]
    /\ last \in [Client -> {"none"} \cup Transient \cup Final \cup Bodies]
    /\ result \in [Client -> Results]
    /\ delay \in [Client -> Nat]
    /\ asked \in Nat
    /\ posts \in [Client -> 0..(MaxRetries + 1)]
    /\ since \in [Client -> Nat]

Init ==
    /\ gate = [c \in Client |-> 0]
    /\ pc = [c \in Client |-> "idle"]
    /\ sleep = [c \in Client |-> 0]
    /\ attempt = [c \in Client |-> 0]
    /\ backoff = [c \in Client |-> defaultBackoff]
    /\ ctxDone = [c \in Client |-> FALSE]
    /\ last = [c \in Client |-> "none"]
    /\ result = [c \in Client |-> "none"]
    /\ delay = [c \in Client |-> 0]
    /\ asked = 0
    /\ posts = [c \in Client |-> 0]
    /\ since = [c \in Client |-> 0]

Tick ==
    /\ gate' = [c \in Client |-> Minus1(gate[c])]
    /\ sleep' = [c \in Client |-> Minus1(sleep[c])]
    /\ asked' = Minus1(asked)
    /\ since' = [c \in Client |-> IF posts[c] > 0 /\ since[c] < SinceCap
                                  THEN since[c] + 1 ELSE since[c]]
    /\ UNCHANGED <<pc, attempt, backoff, ctxDone, last, result, delay, posts>>

\* The caller's context is cancelled while Do runs.
Cancel(c) ==
    /\ pc[c] \in {"gate", "post", "sent", "backoff"}
    /\ ~ctxDone[c]
    /\ ctxDone' = [ctxDone EXCEPT ![c] = TRUE]
    /\ UNCHANGED <<gate, pc, sleep, attempt, backoff, last, result, delay,
                   asked, posts, since>>

-------------------------------------------------------------------------------
\* The decisions of the code, and slips of the hand the properties must catch.

\* waitGate: how long to wait before the first attempt.
NoWait(c) == 0
waitGate(c) == gate[c]

\* The condition of Do's loop, seen after an attempt.
OneTooMany(c) == attempt[c] <= MaxRetries
OneTooFew(c) == attempt[c] + 1 < MaxRetries
AttemptsLeft(c) == attempt[c] < MaxRetries

\* attempt++ and backoff *= 2.
NextAttempt(n) == n + 1
SameBackoff(d) == d
NextBackoff(d) == 2 * d

\* doOnce wraps these in a retryableError.
AnyHTTPError(kind) == kind # "too_large"
Retryable(kind) == kind \in {"5xx", "network"}

\* The gate only ever moves later; an explicit zero clears it.
RecordDelay(c, d) ==
    gate' = [gate EXCEPT ![c] = IF d = 0 THEN 0 ELSE Max2(@, d)]

-------------------------------------------------------------------------------
\* The steps of Do.

\* Do is entered.  waitGate looks at the gate once: it computes the wait,
\* releases the mutex and sleeps for it.
Do(c) ==
    /\ pc[c] = "idle"
    /\ sleep' = [sleep EXCEPT ![c] = waitGate(c)]
    /\ pc' = [pc EXCEPT ![c] = IF waitGate(c) > 0 THEN "gate" ELSE "post"]
    /\ attempt' = [attempt EXCEPT ![c] = 0]
    /\ backoff' = [backoff EXCEPT ![c] = defaultBackoff]
    /\ ctxDone' = [ctxDone EXCEPT ![c] = FALSE]
    /\ last' = [last EXCEPT ![c] = "none"]
    /\ result' = [result EXCEPT ![c] = "none"]
    /\ posts' = [posts EXCEPT ![c] = 0]
    /\ since' = [since EXCEPT ![c] = 0]
    /\ UNCHANGED <<gate, delay, asked>>

return(c, res) ==
    /\ pc' = [pc EXCEPT ![c] = "returned"]
    /\ result' = [result EXCEPT ![c] = res]

\* A Sleep runs out.  After a backoff the next one is twice as long.
SleepEnds(c) ==
    /\ pc[c] \in {"gate", "backoff"}
    /\ sleep[c] = 0
    /\ pc' = [pc EXCEPT ![c] = "post"]
    /\ backoff' = [backoff EXCEPT ![c] = IF pc[c] = "backoff" THEN NextBackoff(@) ELSE @]
    /\ UNCHANGED <<gate, sleep, attempt, ctxDone, last, result, delay, asked,
                   posts, since>>

\* ctxSleep's select takes the cancellation (if both are ready, either).
SleepInterrupted(c) ==
    /\ pc[c] \in {"gate", "backoff"}
    /\ ctxDone[c]
    /\ return(c, "cancelled")
    /\ UNCHANGED <<gate, sleep, attempt, backoff, ctxDone, last, delay, asked,
                   posts, since>>

\* One attempt: doOnce posts the envelope ...
Post(c) ==
    /\ pc[c] = "post"
    /\ ~ctxDone[c]
    /\ pc' = [pc EXCEPT ![c] = "sent"]
    /\ posts' = [posts EXCEPT ![c] = @ + 1]
    /\ since' = [since EXCEPT ![c] = 0]
    /\ UNCHANGED <<gate, sleep, attempt, backoff, ctxDone, last, result, delay,
                   asked>>

\* ... or net/http refuses because the context is already done.
PostRefused(c) ==
    /\ pc[c] = "post"
    /\ ctxDone[c]
    /\ return(c, "cancelled")
    /\ UNCHANGED <<gate, sleep, attempt, backoff, ctxDone, last, delay, asked,
                   posts, since>>

\* A body: the caller gets it.  A KAS response carries a KasFloodDelay, which
\* the server holds the login to from here on; a fault carries none.
AnswerBody(c, kind, d) ==
    /\ pc[c] = "sent"
    /\ last' = [last EXCEPT ![c] = kind]
    /\ delay' = [delay EXCEPT ![c] = d]
    /\ asked' = IF kind = "response" THEN Max2(asked, d) ELSE asked
    /\ return(c, "body")
    /\ UNCHANGED <<gate, sleep, attempt, backoff, ctxDone, posts, since>>

\* The post or the read fails (connection, per-attempt timeout) under a
\* cancelled context: the caller's decision, not a transient condition.
AnswerCancelled(c) ==
    /\ pc[c] = "sent"
    /\ ctxDone[c]
    /\ return(c, "cancelled")
    /\ UNCHANGED <<gate, sleep, attempt, backoff, ctxDone, last, delay, asked,
                   posts, since>>

\* Any other error.  4xx and an oversized body end Do; after a 5xx without a
\* fault in it or a network error the loop goes on while attempts are left.
AnswerError(c, kind) ==
    /\ pc[c] = "sent"
    /\ kind = "network" => ~ctxDone[c]
    /\ last' = [last EXCEPT ![c] = kind]
    /\ \/ /\ Retryable(kind) /\ AttemptsLeft(c)
          /\ attempt' = [attempt EXCEPT ![c] = NextAttempt(@)]
          /\ sleep' = [sleep EXCEPT ![c] = backoff[c]]
          /\ pc' = [pc EXCEPT ![c] = "backoff"]
          /\ UNCHANGED result
       \/ /\ Retryable(kind) /\ ~AttemptsLeft(c)
          /\ return(c, "exhausted")
          /\ UNCHANGED <<attempt, sleep>>
       \/ /\ ~Retryable(kind)
          /\ return(c, "rejected")
          /\ UNCHANGED <<attempt, sleep>>
    /\ UNCHANGED <<gate, backoff, ctxDone, delay, asked, posts, since>>

Answer(c) ==
    \/ \E d \in Delays : AnswerBody(c, "response", d)
    \/ AnswerBody(c, "fault", 0)
    \/ AnswerBody(c, "flood", floodFallback)
    \/ \E kind \in Transient \cup Final : AnswerError(c, kind)
    \/ AnswerCancelled(c)

\* callOnce has the result of Do: it decodes a body and records the delay a
\* response carries, or the fallback after flood_protection.
Decode(c) ==
    /\ pc[c] = "returned"
    /\ pc' = [pc EXCEPT ![c] = "idle"]
    /\ IF result[c] = "body" /\ delay[c] > 0
       THEN RecordDelay(c, delay[c]) ELSE UNCHANGED gate
    /\ delay' = [delay EXCEPT ![c] = 0]
    /\ UNCHANGED <<sleep, attempt, backoff, ctxDone, last, result, asked, posts,
                   since>>

\* The client's own steps.
Run(c) ==
    SleepEnds(c) \/ SleepInterrupted(c) \/ Post(c) \/ PostRefused(c) \/ Decode(c)

Next ==
    \/ Tick
    \/ \E c \in Client : Do(c) \/ Cancel(c) \/ Run(c) \/ Answer(c)

Spec == Init /\ [][Next]_vars

\* Time passes, a client that can run does, and every attempt ends: net/http
\* gives up after HTTPClient.Timeout if nothing else happens (without one, an
\* attempt may last for ever).
NoTimeout == WF_vars(Tick) /\ \A c \in Client : WF_vars(Run(c))
Fairness ==
    /\ WF_vars(Tick)
    /\ \A c \in Client : WF_vars(Run(c)) /\ WF_vars(Answer(c))
FairSpec == Spec /\ Fairness

-------------------------------------------------------------------------------
\* Properties.

Sends(c) == posts'[c] = posts[c] + 1

\* No request reaches the server before the KasFloodDelay it last asked this
\* login to wait is over (README: "kasapi-cli honours it transparently").
DelayHonoured == [][\A c \in Client : Sends(c) => asked = 0]_vars

\* The same promise as README makes it to a user: of two calls one after the
\* other, the second waits until the delay of the first response is over.
SecondCallWaits ==
    [][\A c \in Client : pc[c] = "idle" /\ pc'[c] = "post" => asked = 0]_vars

\* A retry waits out its backoff, each twice as long as the one before.
RetriesAreSpaced ==
    [][\A c \in Client : Sends(c) /\ posts[c] > 0
         => since[c] >= backoffs[posts[c] - 1]]_vars

\* Only a transient failure is tried again: not a fault (which the typed-error
\* path handles), not a 4xx, not what the caller cancelled.
OnlyTransientIsRetried ==
    [][\A c \in Client : Sends(c) /\ posts[c] > 0
         => last[c] \in Transient /\ ~ctxDone[c]]_vars

\* What Do reports is what happened: success is a body of the last attempt,
\* "retries exhausted" means 1 + MaxRetries attempts, all transient failures,
\* and a cancellation is reported only to a caller that cancelled.
ResultIsFaithful ==
    \A c \in Client : pc[c] = "returned" =>
       /\ result[c] = "body"      => last[c] \in Bodies
       /\ result[c] = "rejected"  => last[c] \in Final
       /\ result[c] = "exhausted" => last[c] \in Transient /\ posts[c] = MaxRetries + 1
       /\ result[c] = "cancelled" => ctxDone[c]

\* Every Do returns, also one that waits in the gate, whatever the server does.
DoReturns == \A c \in Client : pc[c] \in {"gate", "post"} ~> pc[c] = "returned"
=============================================================================
