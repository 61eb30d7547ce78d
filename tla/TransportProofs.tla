---------------------------- MODULE TransportProofs ----------------------------
(***************************************************************************)
(* Proofs about Transport, for every MaxRetries, backoff and delay: types  *)
(* (with them the bound on the number of requests one Do sends), faithful  *)
(* results, that only transient failures are retried and none before its   *)
(* backoff is over, and, when the login is used through one client, that   *)
(* the server's delay is honoured.                                         *)
(***************************************************************************)
EXTENDS Transport, WellFoundedInduction, TLAPS

\* How many requests Do has sent, by where it is; and why it sends another.
PostsCounted ==
    \A c \in Client :
       /\ posts[c] <= attempt[c] + 1
       /\ pc[c] \in {"gate", "post", "backoff"} => posts[c] = attempt[c]
       /\ pc[c] = "sent" => posts[c] = attempt[c] + 1
       /\ pc[c] \in {"gate", "post", "backoff"} /\ posts[c] > 0
             => last[c] \in Transient

LoopInv == TypeOK /\ PostsCounted /\ ResultIsFaithful

LEMMA InitLoop == Init => LoopInv
BY BackoffAssumption, MaxRetriesAssumption
DEF Init, LoopInv, TypeOK, PostsCounted, ResultIsFaithful, Results

LEMMA NextLoop == LoopInv /\ [Next]_vars => LoopInv'
<1> SUFFICES ASSUME LoopInv, [Next]_vars PROVE LoopInv'
  OBVIOUS
<1> USE MaxRetriesAssumption, BackoffAssumption, DelaysAssumption,
        FloodFallbackAssumption
    DEF LoopInv, TypeOK, PostsCounted, ResultIsFaithful, Results
<1>1. CASE Tick
  BY <1>1 DEF Tick, Minus1
<1>2. ASSUME NEW c \in Client, Do(c) PROVE LoopInv'
  BY <1>2 DEF Do, waitGate
<1>3. ASSUME NEW c \in Client, Cancel(c) PROVE LoopInv'
  BY <1>3 DEF Cancel
<1>4. ASSUME NEW c \in Client, SleepEnds(c) PROVE LoopInv'
  <2>1. backoff' \in [Client -> Nat]
    <3>1. backoff[c] \in Nat /\ NextBackoff(backoff[c]) \in Nat
      BY DEF NextBackoff
    <3> QED
      BY <1>4, <3>1 DEF SleepEnds
  <2>2. TypeOK'
    BY <1>4, <2>1 DEF SleepEnds
  <2>3. PostsCounted' /\ ResultIsFaithful'
    <3>1. /\ pc[c] \in {"gate", "backoff"} /\ pc' = [pc EXCEPT ![c] = "post"]
          /\ UNCHANGED <<posts, attempt, last, result, ctxDone>>
      BY <1>4 DEF SleepEnds
    <3> QED
      BY <3>1
  <2> QED
    BY <2>2, <2>3
<1>5. ASSUME NEW c \in Client,
             SleepInterrupted(c) \/ PostRefused(c) \/ AnswerCancelled(c)
      PROVE  LoopInv'
  BY <1>5 DEF SleepInterrupted, PostRefused, AnswerCancelled, return
<1>6. ASSUME NEW c \in Client, Post(c) PROVE LoopInv'
  BY <1>6 DEF Post
<1>7. ASSUME NEW c \in Client, NEW kind \in Bodies, NEW d \in Nat,
             AnswerBody(c, kind, d)
      PROVE  LoopInv'
  BY <1>7 DEF AnswerBody, return, Max2, Bodies
<1>8. ASSUME NEW c \in Client, NEW kind \in Transient \cup Final,
             AnswerError(c, kind)
      PROVE  LoopInv'
  BY <1>8 DEF AnswerError, return, Retryable, AttemptsLeft, NextAttempt,
              Transient, Final
<1>9. ASSUME NEW c \in Client, Decode(c) PROVE LoopInv'
  BY <1>9 DEF Decode, RecordDelay, Max2
<1>10. CASE UNCHANGED vars
  BY <1>10 DEF vars, clientVars
<1> QED
  BY <1>1, <1>2, <1>3, <1>4, <1>5, <1>6, <1>7, <1>8, <1>9, <1>10
  DEF Next, Run, Answer, Bodies

LEMMA LoopInvariance == Spec => []LoopInv
BY InitLoop, NextLoop, PTL DEF Spec

\* Types; a Do sends at most 1 + MaxRetries requests.
THEOREM TypeCorrect == Spec => []TypeOK
<1>1. LoopInv => TypeOK
  BY DEF LoopInv
<1> QED
  BY <1>1, LoopInvariance, PTL

\* What Do returns is what its last attempt, or its caller, did.
THEOREM ResultIsFaithfulCorrect == Spec => []ResultIsFaithful
<1>1. LoopInv => ResultIsFaithful
  BY DEF LoopInv
<1> QED
  BY <1>1, LoopInvariance, PTL

\* Only Post sends a request.
LEMMA SendsPosts ==
    ASSUME LoopInv, [Next]_vars, NEW c \in Client, Sends(c)
    PROVE  Post(c)
<1>1. posts[c] \in Nat
  BY MaxRetriesAssumption DEF LoopInv, TypeOK
<1>2. ~Do(c)
  BY <1>1 DEF Do, Sends, LoopInv, TypeOK
<1> QED
  BY <1>1, <1>2
  DEF Next, Tick, Do, Cancel, Run, SleepEnds, SleepInterrupted, Post, PostRefused,
      Answer, AnswerBody, AnswerError, AnswerCancelled, Decode, Sends, vars,
      LoopInv, TypeOK

\* Every request after the first follows a transient failure under a live
\* context: faults and 4xx are never sent again.
THEOREM OnlyTransientIsRetriedCorrect == Spec => OnlyTransientIsRetried
<1>1. ASSUME LoopInv, [Next]_vars, NEW c \in Client, Sends(c), posts[c] > 0
      PROVE  last[c] \in Transient /\ ~ctxDone[c]
  <2>1. Post(c)
    BY <1>1, SendsPosts
  <2> QED
    BY <1>1, <2>1 DEF Post, LoopInv, PostsCounted
<1>2. LoopInv /\ [Next]_vars =>
        [\A c \in Client : Sends(c) /\ posts[c] > 0
            => last[c] \in Transient /\ ~ctxDone[c]]_vars
  BY <1>1
<1> QED
  BY <1>2, LoopInvariance, PTL DEF Spec, OnlyTransientIsRetried

-------------------------------------------------------------------------------
\* The sequence of backoffs.  Induction is by the least counterexample: a
\* nonempty set of naturals has a least element, by the library's WFMin.

LEMMA Least ==
    ASSUME NEW T, T \subseteq Nat, T # {}
    PROVE  \E x \in T : \A y \in T : x <= y
<1>1. \E R : IsWellFoundedOn(R, Nat) /\ \A x, y \in Nat : y < x => <<y, x>> \in R
  <2>1. \A x, y \in Nat : y < x => <<y, x>> \in OpToRel(<, Nat)
    BY DEF OpToRel
  <2> QED
    BY <2>1, NatLessThanWellFounded, Zenon
<1>2. PICK R : IsWellFoundedOn(R, Nat) /\ \A x, y \in Nat : y < x => <<y, x>> \in R
  BY <1>1
<1>3. PICK x \in T : \A y \in T : <<y, x>> \notin R
  BY <1>2, WFMin
<1>4. ASSUME NEW y \in T PROVE x <= y
  <2>1. x \in Nat /\ y \in Nat /\ ~(y < x)
    BY <1>2, <1>3
  <2> QED
    BY <2>1
<1> QED
  BY <1>4

\* g doubles from defaultBackoff, up to n: a piece of backoffs.
Doubles(g, n) ==
    /\ g \in [0..n -> Nat]
    /\ g[0] = defaultBackoff
    /\ \A k \in 1..n : g[k] = 2 * g[k - 1]

LEMMA DoublesExist ==
    ASSUME NEW n \in Nat
    PROVE  \E g : Doubles(g, n)
<1> DEFINE T == {k \in Nat : ~\E g : Doubles(g, k)}
<1> SUFFICES ASSUME T # {} PROVE FALSE
  OBVIOUS
<1>1. PICK k \in T : \A j \in T : k <= j
  <2> HIDE DEF T
  <2>1. T \subseteq Nat
    BY DEF T
  <2> QED
    BY <2>1, Least
<1>2. k \in Nat /\ ~\E g : Doubles(g, k)
  OBVIOUS
<1>3. CASE k = 0
  <2>1. Doubles([i \in 0..0 |-> defaultBackoff], 0)
    BY BackoffAssumption DEF Doubles
  <2> QED
    BY <1>2, <1>3, <2>1
<1>4. CASE k # 0
  <2>1. k - 1 \in Nat /\ ~(k <= k - 1)
    BY <1>2, <1>4
  <2>2. PICK g : Doubles(g, k - 1)
    BY <2>1, <1>1
  <2>3. Doubles([i \in 0..k |-> IF i = k THEN 2 * g[k - 1] ELSE g[i]], k)
    BY <2>1, <2>2, <1>2, <1>4 DEF Doubles
  <2> QED
    BY <1>2, <2>3
<1> QED
  BY <1>3, <1>4

LEMMA DoublesAgree ==
    ASSUME NEW m \in Nat, NEW n \in Nat, m <= n,
           NEW g, NEW h, Doubles(g, m), Doubles(h, n)
    PROVE  g[m] = h[m]
<1> DEFINE T == {k \in 0..m : g[k] # h[k]}
<1> SUFFICES ASSUME T # {} PROVE FALSE
  OBVIOUS
<1>1. PICK k \in T : \A j \in T : k <= j
  <2> HIDE DEF T
  <2>1. T \subseteq Nat
    BY DEF T
  <2> QED
    BY <2>1, Least
<1>2. k \in 0..m /\ g[k] # h[k] /\ k # 0
  BY DEF Doubles
<1>3. k - 1 \in 0..m /\ k \in 1..m /\ k \in 1..n /\ g[k - 1] = h[k - 1]
  BY <1>1, <1>2
<1> QED
  BY <1>2, <1>3 DEF Doubles

\* The recursive definition has a solution, the union of those pieces.
LEMMA BackoffsDefined ==
    backoffs = [n \in Nat |-> IF n = 0 THEN defaultBackoff ELSE 2 * backoffs[n - 1]]
<1> DEFINE upto(n) == CHOOSE g : Doubles(g, n)
           f == [n \in Nat |-> upto(n)[n]]
<1>1. \A n \in Nat : Doubles(upto(n), n)
  BY DoublesExist
<1> HIDE DEF upto
<1>2. ASSUME NEW n \in Nat, n # 0 PROVE f[n] = 2 * f[n - 1]
  <2>1. n - 1 \in Nat /\ n \in 1..n /\ n - 1 <= n
    BY <1>2
  <2>2. upto(n - 1)[n - 1] = upto(n)[n - 1]
    BY <1>1, <2>1, DoublesAgree
  <2> QED
    BY <1>1, <2>1, <2>2 DEF Doubles
<1>3. f[0] = defaultBackoff
  BY <1>1 DEF Doubles
<1>4. f = [n \in Nat |-> IF n = 0 THEN defaultBackoff ELSE 2 * f[n - 1]]
  BY <1>2, <1>3
<1> HIDE DEF f
<1> QED
  BY <1>4, Zenon DEF backoffs

LEMMA Doubling ==
    /\ backoffs[0] = defaultBackoff
    /\ \A n \in Nat : backoffs[n] \in Nat /\ backoffs[n + 1] = 2 * backoffs[n]
<1>1. backoffs[0] = defaultBackoff
  BY BackoffsDefined
<1>2. ASSUME NEW n \in Nat PROVE backoffs[n + 1] = 2 * backoffs[n]
  <2>1. n + 1 \in Nat /\ n + 1 # 0 /\ (n + 1) - 1 = n
    OBVIOUS
  <2> QED
    BY <2>1, BackoffsDefined
<1>3. ASSUME NEW n \in Nat PROVE backoffs[n] \in Nat
  <2> DEFINE T == {k \in Nat : backoffs[k] \notin Nat}
  <2> SUFFICES ASSUME T # {} PROVE FALSE
    OBVIOUS
  <2>1. PICK k \in T : \A j \in T : k <= j
    <3> HIDE DEF T
    <3>1. T \subseteq Nat
      BY DEF T
    <3> QED
      BY <3>1, Least
  <2>2. k \in Nat /\ k # 0
    BY <1>1, BackoffAssumption
  <2>3. k - 1 \in Nat /\ backoffs[k - 1] \in Nat /\ (k - 1) + 1 = k
    BY <2>1, <2>2
  <2>4. backoffs[k] = 2 * backoffs[k - 1]
    BY <1>2, <2>3
  <2> QED
    BY <2>3, <2>4
<1> QED
  BY <1>1, <1>2, <1>3

LEMMA BackoffsGrow ==
    ASSUME NEW m \in Nat, NEW n \in Nat, m <= n
    PROVE  backoffs[m] <= backoffs[n]
<1> DEFINE T == {k \in Nat : m <= k /\ ~(backoffs[m] <= backoffs[k])}
<1> SUFFICES ASSUME T # {} PROVE FALSE
  OBVIOUS
<1>1. PICK k \in T : \A j \in T : k <= j
  <2> HIDE DEF T
  <2>1. T \subseteq Nat
    BY DEF T
  <2> QED
    BY <2>1, Least
<1>2. k \in Nat /\ m < k /\ ~(backoffs[m] <= backoffs[k])
  BY Doubling
<1>3. k - 1 \in Nat /\ backoffs[m] <= backoffs[k - 1] /\ (k - 1) + 1 = k
  BY <1>1, <1>2
<1>4. backoffs[k] = 2 * backoffs[k - 1] /\ backoffs[k - 1] \in Nat
  BY <1>3, Doubling
<1> QED
  BY <1>2, <1>3, <1>4, Doubling

-------------------------------------------------------------------------------
\* The spacing of the retries.

\* The loop counter and the backoff go together; while a client sleeps, what
\* it has slept and what is left of it make up the backoff; and when it is
\* about to try again the backoff is behind it.
Spaced ==
    \A c \in Client :
       /\ pc[c] = "gate" => attempt[c] = 0
       /\ pc[c] \in {"gate", "post", "sent"} => backoff[c] = backoffs[attempt[c]]
       /\ pc[c] = "backoff" =>
             /\ attempt[c] > 0
             /\ backoff[c] = backoffs[attempt[c] - 1]
             /\ sleep[c] + since[c] >= backoffs[attempt[c] - 1]
       /\ pc[c] = "post" /\ attempt[c] > 0 => since[c] >= backoffs[attempt[c] - 1]

SpacingInv == LoopInv /\ Spaced

LEMMA NextSpacing == SpacingInv /\ [Next]_vars => SpacingInv'
<1> SUFFICES ASSUME SpacingInv, [Next]_vars PROVE SpacingInv'
  OBVIOUS
<1>0. LoopInv'
  BY NextLoop DEF SpacingInv
<1> USE MaxRetriesAssumption, BackoffAssumption
    DEF SpacingInv, LoopInv, TypeOK, PostsCounted, Spaced
<1>1. ASSUME Tick PROVE Spaced'
  <2>1. ASSUME NEW c \in Client, attempt[c] > 0
        PROVE  backoffs[attempt[c] - 1] \in Nat /\ backoffs[attempt[c] - 1] <= SinceCap
    <3>1. attempt[c] - 1 \in Nat /\ attempt[c] - 1 <= MaxRetries
      BY <2>1
    <3> QED
      BY <3>1, Doubling, BackoffsGrow DEF SinceCap
  <2>2. SinceCap \in Nat
    BY Doubling DEF SinceCap
  <2>3. ASSUME NEW c \in Client, posts[c] > 0
        PROVE  \/ since'[c] = since[c] + 1
               \/ since'[c] = since[c] /\ since[c] >= SinceCap
    BY <1>1, <2>2, <2>3 DEF Tick
  <2>4. \A c \in Client : sleep'[c] \in Nat /\ sleep'[c] + 1 >= sleep[c]
    BY <1>1 DEF Tick, Minus1
  <2>5. UNCHANGED <<pc, attempt, backoff, posts>>
    BY <1>1 DEF Tick
  <2>6. ASSUME NEW c \in Client, pc[c] = "backoff"
        PROVE  sleep'[c] + since'[c] >= backoffs[attempt[c] - 1]
    BY <2>1, <2>2, <2>3, <2>4, <2>6
  <2>7. ASSUME NEW c \in Client, pc[c] = "post", attempt[c] > 0
        PROVE  since'[c] >= backoffs[attempt[c] - 1]
    BY <2>1, <2>2, <2>3, <2>7
  <2> HIDE DEF LoopInv, TypeOK, PostsCounted
  <2> QED
    BY <1>0, <2>5, <2>6, <2>7
<1>2. ASSUME NEW c \in Client, Do(c) PROVE Spaced'
  BY <1>2, Doubling DEF Do, waitGate
<1>3. ASSUME NEW c \in Client, Cancel(c) PROVE Spaced'
  BY <1>3 DEF Cancel
<1>4. ASSUME NEW c \in Client, SleepEnds(c) PROVE Spaced'
  <2>1. CASE pc[c] = "gate"
    BY <1>4, <2>1 DEF SleepEnds
  <2>2. CASE pc[c] = "backoff"
    <3>1. attempt[c] - 1 \in Nat /\ (attempt[c] - 1) + 1 = attempt[c]
      BY <2>2
    <3>2. backoffs[attempt[c]] = 2 * backoffs[attempt[c] - 1]
      BY <3>1, Doubling
    <3>3. /\ pc' = [pc EXCEPT ![c] = "post"]
          /\ backoff' = [backoff EXCEPT ![c] = 2 * backoff[c]]
          /\ since[c] >= backoffs[attempt[c] - 1]
          /\ UNCHANGED <<sleep, since, attempt, posts>>
      BY <1>4, <2>2 DEF SleepEnds, NextBackoff
    <3> QED
      BY <2>2, <3>2, <3>3
  <2> QED
    BY <1>4, <2>1, <2>2 DEF SleepEnds
<1>5. ASSUME NEW c \in Client,
             SleepInterrupted(c) \/ PostRefused(c) \/ AnswerCancelled(c)
      PROVE  Spaced'
  BY <1>5 DEF SleepInterrupted, PostRefused, AnswerCancelled, return
<1>6. ASSUME NEW c \in Client, Post(c) PROVE Spaced'
  BY <1>6 DEF Post
<1>7. ASSUME NEW c \in Client, NEW kind, NEW d, AnswerBody(c, kind, d)
      PROVE  Spaced'
  BY <1>7 DEF AnswerBody, return
<1>8. ASSUME NEW c \in Client, NEW kind, AnswerError(c, kind) PROVE Spaced'
  BY <1>8, Doubling DEF AnswerError, return, AttemptsLeft, NextAttempt
<1>9. ASSUME NEW c \in Client, Decode(c) PROVE Spaced'
  BY <1>9 DEF Decode
<1>10. ASSUME UNCHANGED vars PROVE Spaced'
  BY <1>10 DEF vars, clientVars
<1>11. Spaced'
  <2> HIDE DEF SpacingInv, LoopInv, TypeOK, PostsCounted, Spaced
  <2> QED
    BY <1>1, <1>2, <1>3, <1>4, <1>5, <1>6, <1>7, <1>8, <1>9, <1>10
    DEF Next, Run, Answer, SpacingInv
<1> QED
  BY <1>0, <1>11 DEF SpacingInv

\* No retry leaves before its backoff is over, and the backoffs double: for
\* every number of retries and every first backoff.
THEOREM RetriesAreSpacedCorrect == Spec => RetriesAreSpaced
<1>1. Init => SpacingInv
  BY InitLoop, Doubling DEF Init, SpacingInv, Spaced
<1>2. ASSUME SpacingInv, [Next]_vars, NEW c \in Client, Sends(c), posts[c] > 0
      PROVE  since[c] >= backoffs[posts[c] - 1]
  <2>1. Post(c)
    BY <1>2, SendsPosts DEF SpacingInv
  <2> QED
    BY <1>2, <2>1 DEF Post, SpacingInv, Spaced, LoopInv, PostsCounted
<1>3. SpacingInv /\ [Next]_vars =>
        [\A c \in Client : Sends(c) /\ posts[c] > 0
            => since[c] >= backoffs[posts[c] - 1]]_vars
  BY <1>2
<1> QED
  BY <1>1, <1>3, NextSpacing, PTL DEF Spec, RetriesAreSpaced

-------------------------------------------------------------------------------
\* The flood gate, for a login that is used through a single client.

\* The client's own timers cover what the server asked for: its gate, what is
\* left of its gate sleep, or the delay in a response it has yet to decode.
GateCovers ==
    \A c \in Client :
       /\ pc[c] = "idle" => asked <= gate[c]
       /\ pc[c] = "gate" => asked <= sleep[c] /\ asked <= gate[c]
       /\ pc[c] \in {"post", "sent", "backoff"} => asked = 0
       /\ pc[c] = "returned" =>
             \/ asked <= gate[c]
             \/ asked <= delay[c] /\ result[c] = "body"

GateInv == LoopInv /\ GateCovers

OneClient == \A c, d \in Client : c = d

LEMMA NextGate ==
    ASSUME OneClient, GateInv, [Next]_vars
    PROVE  GateInv'
<1>1. LoopInv'
  BY NextLoop DEF GateInv
<1> USE DelaysAssumption, FloodFallbackAssumption
    DEF GateInv, LoopInv, TypeOK, GateCovers, OneClient
<1>2. CASE Tick
  BY <1>1, <1>2 DEF Tick, Minus1
<1>3. ASSUME NEW c \in Client,
             Do(c) \/ Cancel(c) \/ SleepEnds(c) \/ Post(c)
      PROVE  GateCovers'
  BY <1>3 DEF Do, waitGate, Cancel, SleepEnds, Post
<1>4. ASSUME NEW c \in Client,
             SleepInterrupted(c) \/ PostRefused(c) \/ AnswerCancelled(c)
      PROVE  GateCovers'
  BY <1>4 DEF SleepInterrupted, PostRefused, AnswerCancelled, return
<1>5. ASSUME NEW c \in Client, NEW kind \in Bodies, NEW d \in Nat,
             AnswerBody(c, kind, d)
      PROVE  GateCovers'
  BY <1>5 DEF AnswerBody, return, Max2
<1>6. ASSUME NEW c \in Client, NEW kind, AnswerError(c, kind)
      PROVE  GateCovers'
  BY <1>6 DEF AnswerError, return
<1>7. ASSUME NEW c \in Client, Decode(c) PROVE GateCovers'
  BY <1>7 DEF Decode, RecordDelay, Max2
<1>8. CASE UNCHANGED vars
  BY <1>1, <1>8 DEF vars, clientVars
<1>9. GateCovers'
  BY <1>2, <1>3, <1>4, <1>5, <1>6, <1>7, <1>8 DEF Next, Run, Answer, Bodies
<1> QED
  BY <1>1, <1>9

\* With one client, no request is sent before the delay the server asked for
\* is over, whatever mixture of responses, faults and retries went before.
THEOREM DelayHonouredCorrect == OneClient /\ Spec => DelayHonoured
<1> SUFFICES ASSUME OneClient PROVE Spec => DelayHonoured
  OBVIOUS
<1>1. Init => GateInv
  BY InitLoop DEF Init, GateInv, GateCovers
<1>2. GateInv /\ [Next]_vars => GateInv'
  BY NextGate
<1>3. ASSUME GateInv, [Next]_vars, NEW c \in Client, Sends(c)
      PROVE  asked = 0
  <2>1. Post(c)
    BY <1>3, SendsPosts DEF GateInv
  <2> QED
    BY <1>3, <2>1 DEF Post, GateInv, GateCovers
<1>4. GateInv /\ [Next]_vars => [\A c \in Client : Sends(c) => asked = 0]_vars
  BY <1>3
<1> QED
  BY <1>1, <1>2, <1>4, PTL DEF Spec, DelayHonoured
===============================================================================
