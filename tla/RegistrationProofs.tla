-------------------------- MODULE RegistrationProofs -------------------------
(***************************************************************************)
(* The rate limit circuit and the consumers before it, for any consumers,  *)
(* exits and durations: who has the probe, what is submitted during a      *)
(* recovery, and how long a limited exit rests.                            *)
(***************************************************************************)
EXTENDS Registration, FiniteSetTheorems, TLAPS

\* The places after a page was opened.
WithPage == {"verifying", "submitting", "limited", "registered"}

\* Whoever has a token had it made for itself, for the attempt it is in.
TokensOwned ==
  \A c \in C : token[c] # NoToken => token[c] = c /\ pc[c] \in InAttempt

\* Before the circuit is closed again the only submission that is not older
\* than the last trip is that of the probe: OneRecoverySubmission counts one.
SubmissionsProbe ==
  /\ \A c \in since : pc[c] = "submitting"
  /\ Global /\ (tripped \/ ~NotRecovering) => \A c \in since : c = probe_token

\* A probe is handed out after the cooldown, in scope "global" alone, and only
\* as long as the circuit is not closed; there is no cooldown without a trip.
ProbeAfterCooldown ==
  /\ probe_token # NoToken => Global /\ cool = 0 /\ (tripped \/ ~NotRecovering)
  /\ Global /\ ~tripped => cool = 0

CircuitInv ==
  TypeOK /\ ProbeCarried /\ TokensOwned /\ SubmissionsProbe /\ ProbeAfterCooldown

LEMMA Durations ==
  /\ 0 \in 0 .. Cooldown /\ Cooldown \in 0 .. Cooldown
  /\ -1 \in -1 .. Recovery /\ Recovery \in -1 .. Recovery
  /\ 0 \in 0 .. Interval /\ Interval \in 0 .. Interval
BY CircuitAssumption

LEMMA CircuitInitInv == Init => CircuitInv
<1> SUFFICES ASSUME Init PROVE CircuitInv
  OBVIOUS
<1>1. TypeOK
  <2>1. CircuitTypeOK
    BY Durations DEF Init, CircuitInit, CircuitTypeOK
  <2> QED
    BY <2>1, Durations DEF Init, TypeOK, Place, Outlets
<1>2. ProbeCarried /\ TokensOwned /\ SubmissionsProbe /\ ProbeAfterCooldown
  BY DEF Init, CircuitInit, ProbeCarried, TokensOwned, SubmissionsProbe,
         ProbeAfterCooldown
<1> QED
  BY <1>1, <1>2 DEF CircuitInv

\* A consumer moves on, its token and page aside: the circuit is as it was.
LEMMA MoveInv ==
  ASSUME CircuitInv, NEW c \in C, NEW to \in Place, Goes(c, to),
         to \in InAttempt \/ token[c] = NoToken,
         UNCHANGED circuitVars, UNCHANGED <<token, rest>>,
         exit' \in [C -> Outlets],
         \/ since' = since /\ pc[c] # "submitting"
         \/ since' = since \ {c}
         \/ /\ since' = since \cup {c} /\ to = "submitting"
            /\ Global /\ (tripped \/ ~NotRecovering) => c = probe_token
  PROVE  CircuitInv'
<1>1. /\ pc' \in [C -> Place] /\ pc'[c] = to
      /\ \A d \in C : d # c => pc'[d] = pc[d]
  BY DEF Goes, CircuitInv, TypeOK
<1>2. TypeOK'
  BY <1>1 DEF CircuitInv, TypeOK, CircuitTypeOK, circuitVars
<1>3. TokensOwned' /\ ProbeCarried'
  BY <1>1, CircuitAssumption
  DEF CircuitInv, TokensOwned, ProbeCarried, circuitVars, TypeOK, CircuitTypeOK
<1>4. \A d \in since' : pc'[d] = "submitting"
  BY <1>1 DEF CircuitInv, SubmissionsProbe, TypeOK
<1>5. SubmissionsProbe' /\ ProbeAfterCooldown'
  BY <1>4 DEF CircuitInv, SubmissionsProbe, ProbeAfterCooldown, circuitVars,
              Global, NotRecovering
<1> QED
  BY <1>2, <1>3, <1>5 DEF CircuitInv

LEMMA ConsumerMovesInv ==
  ASSUME CircuitInv, NEW c \in C,
         \/ Claim(c) \/ Start(c) \/ Open(c) \/ Submit(c) \/ Limited(c)
         \/ Registered(c)
  PROVE  CircuitInv'
<1>1. CASE Claim(c)
  BY <1>1, MoveInv DEF Claim, CircuitInv, TypeOK, TokensOwned, Place, InAttempt
<1>2. CASE Start(c)
  BY <1>2, MoveInv DEF Start, CircuitInv, TypeOK, Place, InAttempt
<1>3. CASE Open(c)
  BY <1>3, MoveInv DEF Open, CircuitInv, TypeOK, Place, InAttempt
<1>4. CASE Submit(c)
  <2>1. Global /\ (tripped \/ ~NotRecovering) => c = probe_token
    BY <1>4, CircuitAssumption DEF Submit, can_submit, CircuitInv, TokensOwned
  <2> QED
    BY <1>4, <2>1, MoveInv DEF Submit, CircuitInv, TypeOK, Place, InAttempt
<1>5. CASE Limited(c)
  BY <1>5, MoveInv DEF Limited, CircuitInv, TypeOK, Place, InAttempt
<1>6. CASE Registered(c)
  BY <1>6, MoveInv DEF Registered, CircuitInv, TypeOK, Place, InAttempt
<1> QED
  BY <1>1, <1>2, <1>3, <1>4, <1>5, <1>6

\* The end of an attempt, once more with an unchanged or a moved circuit: no
\* probe is left with a consumer that is gone, and a trip forgets them all.
LEMMA LeaveInv ==
  ASSUME CircuitInv, NEW c \in C, Leaves(c), CircuitTypeOK',
         since' \subseteq since \ {c}, rest' \in [Outlets -> 0 .. Cooldown],
         scope' = scope, probe_token' \in {probe_token, NoToken},
         probe_token' # c,
         probe_token' # NoToken =>
           cool' = 0 /\ tripped' = tripped /\ recovering' = recovering,
         Global /\ ~tripped' => cool' = 0,
         \/ since' = {}
         \/ probe_token' = probe_token /\ tripped' = tripped
            /\ recovering' = recovering
         \/ probe_token = c
         \/ ~Global
  PROVE  CircuitInv'
<1>1. /\ pc' \in [C -> Place] /\ token' \in [C -> C \cup {NoToken}]
      /\ exit' \in [C -> Outlets] /\ pc'[c] = "idle" /\ token'[c] = NoToken
      /\ \A d \in C : d # c => pc'[d] = pc[d] /\ token'[d] = token[d]
  BY DEF Leaves, Goes, CircuitInv, TypeOK, Place, Outlets
<1>2. TypeOK'
  BY <1>1 DEF CircuitInv, TypeOK
<1>3. TokensOwned'
  BY <1>1 DEF CircuitInv, TokensOwned
<1>4. ProbeCarried'
  <2>1. probe_token' # NoToken => probe_token' \in C /\ probe_token' = probe_token
    BY <1>2 DEF TypeOK, CircuitTypeOK
  <2> QED
    BY <1>1, <2>1 DEF CircuitInv, ProbeCarried
<1>5. SubmissionsProbe'
  <2>1. \A d \in since' : d \in C /\ d # c /\ pc'[d] = "submitting"
    BY <1>1 DEF CircuitInv, SubmissionsProbe, TypeOK
  <2>2. ASSUME Global', (tripped \/ ~NotRecovering)', NEW d \in since'
        PROVE  d = probe_token'
    <3>1. CASE probe_token' = probe_token /\ tripped' = tripped
               /\ recovering' = recovering
      BY <2>1, <2>2, <3>1 DEF CircuitInv, SubmissionsProbe, Global, NotRecovering
    <3>2. CASE probe_token = c
      BY <2>1, <2>2, <3>2, CircuitAssumption
      DEF CircuitInv, SubmissionsProbe, ProbeAfterCooldown, Global, NotRecovering
    <3> QED
      BY <2>2, <3>1, <3>2 DEF Global
  <2> QED
    BY <2>1, <2>2 DEF SubmissionsProbe
<1>6. ProbeAfterCooldown'
  BY DEF CircuitInv, ProbeAfterCooldown, Global, NotRecovering
<1> QED
  BY <1>2, <1>3, <1>4, <1>5, <1>6 DEF CircuitInv

LEMMA TripInv ==
  ASSUME CircuitInv, NEW c \in C, Trip(c)
  PROVE  CircuitInv'
<1>1. CircuitTypeOK'
  <2>1. proxy_cool' \in [Exit -> 0 .. Cooldown]
    <3>1. CASE exit[c] \in Exit
      BY <3>1, Durations DEF Trip, trip, CircuitInv, TypeOK, CircuitTypeOK
    <3>2. CASE exit[c] \notin Exit
      BY <3>2 DEF Trip, trip, CircuitInv, TypeOK, CircuitTypeOK
    <3> QED
      BY <3>1, <3>2
  <2>2. CASE ~Global /\ exit[c] # Direct
    BY <2>1, <2>2 DEF Trip, trip, CircuitInv, TypeOK, CircuitTypeOK
  <2>3. CASE ~(~Global /\ exit[c] # Direct)
    BY <2>1, <2>3, Durations DEF Trip, trip, CircuitInv, TypeOK, CircuitTypeOK
  <2> QED
    BY <2>2, <2>3
<1>2. rest' \in [Outlets -> 0 .. Cooldown]
  BY Durations DEF Trip, CircuitInv, TypeOK
<1>4. probe_token' # c /\ probe_token' \in {probe_token, NoToken}
  BY CircuitAssumption
  DEF Trip, trip, CircuitInv, ProbeAfterCooldown, Global
<1>5. since' = {} /\ Leaves(c) /\ scope' = scope
  BY DEF Trip, trip
<1>6. probe_token' # NoToken =>
        cool' = 0 /\ tripped' = tripped /\ recovering' = recovering
  BY DEF Trip, trip, CircuitInv, ProbeAfterCooldown, Global
<1>7. Global /\ ~tripped' => cool' = 0
  BY DEF Trip, trip, Global
<1> QED
  BY <1>1, <1>2, <1>4, <1>5, <1>6, <1>7, LeaveInv

LEMMA EndsInv ==
  ASSUME CircuitInv, NEW c \in C, StartExpired(c) \/ Persist(c) \/ Abort(c)
  PROVE  CircuitInv'
<1>1. token[c] \in {c, NoToken} /\ pc[c] \in InAttempt
  BY DEF CircuitInv, TokensOwned, StartExpired, Persist, Abort, InAttempt, Place
<1>2. probe_token = c => token[c] = c
  BY CircuitAssumption DEF CircuitInv, ProbeCarried
<1>3. /\ Leaves(c) /\ since' \subseteq since \ {c} /\ rest' = rest
  BY DEF StartExpired, Persist, Abort, CircuitInv, SubmissionsProbe
<1>4. /\ CircuitTypeOK' /\ scope' = scope
  <2>1. CASE StartExpired(c)
    BY <2>1 DEF StartExpired, release_probe, CircuitInv, TypeOK, CircuitTypeOK
  <2>2. CASE Persist(c)
    BY <2>2, Durations
    DEF Persist, consume_recovery_seconds, circuitVars, CircuitInv, TypeOK,
        CircuitTypeOK
  <2>3. CASE Abort(c)
    BY <2>3, Durations
    DEF Abort, defer_probe, circuitVars, CircuitInv, TypeOK, CircuitTypeOK
  <2> QED
    BY <2>1, <2>2, <2>3
<1>5. /\ probe_token' \in {probe_token, NoToken} /\ probe_token' # c
      /\ probe_token' # NoToken =>
           cool' = 0 /\ tripped' = tripped /\ recovering' = recovering
      /\ Global /\ ~tripped' => cool' = 0
      /\ \/ probe_token' = probe_token /\ tripped' = tripped
           /\ recovering' = recovering
         \/ probe_token = c
  <2>1. CASE StartExpired(c)
    BY <1>1, <1>2, <2>1, CircuitAssumption
    DEF StartExpired, release_probe, CircuitInv, ProbeAfterCooldown
  <2>2. CASE Persist(c)
    BY <1>1, <1>2, <2>2, CircuitAssumption
    DEF Persist, consume_recovery_seconds, circuitVars, CircuitInv,
        ProbeAfterCooldown
  <2>3. CASE Abort(c)
    BY <1>1, <1>2, <2>3, CircuitAssumption
    DEF Abort, defer_probe, circuitVars, CircuitInv, ProbeAfterCooldown
  <2> QED
    BY <2>1, <2>2, <2>3
<1> QED
  BY <1>3, <1>4, <1>5, LeaveInv DEF CircuitInv, TypeOK

LEMMA GateInv ==
  ASSUME CircuitInv, NEW c \in C, Pass(c) \/ PassExpired(c)
  PROVE  CircuitInv'
<1>1. /\ pc[c] = "gate" /\ token[c] = NoToken /\ probe_token # c
      /\ UNCHANGED <<exit, since, rest>>
  BY CircuitAssumption
  DEF Pass, PassExpired, CircuitInv, TokensOwned, ProbeCarried, InAttempt
<1>2. PICK to \in {"starting", "idle"} :
        /\ Goes(c, to)
        /\ \/ wait_free /\ UNCHANGED token
           \/ UNCHANGED circuitVars /\ UNCHANGED token
           \/ to = "starting" /\ wait_probe(c) /\ token' = [token EXCEPT ![c] = c]
  BY DEF Pass, PassExpired
<1>3. /\ pc' \in [C -> Place] /\ pc'[c] = to
      /\ \A d \in C : d # c => pc'[d] = pc[d]
  BY <1>2 DEF Goes, CircuitInv, TypeOK, Place
<1>4. CASE UNCHANGED circuitVars /\ UNCHANGED token
  BY <1>1, <1>2, <1>4, MoveInv DEF CircuitInv, TypeOK, Place
<1>5. CASE wait_free /\ UNCHANGED token /\ recovering = 0 /\ ~tripped
           /\ probe_token = NoToken /\ Global
           /\ recovering' = -1 /\ next_submit' = 0
           /\ UNCHANGED <<scope, cool, tripped, probe_token, proxy_cool>>
  <2>1. TypeOK'
    BY <1>1, <1>3, <1>5, CircuitAssumption DEF CircuitInv, TypeOK, CircuitTypeOK
  <2>2. ProbeCarried' /\ TokensOwned' /\ ProbeAfterCooldown'
    BY <1>1, <1>3, <1>5
    DEF CircuitInv, ProbeCarried, TokensOwned, ProbeAfterCooldown, Global
  <2>3. SubmissionsProbe'
    BY <1>1, <1>3, <1>5 DEF CircuitInv, SubmissionsProbe, NotRecovering, TypeOK
  <2> QED
    BY <2>1, <2>2, <2>3 DEF CircuitInv
<1>6. CASE to = "starting" /\ wait_probe(c) /\ token' = [token EXCEPT ![c] = c]
  <2>1. /\ token' \in [C -> C \cup {NoToken}] /\ token'[c] = c
        /\ \A d \in C : d # c => token'[d] = token[d]
    BY <1>6 DEF CircuitInv, TypeOK
  <2>2. /\ Global /\ cool = 0 /\ probe_token = NoToken /\ probe_token' = c
        /\ tripped \/ recovering > 0
        /\ UNCHANGED <<scope, cool, tripped, recovering, next_submit, proxy_cool>>
    BY <1>6 DEF wait_probe, ProbeDue
  <2>3. TypeOK'
    BY <1>1, <1>3, <2>1, <2>2 DEF CircuitInv, TypeOK, CircuitTypeOK
  <2>4. ProbeCarried' /\ TokensOwned'
    BY <1>3, <1>6, <2>1, <2>2
    DEF CircuitInv, ProbeCarried, TokensOwned, InAttempt, Place
  <2>5. ProbeAfterCooldown'
    BY <2>2 DEF CircuitInv, ProbeAfterCooldown, Global, NotRecovering, TypeOK,
                CircuitTypeOK
  <2>6. tripped \/ ~NotRecovering
    BY <2>2 DEF NotRecovering
  <2>7. since = {}
    BY <2>2, <2>6, CircuitAssumption DEF CircuitInv, SubmissionsProbe, TypeOK
  <2>8. SubmissionsProbe'
    BY <1>1, <2>7 DEF SubmissionsProbe
  <2> QED
    BY <2>3, <2>4, <2>5, <2>8 DEF CircuitInv
<1> QED
  BY <1>2, <1>4, <1>5, <1>6 DEF wait_free

LEMMA TickInv ==
  ASSUME CircuitInv, Tick
  PROVE  CircuitInv'
<1>1. \A m \in Nat : \A n \in 0 .. m : Sooner(n) \in 0 .. m /\ Sooner(0) = 0
  BY DEF Sooner
<1>2. /\ cool' = Sooner(cool) /\ recovering' = Sooner(recovering)
      /\ next_submit' = Sooner(next_submit)
      /\ proxy_cool' = [x \in Exit |-> Sooner(proxy_cool[x])]
      /\ rest' = [x \in Outlets |-> Sooner(rest[x])]
      /\ UNCHANGED <<scope, tripped, probe_token>>
      /\ UNCHANGED <<pc, token, exit, since>>
  BY DEF Tick, CircuitTick, consumerVars
<1>3. recovering' \in -1 .. Recovery /\ (recovering = -1 <=> recovering' = -1)
  BY <1>2, CircuitAssumption DEF Sooner, CircuitInv, TypeOK, CircuitTypeOK
<1>4. TypeOK'
  BY <1>1, <1>2, <1>3, CircuitAssumption DEF CircuitInv, TypeOK, CircuitTypeOK
<1>5. ProbeCarried' /\ TokensOwned'
  BY <1>2 DEF CircuitInv, ProbeCarried, TokensOwned
<1>6. SubmissionsProbe' /\ ProbeAfterCooldown'
  BY <1>1, <1>2, <1>3
  DEF CircuitInv, SubmissionsProbe, ProbeAfterCooldown, Global, NotRecovering
<1> QED
  BY <1>4, <1>5, <1>6 DEF CircuitInv

LEMMA CircuitStepInv == CircuitInv /\ [Next]_vars => CircuitInv'
<1> SUFFICES ASSUME CircuitInv, [Next]_vars PROVE CircuitInv'
  OBVIOUS
<1>1. CASE UNCHANGED vars
  BY <1>1 DEF vars, circuitVars, consumerVars, CircuitInv, TypeOK, CircuitTypeOK,
     ProbeCarried, TokensOwned, SubmissionsProbe, ProbeAfterCooldown, Global,
     NotRecovering
<1>2. CASE Tick
  BY <1>2, TickInv
<1>3. ASSUME NEW c \in C, Step(c) PROVE CircuitInv'
  BY <1>3, ConsumerMovesInv, GateInv, TripInv, EndsInv DEF Step
<1> QED
  BY <1>1, <1>2, <1>3 DEF Next

LEMMA CircuitAlways == Spec => []CircuitInv
BY CircuitInitInv, CircuitStepInv, PTL DEF Spec

\* Every variable of the circuit and of the consumers keeps its type: the
\* countdowns never leave their ranges.
THEOREM CircuitTypeCorrect == Spec => []TypeOK
<1>1. CircuitInv => TypeOK
  BY DEF CircuitInv
<1> QED
  BY <1>1, CircuitAlways, PTL

\* The circuit never waits for a probe that nobody carries, for any consumers
\* and durations, wherever attempts expire, fail or are cancelled.
THEOREM ProbesCarried == Spec => []ProbeCarried
<1>1. CircuitInv => ProbeCarried
  BY DEF CircuitInv
<1> QED
  BY <1>1, CircuitAlways, PTL

\* From a trip until the end of the recovery there is one submission at most
\* that began after the trip: that of the consumer with the current token.
THEOREM OneSubmissionInRecovery == Spec => []OneRecoverySubmission
<1>1. ASSUME CircuitInv PROVE OneRecoverySubmission
  <2> SUFFICES ASSUME Global, tripped \/ ~NotRecovering
               PROVE  Cardinality(since) =< 1
    BY DEF OneRecoverySubmission
  <2>1. since = {} \/ since = {probe_token}
    BY <1>1 DEF CircuitInv, SubmissionsProbe
  <2>2. Cardinality({}) = 0 /\ Cardinality({probe_token}) = 1
    BY FS_EmptySet, FS_Singleton
  <2> QED
    BY <2>1, <2>2
<1> QED
  BY <1>1, CircuitAlways, PTL

\* The success of a probe ends a cooldown that has run out; every other step
\* but the clock's leaves it alone or begins it again.
LEMMA CooldownStep ==
  ASSUME CircuitInv, [Next]_vars, ~Tick
  PROVE  cool' >= cool
<1>1. cool \in 0 .. Cooldown /\ cool' \in 0 .. Cooldown
  BY CircuitStepInv DEF CircuitInv, TypeOK, CircuitTypeOK
<1>2. ASSUME NEW c \in C, Step(c) PROVE cool' \in {cool, Cooldown} \/ cool = 0
  <2>1. CASE Persist(c)
    <3>1. CASE token[c] # NoToken
      <4>1. cool' = cool \/ (probe_token = token[c] /\ cool' = 0)
        BY <2>1, <3>1 DEF Persist, consume_recovery_seconds, circuitVars
      <4> QED
        BY <3>1, <4>1 DEF CircuitInv, ProbeAfterCooldown
    <3> QED
      BY <2>1, <3>1 DEF Persist, circuitVars
  <2>2. CASE Trip(c)
    BY <2>2 DEF Trip, trip
  <2>3. CASE Abort(c)
    BY <2>3 DEF Abort, defer_probe, circuitVars
  <2>4. CASE Pass(c) \/ PassExpired(c)
    BY <2>4 DEF Pass, PassExpired, wait_free, wait_probe, circuitVars
  <2> QED
    BY <1>2, <2>1, <2>2, <2>3, <2>4
    DEF Step, Claim, Start, StartExpired, Open, Submit, Limited, Registered,
        circuitVars, release_probe
<1> QED
  BY <1>1, <1>2, CircuitAssumption DEF Next, vars, circuitVars

\* Nothing but the clock shortens a cooldown: the one step that ends it, the
\* success of the probe, is made when it has run out.
THEOREM CooldownsKept == Spec => CooldownKept
<1>1. ASSUME CircuitInv, [Next]_vars, cool' < cool PROVE Tick
  <2>1. cool \in Int /\ cool' \in Int
    BY <1>1, CircuitStepInv DEF CircuitInv, TypeOK, CircuitTypeOK
  <2> QED
    BY <1>1, <2>1, CooldownStep
<1> QED
  BY <1>1, CircuitAlways, PTL DEF Spec, CooldownKept

\* What an exit still has to rest is no more than what the circuit knows, and
\* with a pool every page goes through an exit of the pool.
RestKnown ==
  /\ Global => \A x \in Outlets : rest[x] =< cool
  /\ ~Global => \A x \in Exit : rest[x] =< proxy_cool[x]
  /\ ~Global => \A c \in C : pc[c] \in WithPage => exit[c] \in Exit

LEMMA RestStepInv ==
  ASSUME Exit # {} \/ "proxy" \notin Scopes
  PROVE  CircuitInv /\ RestKnown /\ [Next]_vars => RestKnown'
<1> SUFFICES ASSUME CircuitInv, RestKnown, [Next]_vars PROVE RestKnown'
  OBVIOUS
<1>1. CircuitInv' /\ TypeOK /\ TypeOK'
  BY CircuitStepInv DEF CircuitInv
<1>2. scope' = scope
  BY
  DEF Next, Step, vars, circuitVars, Tick, CircuitTick, Claim, Pass, wait_free,
      wait_probe, PassExpired, Start, StartExpired, release_probe, Open, Submit,
      Limited, Trip, trip, Registered, Persist, consume_recovery_seconds, Abort,
      defer_probe
<1>3. ~Global => Exit # {}
  BY <1>1, CircuitAssumption DEF TypeOK, CircuitTypeOK, Global
<1>4. ASSUME NEW c \in C, Step(c), ~Global, NEW d \in C, pc'[d] \in WithPage
      PROVE  exit'[d] \in Exit
  <2>1. CASE Open(c)
    BY <1>1, <1>3, <1>4, <2>1
    DEF Open, Pickable, Goes, RestKnown, TypeOK, WithPage
  <2>2. CASE ~Open(c)
    <3>1. d # c => pc'[d] = pc[d] /\ exit'[d] = exit[d]
      BY <1>1, <1>4, <2>2
      DEF Step, Claim, Pass, PassExpired, Start, StartExpired, Submit, Limited,
          Trip, Registered, Persist, Abort, Leaves, Goes, TypeOK
    <3>2. d = c => pc[d] \in WithPage /\ exit'[d] = exit[d]
      BY <1>1, <1>4, <2>2
      DEF Step, Claim, Pass, PassExpired, Start, StartExpired, Submit, Limited,
          Trip, Registered, Persist, Abort, Leaves, Goes, TypeOK, WithPage
    <3> QED
      BY <1>4, <3>1, <3>2 DEF RestKnown
  <2> QED
    BY <2>1, <2>2
<1>5. ASSUME NEW c \in C, Trip(c) PROVE RestKnown'
  <2>1. /\ exit[c] \in Outlets /\ pc[c] = "limited"
        /\ rest'[exit[c]] = Cooldown
        /\ \A x \in Outlets : x # exit[c] => rest'[x] = rest[x]
    BY <1>1, <1>5 DEF Trip, TypeOK
  <2>2. CASE Global
    BY <1>1, <1>2, <1>5, <2>2
    DEF Trip, trip, TypeOK, Global, RestKnown
  <2>3. CASE ~Global
    <3>1. exit[c] \in Exit
      BY <2>1, <2>3 DEF RestKnown, WithPage
    <3>2. /\ proxy_cool'[exit[c]] = Cooldown
          /\ \A x \in Exit : x # exit[c] => proxy_cool'[x] = proxy_cool[x]
      BY <1>1, <1>5, <3>1 DEF Trip, trip, TypeOK, CircuitTypeOK
    <3>3. \A x \in Exit : rest'[x] =< proxy_cool'[x]
      BY <2>1, <2>3, <3>1, <3>2, CircuitAssumption DEF RestKnown, Outlets
    <3>4. Step(c)
      BY <1>5 DEF Step
    <3>5. \A d \in C : pc'[d] \in WithPage => exit'[d] \in Exit
      BY <1>4, <2>3, <3>4
    <3> QED
      BY <1>2, <2>3, <3>3, <3>5 DEF RestKnown, Global
  <2> QED
    BY <2>2, <2>3
<1>6. ASSUME NEW c \in C, Step(c), ~Trip(c) PROVE RestKnown'
  <2>1. rest' = rest /\ proxy_cool' = proxy_cool
    BY <1>6
    DEF Step, circuitVars, Claim, Pass, wait_free, wait_probe, PassExpired,
        Start, StartExpired, release_probe, Open, Submit, Limited, Registered,
        Persist, consume_recovery_seconds, Abort, defer_probe
  <2>2. cool' >= cool
    <3>1. CASE ~Tick
      BY <3>1, CooldownStep
    <3>2. CASE Tick
      <4>1. pc' # pc
        BY <1>1, <1>6
        DEF Step, Claim, Pass, PassExpired, Start, StartExpired, Open, Submit,
            Limited, Registered, Persist, Abort, Leaves, Goes, TypeOK, Place,
            InAttempt
      <4> QED
        BY <3>2, <4>1 DEF Tick, consumerVars
    <3> QED
      BY <3>1, <3>2
  <2>3. Global => \A x \in Outlets : rest'[x] =< cool'
    BY <1>1, <2>1, <2>2 DEF RestKnown, TypeOK, CircuitTypeOK
  <2> QED
    BY <1>2, <1>4, <1>6, <2>1, <2>3 DEF RestKnown, Global
<1>7. CASE Tick
  <2>1. \A m, n \in Nat : m =< n => Sooner(m) =< Sooner(n)
    BY DEF Sooner
  <2>2. /\ cool' = Sooner(cool) /\ \A x \in Outlets : rest'[x] = Sooner(rest[x])
        /\ \A x \in Exit : proxy_cool'[x] = Sooner(proxy_cool[x])
        /\ pc' = pc /\ exit' = exit
    BY <1>7 DEF Tick, CircuitTick, consumerVars
  <2>3. /\ cool \in Nat /\ \A x \in Outlets : rest[x] \in Nat
        /\ \A x \in Exit : proxy_cool[x] \in Nat /\ x \in Outlets
    BY <1>1, CircuitAssumption DEF TypeOK, CircuitTypeOK, Outlets
  <2> QED
    BY <1>2, <2>1, <2>2, <2>3 DEF RestKnown, Global
<1>8. CASE UNCHANGED vars
  BY <1>8 DEF vars, circuitVars, consumerVars, RestKnown, Global
<1> QED
  BY <1>5, <1>6, <1>7, <1>8 DEF Next

\* After a rate-limited answer no submission begins through the exit (with
\* scope "global": through any) until its cooldown is over.  The hypothesis is
\* what the code needs: with scope "proxy" and no pool, a direct connection
\* opens the circuit in a way that can_submit does not look at.
THEOREM LimitedExitsRest ==
  ASSUME Exit # {} \/ "proxy" \notin Scopes
  PROVE  Spec => LimitedExitRests
<1>1. Init => RestKnown
  BY CircuitAssumption
  DEF Init, CircuitInit, RestKnown, Outlets, WithPage
<1>2. CircuitInv /\ RestKnown /\ [Next]_vars => RestKnown'
  BY RestStepInv
<1>3. ASSUME CircuitInv, RestKnown, [Next]_vars, NEW c \in C,
             pc[c] # "submitting", pc'[c] = "submitting"
      PROVE  rest[exit[c]] = 0 /\ (Global => \A x \in Outlets : rest[x] = 0)
  <2>1. TypeOK
    BY <1>3 DEF CircuitInv
  <2>2. Submit(c)
    <3>1. PICK d \in C : Step(d)
      BY <1>3 DEF Next, vars, Tick, consumerVars
    <3>2. d = c
      BY <1>3, <2>1, <3>1
      DEF Step, Claim, Pass, PassExpired, Start, StartExpired, Open, Submit,
          Limited, Trip, Registered, Persist, Abort, Leaves, Goes, TypeOK
    <3> QED
      BY <1>3, <2>1, <3>1, <3>2
      DEF Step, Claim, Pass, PassExpired, Start, StartExpired, Open, Submit,
          Limited, Trip, Registered, Persist, Abort, Leaves, Goes, TypeOK
  <2>3. CASE Global
    <3>1. cool = 0
      BY <1>3, <2>1, <2>2, <2>3
      DEF Submit, can_submit, is_open, CircuitInv, ProbeAfterCooldown, TypeOK,
          CircuitTypeOK
    <3> QED
      BY <1>3, <2>1, <2>3, <3>1 DEF RestKnown, TypeOK
  <2>4. CASE ~Global
    <3>1. exit[c] \in Exit /\ exit[c] \in Outlets
      BY <1>3, <2>1, <2>2, <2>4 DEF RestKnown, WithPage, Submit, TypeOK
    <3>2. ~(proxy_cool[exit[c]] > 0)
      BY <2>2, <2>4, <3>1, CircuitAssumption DEF Submit, is_proxy_blocked
    <3> QED
      BY <1>3, <2>1, <2>4, <3>1, <3>2 DEF RestKnown, TypeOK, CircuitTypeOK
  <2> QED
    BY <2>3, <2>4
<1>4. Spec => [](CircuitInv /\ RestKnown)
  BY <1>1, <1>2, CircuitInitInv, CircuitStepInv, PTL DEF Spec
<1>5. CircuitInv /\ RestKnown /\ [Next]_vars =>
        [\A c \in C : pc[c] # "submitting" /\ pc'[c] = "submitting"
          => rest[exit[c]] = 0 /\ (Global => \A x \in Outlets : rest[x] = 0)]_vars
  BY <1>3
<1> QED
  BY <1>4, <1>5, PTL DEF Spec, LimitedExitRests
=============================================================================
