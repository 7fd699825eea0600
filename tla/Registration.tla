---------------------------- MODULE Registration ----------------------------
(***************************************************************************)
(* The consumers of grok_register/register.py before the rate limit        *)
(* circuit: c_worker and _consume_pair from the claimed pair to the end of *)
(* its attempt.  Slots, permits and the pair itself are in CspPipeline;    *)
(* here a pair is only something that may have expired when it is looked   *)
(* at.  An attempt ends early in every place where the code can time out,  *)
(* raise or be cancelled.                                                  *)
(***************************************************************************)
EXTENDS RateCircuit, FiniteSets

VARIABLES
  pc,       \* where each consumer is suspended
  token,    \* recovery_probe of each consumer
  exit,     \* the proxy of each consumer's page
  since,    \* history: whose submission began after the last trip
  rest      \* history: ticks that a limited exit still has to rest

consumerVars == <<pc, token, exit>>
vars == <<circuitVars, consumerVars, since, rest>>

Outlets == Exit \cup {Direct}

\* "starting": the task of _consume_pair exists but has not run yet;
\* "limited" and "registered": the answer is known, the page is being closed.
Place == {"idle", "gate", "starting", "opening", "verifying", "submitting",
          "limited", "registered"}
InAttempt == Place \ {"idle", "gate"}

Init ==
  /\ CircuitInit
  /\ pc = [c \in C |-> "idle"] /\ token = [c \in C |-> NoToken]
  /\ exit = [c \in C |-> Direct]
  /\ since = {} /\ rest = [x \in Outlets |-> 0]

Goes(c, to) == pc' = [pc EXCEPT ![c] = to]

\* The attempt is over; its locals go with it.
Leaves(c) ==
  /\ Goes(c, "idle")
  /\ token' = [token EXCEPT ![c] = NoToken]
  /\ exit' = [exit EXCEPT ![c] = Direct]

----------------------------------------------------------------------------

Claim(c) ==
  /\ pc[c] = "idle"
  /\ Goes(c, "gate")
  /\ UNCHANGED <<circuitVars, token, exit, since, rest>>

\* wait() returns and the pair is still valid.
Pass(c) ==
  /\ pc[c] = "gate"
  /\ Goes(c, "starting")
  /\ \/ wait_free /\ UNCHANGED token
     \/ wait_probe(c) /\ token' = [token EXCEPT ![c] = c]
  /\ UNCHANGED <<exit, since, rest>>

\* wait() returns and the pair has expired: a token is given back at once.
PassExpired(c) ==
  /\ pc[c] = "gate"
  /\ Goes(c, "idle")
  /\ wait_free \/ (ProbeDue /\ UNCHANGED circuitVars)
  /\ UNCHANGED <<token, exit, since, rest>>

Start(c) ==
  /\ pc[c] = "starting"
  /\ Goes(c, "opening")
  /\ UNCHANGED <<circuitVars, token, exit, since, rest>>

\* The pair expired between the two checks.
StartExpired(c) ==
  /\ pc[c] = "starting"
  /\ release_probe(token[c])
  /\ Leaves(c)
  /\ UNCHANGED <<since, rest>>

\* The physical permit is there; the page is opened through the exit picked.
Open(c) ==
  /\ pc[c] = "opening"
  /\ Goes(c, "verifying")
  /\ \E x \in Outlets : Pickable(x) /\ exit' = [exit EXCEPT ![c] = x]
  /\ UNCHANGED <<circuitVars, token, since, rest>>

\* The code is verified and the circuit is asked once more.
Submit(c) ==
  /\ pc[c] = "verifying"
  /\ can_submit(token[c])
  /\ ~Global => ~is_proxy_blocked(exit[c])
  /\ Goes(c, "submitting")
  /\ since' = since \cup {c}
  /\ UNCHANGED <<circuitVars, token, exit, rest>>

\* RegistrationRateLimited is raised; it is handled once the page is closed.
Limited(c) ==
  /\ pc[c] = "submitting"
  /\ Goes(c, "limited")
  /\ since' = since \ {c}
  /\ UNCHANGED <<circuitVars, token, exit, rest>>

\* The handler.  The finally then defers c's token, which is gone: a trip of
\* scope "global" revokes every token, and scope "proxy" has none.
Trip(c) ==
  /\ pc[c] = "limited"
  /\ trip(exit[c])
  /\ Leaves(c)
  /\ since' = {}
  /\ rest' = [rest EXCEPT ![exit[c]] = Cooldown]

Registered(c) ==
  /\ pc[c] = "submitting"
  /\ Goes(c, "registered")
  /\ since' = since \ {c}
  /\ UNCHANGED <<circuitVars, token, exit, rest>>

\* The account is stored, and a probe reports its success.
Persist(c) ==
  /\ pc[c] = "registered"
  /\ IF token[c] = NoToken THEN UNCHANGED circuitVars
     ELSE consume_recovery_seconds(token[c])
  /\ Leaves(c)
  /\ UNCHANGED <<since, rest>>

\* Not verified, not allowed to submit, refused, raised, C_CONSUME_TIMEOUT or
\* cancelled.
Abort(c) ==
  /\ pc[c] \in InAttempt
  /\ defer_probe(token[c])
  /\ Leaves(c)
  /\ since' = since \ {c}
  /\ UNCHANGED rest

Tick ==
  /\ CircuitTick
  /\ rest' = [x \in Outlets |-> Sooner(rest[x])]
  /\ <<circuitVars, rest>>' # <<circuitVars, rest>>
  /\ UNCHANGED <<consumerVars, since>>

Step(c) == \/ Claim(c) \/ Pass(c) \/ PassExpired(c) \/ Start(c)
           \/ StartExpired(c) \/ Open(c) \/ Submit(c) \/ Limited(c)
           \/ Trip(c) \/ Registered(c) \/ Persist(c) \/ Abort(c)

Next == (\E c \in C : Step(c)) \/ Tick

Spec == Init /\ [][Next]_vars

\* Time passes, and a consumer in the gate looks again every few seconds.
FairSpec == Spec /\ WF_vars(Tick)
                 /\ \A c \in C : WF_vars(Step(c))

----------------------------------------------------------------------------

TypeOK ==
  /\ CircuitTypeOK
  /\ pc \in [C -> Place] /\ token \in [C -> C \cup {NoToken}]
  /\ exit \in [C -> Outlets] /\ since \subseteq C
  /\ rest \in [Outlets -> 0..Cooldown]

\* The circuit never waits for a probe that nobody carries: the owner of the
\* current token is in an attempt and knows that it owns it.
ProbeCarried ==
  probe_token # NoToken =>
    pc[probe_token] \in InAttempt /\ token[probe_token] = probe_token

\* From a trip until the end of the recovery window at most one submission
\* that began after that trip is under way, whatever became of earlier probes.
OneRecoverySubmission ==
  Global /\ (tripped \/ ~NotRecovering) => Cardinality(since) =< 1

\* A cooldown ends with the clock only: no late success and no failure of an
\* older attempt shortens it.
CooldownKept == [][cool' < cool => Tick]_vars

\* An exit (with scope "global": any exit) gets no new submission within the
\* cooldown after a rate-limited answer through it was handled.
LimitedExitRests ==
  [][\A c \in C : pc[c] # "submitting" /\ pc'[c] = "submitting"
        => rest[exit[c]] = 0 /\ (Global => \A x \in Outlets : rest[x] = 0)]_vars

\* The circuit never wedges: if all consumers are held back, one gets through.
GateReopens ==
  (\A c \in C : pc[c] = "gate") ~> (\E c \in C : pc[c] # "gate")
=============================================================================
