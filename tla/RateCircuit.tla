---------------------------- MODULE RateCircuit ----------------------------
(***************************************************************************)
(* RegistrationRateLimitCircuit of grok_register/register.py: after a      *)
(* rate-limited answer it keeps new registrations back for a cooldown,     *)
(* lets one probe at a time through, and after a successful probe paces    *)
(* the submissions for a recovery window.  With scope "proxy" each exit    *)
(* has a cooldown of its own instead and there are no probes.              *)
(*                                                                         *)
(* Points in time are kept as the ticks that are left until then, so that  *)
(* the model needs no bound on time.  A probe token is a fresh object that *)
(* only its taker holds, for one attempt: the taker's identity stands for  *)
(* it.  _probe_active is TRUE exactly while there is a token.              *)
(***************************************************************************)
EXTENDS Integers

CONSTANTS C,               \* consumers
          Exit, Direct,    \* the proxy pool, and no proxy at all
          Scopes,          \* values of REGISTRATION_RATE_LIMIT_SCOPE
          Cooldown, Recovery, Interval,
          NoToken

ASSUME CircuitAssumption ==
  /\ Direct \notin Exit
  /\ Scopes \subseteq {"global", "proxy"}
  /\ Cooldown \in Nat \ {0} /\ Recovery \in Nat \ {0}
  /\ Interval \in Nat \ {0}
  /\ NoToken \notin C

VARIABLES scope,           \* set by __init__
          cool,            \* ticks until _blocked_until
          tripped,         \* _tripped_at is not None
          probe_token,
          recovering,      \* ticks until _recovering_until; -1: not set
          next_submit,     \* ticks until _next_recovery_submit
          proxy_cool       \* ticks until _proxy_blocked_until[x]

circuitVars == <<scope, cool, tripped, probe_token, recovering, next_submit,
                 proxy_cool>>

CircuitInit ==
  /\ scope \in Scopes
  /\ cool = 0 /\ tripped = FALSE /\ probe_token = NoToken
  /\ recovering = -1 /\ next_submit = 0
  /\ proxy_cool = [x \in Exit |-> 0]

----------------------------------------------------------------------------

Global == scope = "global"
NotRecovering == recovering = -1

is_open == IF Global THEN cool > 0
           ELSE Exit # {} /\ \A x \in Exit : proxy_cool[x] > 0

is_proxy_blocked(x) ==
  IF Global \/ x = Direct THEN is_open ELSE proxy_cool[x] > 0

\* An exit that _pick_grok_proxy may return; none means a direct connection.
Pickable(x) ==
  IF Exit = {} THEN x = Direct
  ELSE /\ x \in Exit
       /\ ~Global /\ (\E y \in Exit : ~is_proxy_blocked(y))
          => ~is_proxy_blocked(x)

\* Whether wait() hands out the next token: the first submissions after a
\* cooldown, then one per interval.
ProbeDue ==
  /\ Global /\ cool = 0 /\ probe_token = NoToken
  /\ tripped \/ (recovering > 0 /\ next_submit = 0)

\* wait() returns False.
wait_free ==
  /\ ~is_open
  /\ \/ ~Global /\ UNCHANGED circuitVars
     \/ Global /\ ~tripped /\ NotRecovering /\ UNCHANGED circuitVars
     \/ /\ Global /\ ~tripped /\ recovering = 0 /\ probe_token = NoToken
        /\ recovering' = -1 /\ next_submit' = 0
        /\ UNCHANGED <<scope, cool, tripped, probe_token, proxy_cool>>

\* wait() returns a token to c.
wait_probe(c) ==
  /\ ProbeDue
  /\ probe_token' = c
  /\ UNCHANGED <<scope, cool, tripped, recovering, next_submit, proxy_cool>>

\* Defect: any probe may submit, also one that a later trip has revoked.
can_submit_AnyProbe(mine) ==
  IF Global THEN (~tripped /\ NotRecovering) \/ (mine # NoToken /\ ~is_open)
  ELSE ~is_open

\* mine is the token that the caller holds, or NoToken for False.
can_submit(mine) ==
  IF Global
  THEN \/ ~tripped /\ NotRecovering
       \/ mine # NoToken /\ mine = probe_token /\ ~is_open
  ELSE ~is_open

\* Defect: the trip forgets the exit it is about.
trip_Anywhere(x) ==
  /\ tripped' = TRUE /\ cool' = Cooldown
  /\ recovering' = -1 /\ next_submit' = 0 /\ probe_token' = NoToken
  /\ UNCHANGED <<scope, proxy_cool>>

trip(x) ==
  /\ UNCHANGED scope
  /\ proxy_cool' = IF x \in Exit THEN [proxy_cool EXCEPT ![x] = Cooldown]
                   ELSE proxy_cool
  /\ IF ~Global /\ x # Direct
     THEN UNCHANGED <<cool, tripped, probe_token, recovering, next_submit>>
     ELSE /\ tripped' = TRUE /\ cool' = Cooldown
          /\ recovering' = -1 /\ next_submit' = 0 /\ probe_token' = NoToken

\* Defect: a revoked probe still ends the cooldown.
consume_recovery_seconds_Stale(mine) ==
  /\ Global
  /\ tripped' = FALSE /\ cool' = 0 /\ probe_token' = NoToken
  /\ recovering' = Recovery /\ next_submit' = Interval
  /\ UNCHANGED <<scope, proxy_cool>>

\* The probe's registration succeeded.
consume_recovery_seconds(mine) ==
  \/ /\ Global /\ mine = probe_token /\ tripped
     /\ tripped' = FALSE /\ cool' = 0 /\ probe_token' = NoToken
     /\ recovering' = Recovery /\ next_submit' = Interval
     /\ UNCHANGED <<scope, proxy_cool>>
  \/ /\ Global /\ mine = probe_token /\ ~tripped /\ ~NotRecovering
     /\ probe_token' = NoToken /\ next_submit' = Interval
     /\ UNCHANGED <<scope, cool, tripped, recovering, proxy_cool>>
  \/ /\ ~Global \/ mine # probe_token \/ (~tripped /\ NotRecovering)
     /\ UNCHANGED circuitVars

\* Defect: an expired pair keeps the token.
release_probe_Never(mine) == UNCHANGED circuitVars

release_probe(mine) ==
  /\ probe_token' = IF Global /\ mine = probe_token THEN NoToken
                    ELSE probe_token
  /\ UNCHANGED <<scope, cool, tripped, recovering, next_submit, proxy_cool>>

\* Defect: the failed probe restarts the cooldown and keeps the token.
defer_probe_KeepsToken(mine) ==
  IF Global /\ mine # NoToken /\ mine = probe_token
  THEN /\ cool' = IF tripped THEN Cooldown ELSE cool
       /\ UNCHANGED <<scope, tripped, probe_token, recovering, next_submit,
                      proxy_cool>>
  ELSE UNCHANGED circuitVars

\* The probe failed: cool down again, or keep the pace of the recovery.
defer_probe(mine) ==
  IF Global /\ mine # NoToken /\ mine = probe_token
  THEN /\ probe_token' = NoToken
       /\ cool' = IF tripped THEN Cooldown ELSE cool
       /\ next_submit' = IF ~tripped /\ ~NotRecovering THEN Interval
                         ELSE next_submit
       /\ UNCHANGED <<scope, tripped, recovering, proxy_cool>>
  ELSE UNCHANGED circuitVars

\* Defect: a countdown runs past its end.
Sooner_Unclamped(n) == n - 1

\* A tick of the clock.
Sooner(n) == IF n > 0 THEN n - 1 ELSE n
CircuitTick ==
  /\ cool' = Sooner(cool) /\ recovering' = Sooner(recovering)
  /\ next_submit' = Sooner(next_submit)
  /\ proxy_cool' = [x \in Exit |-> Sooner(proxy_cool[x])]
  /\ UNCHANGED <<scope, tripped, probe_token>>

----------------------------------------------------------------------------

CircuitTypeOK ==
  /\ scope \in Scopes
  /\ cool \in 0..Cooldown /\ tripped \in BOOLEAN
  /\ probe_token \in C \cup {NoToken}
  /\ recovering \in -1..Recovery /\ next_submit \in 0..Interval
  /\ proxy_cool \in [Exit -> 0..Cooldown]
=============================================================================
