---------------------------- MODULE PairExchange ----------------------------
(***************************************************************************)
(* What the pipeline promises about its resources, without workers,        *)
(* permits or buffers: T and Q envelopes enter a bounded stock, grow       *)
(* stale, and leave it either swept or as one fresh T with one fresh Q     *)
(* that a consumer holds exclusively until it settles them.                *)
(***************************************************************************)
EXTENDS Integers

CONSTANTS T, Q, C, TCap, QCap

VARIABLES stock,     \* envelopes waiting to be paired
          held,      \* held[c]: what consumer c has claimed
          stale      \* existing envelopes that have expired

pairVars == <<stock, held, stale>>

AllHeld == UNION {held[c] : c \in C}
Live == stock \cup AllHeld

\* A set with at most n members can be numbered by 1..n.
Fits(X, n) == \E f \in [X -> 1..n] : \A x, y \in X : f[x] = f[y] => x = y

PairInit ==
  /\ stock = {}
  /\ held = [c \in C |-> {}]
  /\ stale = {}

Stock(e) ==
  /\ e \notin Live
  /\ e \in T => Fits((Live \cap T) \cup {e}, TCap)
  /\ e \in Q => Fits((Live \cap Q) \cup {e}, QCap)
  /\ stock' = (stock \ stale) \cup {e}
  /\ stale' = stale \ stock
  /\ UNCHANGED held

Sweep ==
  /\ stock' = stock \ stale
  /\ stale' = stale \ stock
  /\ UNCHANGED held

Claim(c) ==
  /\ held[c] = {}
  /\ \E t \in T \cap (stock \ stale), q \in Q \cap (stock \ stale) :
       /\ held' = [held EXCEPT ![c] = {t, q}]
       /\ stock' = (stock \ stale) \ {t, q}
  /\ stale' = stale \ stock

Settle(c) ==
  /\ held[c] # {}
  /\ held' = [held EXCEPT ![c] = {}]
  /\ stale' = stale \ held[c]
  /\ UNCHANGED stock

GrowStale(e) ==
  /\ e \in Live
  /\ stale' = stale \cup {e}
  /\ UNCHANGED <<stock, held>>

PairNext ==
  \/ \E e \in T \cup Q : Stock(e) \/ GrowStale(e)
  \/ Sweep
  \/ \E c \in C : Claim(c) \/ Settle(c)

PairSpec == PairInit /\ [][PairNext]_pairVars
=============================================================================
