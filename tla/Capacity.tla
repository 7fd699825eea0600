------------------------------ MODULE Capacity ------------------------------
(***************************************************************************)
(* The start-up arithmetic of grok_register/register.py: main() derives    *)
(* the permits, the workers, the batch size and the watermarks of the gate *)
(* from the machine and from the environment variables, which may hold any *)
(* integers.  The pipeline assumes of its constants what is proved here of *)
(* the derived values.                                                     *)
(***************************************************************************)
EXTENDS Integers, TLAPS

LOCAL Least(a, b) == IF a =< b THEN a ELSE b
LOCAL Greatest(a, b) == IF a >= b THEN a ELSE b

\* An override that the environment does not give.
Unset == CHOOSE x : x \notin Int
Override == Int \cup {Unset}

\* What PHYSICAL_MEM_MB leaves room for.
MemCap(max_mem_mb, mem_per_physical, reserve_mem) ==
  Greatest(1, Greatest(0, max_mem_mb - reserve_mem)
                \div Greatest(1, mem_per_physical))

\* An explicit cap, else the profile's, else what CPU and memory allow.
derive_physical(cpu, mem, configured, profiled, per_cpu, per_mem, reserve) ==
  LET cpu_cap == Greatest(1, cpu * Greatest(1, per_cpu))
      mem_cap == MemCap(mem, per_mem, reserve)
  IN  IF configured > 0 THEN configured
      ELSE IF profiled > 0 THEN Greatest(1, Least(profiled, mem_cap))
      ELSE Greatest(1, Least(cpu_cap, mem_cap))

\* The numbers of S (and C) and of P workers.
derive_workers(configured, physical) ==
  IF configured > 0 THEN configured ELSE physical + 2

derive_p_workers(configured, physical, q_pending) ==
  IF configured > 0 THEN configured
  ELSE Least(q_pending + 2, Greatest(2, physical * 2))

derive_p_batch_max(physical, configured) ==
  Greatest(1, Least(Greatest(1, configured), Greatest(1, physical)))

derive_t_high(physical, t_slot, override) ==
  IF override = Unset THEN Least(Greatest(1, t_slot), Greatest(1, physical))
  ELSE Greatest(1, Least(Greatest(1, t_slot), override))

derive_t_low(t_high, override) ==
  IF override = Unset THEN Greatest(0, Least(t_high, t_high \div 2))
  ELSE Greatest(0, Least(t_high, override))

derive_q_high(q_pending, override) ==
  IF override = Unset THEN Greatest(1, q_pending)
  ELSE Greatest(1, Least(Greatest(1, q_pending), override))

derive_q_low(q_high, q_goal, override) ==
  IF override = Unset
  THEN Greatest(0, Least(q_high, Least(q_goal, q_high \div 2)))
  ELSE Greatest(0, Least(q_high, override))

----------------------------------------------------------------------------

\* Whatever the machine and the environment, there is at least one physical
\* permit, and a batch is never larger than what Physical_Sem admits at once.
THEOREM PhysicalDerived ==
  ASSUME NEW cpu \in Int, NEW mem \in Int, NEW configured \in Int,
         NEW profiled \in Int, NEW per_cpu \in Int, NEW per_physical \in Int,
         NEW reserve \in Int, NEW batch \in Int
  PROVE  LET physical == derive_physical(cpu, mem, configured, profiled,
                                         per_cpu, per_physical, reserve)
         IN  /\ physical \in Nat \ {0}
             /\ derive_p_batch_max(physical, batch) \in 1..physical
<1> DEFINE cpu_cap == cpu * Greatest(1, per_cpu)
           mem_cap == MemCap(mem, per_physical, reserve)
           physical == derive_physical(cpu, mem, configured, profiled,
                                       per_cpu, per_physical, reserve)
<1>1. cpu_cap \in Int
  BY DEF Greatest
<1>2. mem_cap \in Int
  <2>1. PICK a \in Int : a = Greatest(0, mem - reserve)
    BY DEF Greatest
  <2>2. PICK b \in Nat \ {0} : b = Greatest(1, per_physical)
    BY DEF Greatest
  <2>3. a \div b \in Int
    BY <2>1, <2>2
  <2> QED
    BY <2>1, <2>2, <2>3 DEF MemCap, Greatest
<1>3. physical \in Nat \ {0}
  <2>1. physical = IF configured > 0 THEN configured
                   ELSE IF profiled > 0
                   THEN Greatest(1, Least(profiled, mem_cap))
                   ELSE Greatest(1, Least(Greatest(1, cpu_cap), mem_cap))
    BY DEF derive_physical
  <2> HIDE DEF cpu_cap, mem_cap, physical
  <2> QED
    BY <1>1, <1>2, <2>1 DEF Greatest, Least
<1> HIDE DEF physical
<1>4. derive_p_batch_max(physical, batch) \in 1..physical
  BY <1>3 DEF derive_p_batch_max, Greatest, Least
<1> QED
  BY <1>3, <1>4 DEF physical

\* For positive T_SLOT_CAP and Q_PENDING_CAP the derived watermarks are ones
\* that AdmissionGate accepts, and they never let in more than the slots and
\* the pending permits can carry, however the overrides are set.
THEOREM WatermarksDerived ==
  ASSUME NEW physical \in Int, NEW t_slot \in Nat \ {0},
         NEW q_pending \in Nat \ {0}, NEW q_goal \in Int,
         NEW th \in Override, NEW tl \in Override,
         NEW qh \in Override, NEW ql \in Override
  PROVE  LET t_high == derive_t_high(physical, t_slot, th)
             q_high == derive_q_high(q_pending, qh)
         IN  /\ t_high \in 1..t_slot
             /\ derive_t_low(t_high, tl) \in 0..t_high
             /\ q_high \in 1..q_pending
             /\ derive_q_low(q_high, q_goal, ql) \in 0..q_high
<1> DEFINE t_high == derive_t_high(physical, t_slot, th)
           q_high == derive_q_high(q_pending, qh)
<1>1. t_high \in 1..t_slot
  BY DEF derive_t_high, Override, Greatest, Least
<1>2. q_high \in 1..q_pending
  BY DEF derive_q_high, Override, Greatest, Least
<1> HIDE DEF t_high, q_high
<1>3. derive_t_low(t_high, tl) \in 0..t_high
  BY <1>1 DEF derive_t_low, Override, Greatest, Least
<1>4. derive_q_low(q_high, q_goal, ql) \in 0..q_high
  BY <1>2 DEF derive_q_low, Override, Greatest, Least
<1> QED
  BY <1>1, <1>2, <1>3, <1>4 DEF t_high, q_high

\* P and C workers exist, and so do S workers.
THEOREM WorkersDerived ==
  ASSUME NEW physical \in Nat \ {0}, NEW configured \in Int,
         NEW q_pending \in Nat \ {0}
  PROVE  /\ derive_workers(configured, physical) \in Nat \ {0}
         /\ derive_p_workers(configured, physical, q_pending) \in Nat \ {0}
BY DEF derive_workers, derive_p_workers, Greatest, Least
=============================================================================
