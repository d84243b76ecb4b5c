----------------------------- MODULE LockContract -----------------------------
(***************************************************************************)
(* What the payment worker may rely on when it works under the lock of a   *)
(* payment, without a clock, a network or a heartbeat: the lock is taken   *)
(* when it is free and given back when its holder is done; a holder may    *)
(* lose it only once the lease has lapsed, and does not get it back.       *)
(*                                                                         *)
(* PaymentLease, which has the clock, takes the small steps; the core,     *)
(* which has none, takes several of them at once: AcquireLock is Acquire,  *)
(* Release is Release, Crash is Abandon, LeaseLost is Lose.                *)
(***************************************************************************)
CONSTANTS Tokens, Nobody

VARIABLES
  lock,      \* the token that has the lock
  holders,   \* tokens of executions in their critical section
  lapsed     \* the lease has not been kept up as it should

vars == <<lock, holders, lapsed>>

Init ==
  /\ lock = Nobody
  /\ holders = {}
  /\ lapsed = FALSE

Take(t) ==
  /\ lock = Nobody
  /\ t \notin holders
  /\ lock' = t
  /\ UNCHANGED <<holders, lapsed>>

Enter(t) ==
  /\ t \notin holders
  /\ lock = t \/ lapsed
  /\ holders' = holders \cup {t}
  /\ UNCHANGED <<lock, lapsed>>

Leave(t) ==
  /\ t \in holders
  /\ holders' = holders \ {t}
  /\ UNCHANGED <<lock, lapsed>>

Free ==
  /\ lock # Nobody
  /\ lock \notin holders \/ lapsed
  /\ lock' = Nobody
  /\ UNCHANGED <<holders, lapsed>>

Lapse ==
  /\ ~lapsed
  /\ lapsed' = TRUE
  /\ UNCHANGED <<lock, holders>>

(* Take and Enter, for a user who has not seen them apart.                 *)
Acquire(t) ==
  /\ lock = Nobody
  /\ t \notin holders
  /\ lock' = t
  /\ holders' = holders \cup {t}
  /\ UNCHANGED lapsed

(* Leave and Free.                                                         *)
Release(t) ==
  /\ t \in holders
  /\ lock = t
  /\ lock' = Nobody
  /\ holders' = holders \ {t}
  /\ UNCHANGED lapsed

(* Leave, with the lock left behind to one that does not enter: Leave,     *)
(* Free and Take.                                                          *)
Abandon(t, u) ==
  /\ t \in holders
  /\ lock = t
  /\ u \notin holders
  /\ lock' = u
  /\ holders' = holders \ {t}
  /\ UNCHANGED lapsed

(* Lapse and Free.                                                         *)
Lose ==
  /\ lock # Nobody
  /\ lock' = Nobody
  /\ lapsed' = TRUE
  /\ UNCHANGED holders

Next ==
  \/ \E t \in Tokens :
       \/ Take(t) \/ Enter(t) \/ Leave(t)
       \/ Acquire(t) \/ Release(t)
       \/ \E u \in Tokens : Abandon(t, u)
  \/ Free
  \/ Lapse
  \/ Lose

Spec == Init /\ [][Next]_vars

=============================================================================
