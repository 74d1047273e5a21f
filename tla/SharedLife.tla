----------------------------- MODULE SharedLife ----------------------------
(***************************************************************************)
(* What a reference count promises: an object lives as long as somebody    *)
(* has it, nobody gets it from a dead one, and it is given back once, by   *)
(* whoever had it last.  There is no count here, only the owners.          *)
(***************************************************************************)
CONSTANTS
  Things,   \* the counted objects
  Agents    \* who may own one

VARIABLES
  alive,    \* objects in use
  owners    \* who has each of them

LifeInit ==
  /\ alive = {}
  /\ owners = [r \in Things |-> {}]

Create(r, a) ==
  /\ r \notin alive
  /\ alive' = alive \cup {r}
  /\ owners' = [owners EXCEPT ![r] = {a}]

(* An owner lets another one in; without owners there is no way back. *)
Share(r, a) ==
  /\ owners[r] # {} /\ a \notin owners[r]
  /\ owners' = [owners EXCEPT ![r] = @ \cup {a}]
  /\ UNCHANGED alive

Pass(r, a, b) ==
  /\ a \in owners[r] /\ b \notin owners[r]
  /\ owners' = [owners EXCEPT ![r] = (@ \ {a}) \cup {b}]
  /\ UNCHANGED alive

Release(r, a) ==
  /\ a \in owners[r]
  /\ owners' = [owners EXCEPT ![r] = @ \ {a}]
  /\ UNCHANGED alive

(* The end: nobody is left, or the only owner gives it back directly. *)
Reclaim(r) ==
  /\ r \in alive
  /\ owners[r] = {} \/ \E a \in Agents : owners[r] = {a}
  /\ alive' = alive \ {r}
  /\ owners' = [owners EXCEPT ![r] = {}]

LifeNext ==
  \E r \in Things :
    \/ \E a \in Agents :
         Create(r, a) \/ Share(r, a) \/ Release(r, a) \/ \E b \in Agents : Pass(r, a, b)
    \/ Reclaim(r)

LifeSpec == LifeInit /\ [][LifeNext]_<<alive, owners>>
=============================================================================
