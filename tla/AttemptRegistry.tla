---------------------------- MODULE AttemptRegistry ----------------------------
(***************************************************************************)
(* What the generator dispatch ledger promises its users, without files,   *)
(* processes or crashes: a register of the phase of every logical arm that *)
(* only moves forward, and a provider that is asked once per arm, after    *)
(* the arm is in the register.                                             *)
(***************************************************************************)
EXTENDS Naturals

CONSTANT Arms

VARIABLES phase, sent

Phases == {"none", "planned", "dispatched", "completed", "failed"}

\* Where the register may find an arm next.
Later == [none       |-> Phases,
          planned    |-> {"planned", "dispatched", "completed", "failed"},
          dispatched |-> {"dispatched", "completed", "failed"},
          completed  |-> {"completed"},
          failed     |-> {"failed"}]

Init ==
  /\ phase = [a \in Arms |-> "none"]
  /\ sent  = [a \in Arms |-> 0]

Advance ==
  /\ phase' \in [Arms -> Phases]
  /\ \A a \in Arms : phase'[a] \in Later[phase[a]]
  /\ UNCHANGED sent

Send(a) ==
  /\ phase[a] # "none" /\ sent[a] = 0
  /\ sent' = [sent EXCEPT ![a] = 1]
  /\ UNCHANGED phase

Next == Advance \/ \E a \in Arms : Send(a)

Spec == Init /\ [][Next]_<<phase, sent>>
=============================================================================
