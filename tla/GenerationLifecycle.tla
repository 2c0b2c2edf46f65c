------------------------ MODULE GenerationLifecycle ------------------------
(***************************************************************************)
(* What a user of the service may rely on: a generation is created         *)
(* PENDING, is decided once, with its result tree or with none, and can be *)
(* deleted at any time.                                                    *)
(***************************************************************************)
EXTENDS Naturals

CONSTANT Gens

VARIABLES
  status,  \* of the generation row
  trees    \* result trees linked to the row

vars == <<status, trees>>

Init ==
  /\ status = [g \in Gens |-> "absent"]
  /\ trees = [g \in Gens |-> 0]

Move(g, from, to, n) ==
  /\ status[g] \in from
  /\ status' = [status EXCEPT ![g] = to]
  /\ trees' = [trees EXCEPT ![g] = n]

Create(g)  == Move(g, {"absent"}, "PENDING", 0)
Succeed(g) == Move(g, {"PENDING"}, "SUCCESS", 1)
Fail(g)    == Move(g, {"PENDING"}, "FAILED", 0)
Delete(g)  == Move(g, {"PENDING", "SUCCESS", "FAILED"}, "deleted", 0)

Next == \E g \in Gens : Create(g) \/ Succeed(g) \/ Fail(g) \/ Delete(g)

Spec == Init /\ [][Next]_vars
=============================================================================
