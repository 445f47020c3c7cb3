---------------------------- MODULE RequestValues ----------------------------
(***************************************************************************)
(* What builders promise: each is a value of its own, its context a plain   *)
(* map from keys to values.  A call makes one more builder, a copy of the   *)
(* one it was made on but for what the call sets; none ever changes.        *)
(***************************************************************************)
EXTENDS Naturals, Sequences

CONSTANTS Unset, Keys, Absent

VARIABLES
  calls,  \* the calls so far: the builder each was made on, and what it sets
  values  \* the builder that each of them made

vars == <<calls, values>>

NoValues == [key \in Keys |-> Absent]

Blank ==
  [subject |-> Unset, action |-> Unset, resource |-> Unset, scope |-> Unset,
   actions |-> <<>>, context |-> NoValues]

\* The value of the n-th builder; there is a blank one to start from.
Old(n) == IF n = 0 THEN Blank ELSE values[n]

Result(call) ==
  CASE call.set = "context" -> [Old(call.on) EXCEPT !.context = Old(call.to).context]
    [] call.set = "value" -> [Old(call.on) EXCEPT !.context[call.to[1]] = call.to[2]]
    [] OTHER -> [Old(call.on) EXCEPT ![call.set] = call.to]

Init == calls = <<>> /\ values = <<>>

Next ==
  \E call \in {calls'[Len(calls')]} :
    /\ calls' = Append(calls, call)
    /\ values' = Append(values, Result(call))

Spec == Init /\ [][Next]_vars
=============================================================================
