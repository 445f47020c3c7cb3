-------------------------- MODULE MCPolicyAgreement --------------------------
(***************************************************************************)
(* Values for the constants of PolicyAgreement, small enough for TLC.      *)
(***************************************************************************)
EXTENDS PolicyAgreement

MCText == {"", "user", "ana", "doc", "org", "one", "read", "write"}
MCBlank == {""}
MCContext == {"ctx"}

Asks(action) ==
  [subject |-> [type |-> "user", id |-> "ana"], action |-> action,
   resource |-> [type |-> "doc", id |-> ""],
   scope |-> [type |-> "org", id |-> "one"], context |-> "ctx"]

Read == Asks("read")
Write == Asks("write")
MCRequests == {Read, Write}

Bind(matches, calls) == [isNil |-> FALSE, matches |-> matches, calls |-> calls]

\* A policy that calls next twice, around one or inside one that calls once; a
\* nil policy, and three in a row.
MCChains ==
  {<<>>, <<Bind({Read}, 2), Bind(MCRequests, 1)>>, <<Bind(MCRequests, 1), Bind({Write}, 2)>>,
   <<Bind({Read}, 1), [Bind(MCRequests, 1) EXCEPT !.isNil = TRUE],
     Bind(MCRequests, 1), Bind({Read}, 0)>>}

Granted == Allow("direct_permission", "direct", SubjectPrincipal(Read.subject))
MCDecisions == {Granted, Denial("no_permission")}
MCBesideErrors == {NoDecision, Granted}
MCErrors == {Error("evaluation", "membership_confirmed", "backend")}
=============================================================================
