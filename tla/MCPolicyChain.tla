---------------------------- MODULE MCPolicyChain ----------------------------
(***************************************************************************)
(* Values for the constants of PolicyChain, small enough for TLC.          *)
(***************************************************************************)
EXTENDS PolicyChainProperties

MCText == {"", "user", "ana", "doc", "org", "one", "read", "write"}
MCBlank == {""}
MCContext == {"ctx"}

Asks(action) ==
  [subject |-> [type |-> "user", id |-> "ana"], action |-> action,
   resource |-> [type |-> "doc", id |-> ""],
   scope |-> [type |-> "org", id |-> "one"], context |-> "ctx"]

Read == Asks("read")
Write == Asks("write")
MCRequests == {Read, Write}

Bind(matches, calls) == [isNil |-> FALSE, matches |-> matches, calls |-> calls]
NilPolicy == [isNil |-> TRUE, matches |-> MCRequests, calls |-> 0]

\* A policy that calls next twice within one that does so once, and the other
\* way round; three in a row; policies for one action; a nil policy.
Everything == MCRequests
RepeatingChains ==
  {<<Bind(Everything, 2), Bind({Read}, 1)>>,
   <<Bind({Read}, 1), Bind(Everything, 2)>>,
   <<Bind(Everything, 1), NilPolicy, Bind({Write}, 1), Bind({Read}, 1)>>}
ShortChains == {<<>>, <<NilPolicy>>, <<Bind({Read}, 1)>>}
MCChains == RepeatingChains \cup ShortChains

Own(allowed, source) ==
  [NoDecision EXCEPT !.allowed = allowed, !.source = source]

Granted == Allow("direct_permission", "direct", SubjectPrincipal(Read.subject))
MCDecisions == {Granted, Own(TRUE, "none"), Own(FALSE, "none"), Own(TRUE, "unset"), NoDecision}

MCBesideErrors == {NoDecision, Own(TRUE, "none")}
MCErrors == {Error("evaluation", "membership_confirmed", "backend")}
=============================================================================
