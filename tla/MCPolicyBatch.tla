---------------------------- MODULE MCPolicyBatch ----------------------------
(***************************************************************************)
(* Values for the constants of PolicyBatch, small enough for TLC.          *)
(***************************************************************************)
EXTENDS PolicyBatchProperties

MCText == {"", "user", "ana", "doc", "org", "one", "read", "write"}
MCBlank == {""}
MCContext == {"ctx"}

Asks(action) ==
  [subject |-> [type |-> "user", id |-> "ana"], action |-> action,
   resource |-> [type |-> "doc", id |-> ""],
   scope |-> [type |-> "org", id |-> "one"], context |-> "ctx"]

Read == Asks("read")
Write == Asks("write")
Invalid == Asks("")
MCRequests == {Read, Write, Invalid}

Bind(matches, calls) == [isNil |-> FALSE, matches |-> matches, calls |-> calls]

\* One policy that sees some of the requests, or others once its matcher has
\* changed; one within another; none.
MCChains ==
  {<<>>, <<Bind({Read}, 1)>>, <<Bind({Write, Invalid}, 1)>>,
   <<Bind({Read, Write}, 1), Bind({Write}, 0)>>}

\* The request put aside comes first, last or in between, alone or repeated.
MCBatches ==
  {<<>>, <<Read>>, <<Read, Write>>, <<Write, Read, Write>>, <<Read, Write, Read>>,
   <<Write, Invalid, Read>>}

Yes == Allow("direct_permission", "direct", SubjectPrincipal(Read.subject))
MCDecisions == {Yes, Denial("no_permission")}
MCBesideErrors == {Yes}
MCErrors == {Error("evaluation", "membership_confirmed", "backend")}
MCSurpluses == {-1, 0, 1}
=============================================================================
