----------------------------- MODULE MCPipeline -----------------------------
(***************************************************************************)
(* Values for the constants of Pipeline, small enough for TLC.             *)
(***************************************************************************)
EXTENDS PipelineProperties

MCText == {"", " ", "org", "one", "user", "ana", "bob", "team", "red", "blue",
           "doc", "read"}
MCBlank == {"", " "}
MCContext == {"ctx"}

Named(type, id) == [type |-> type, id |-> id]

Asks(subject, resource) ==
  [subject |-> Named("user", subject), action |-> "read",
   resource |-> Named("doc", resource), scope |-> Named("org", "one"),
   context |-> "ctx"]

\* A document of the scope, the type of documents, the same for another
\* subject, an id of spaces (a concrete resource), and a request without action.
OnDocument == Asks("ana", "one")
OnType == Asks("ana", "")
OfBob == Asks("bob", "")
OnBlankId == Asks("ana", " ")
Invalid == [OnType EXCEPT !.action = " "]

Config(permissions) ==
  [memberships |-> TRUE, groups |-> TRUE, resolver |-> TRUE,
   permissions |-> permissions]

OneByOne == {Config("single")}
InBulk == {Config("batch")}
AllReaders == OneByOne \cup InBulk
Misconfigured ==
  {[Config("single") EXCEPT !.memberships = FALSE],
   [Config("single") EXCEPT !.groups = FALSE],
   [Config("batch") EXCEPT !.resolver = FALSE],
   Config("none")}

AnyEngine == AllReaders \cup Misconfigured

Red == Named("team", "red")
Blue == Named("team", "blue")

NoGroupsOrOne == {<<>>, <<Red>>}
RepeatedGroups == {<<>>, <<Red, Red>>, <<Red, Blue>>}

Singles == {<<OnDocument>>, <<OnType>>, <<OnBlankId>>, <<Invalid>>}
Pairs == {<<>>, <<OnDocument, OnType>>, <<OnType, OfBob>>, <<Invalid, OnType>>}
Repeats == {<<OnType, OnType>>, <<OnDocument, OnDocument, OnType>>}
AllBatches == Singles \cup Pairs \cup Repeats

Deadline == {"deadline"}
BackendOrDeadline == {"backend", "deadline"}
CancelOrDeadline == {"canceled", "deadline"}
=============================================================================
