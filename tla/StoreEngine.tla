----------------------------- MODULE StoreEngine -----------------------------
(***************************************************************************)
(* A call of an engine whose readers are the example store (NewEngine in    *)
(* examples/advanced/store/store.go), while the tables lose rows: what a    *)
(* reader answers is what the tables say at that moment, and a revocation   *)
(* may fall between any two steps of the run.                               *)
(***************************************************************************)
EXTENDS Engine, Store

CONSTANTS
  Tables,      \* the contents the store may have when the call starts
  MaxRevoked   \* bound: rows that are removed during a call

\* Rows are given by the ids they hold; assignments and grants are in order.
Rows ==
  [documents : SUBSET (Text \X Text), members : SUBSET (Text \X Text),
   assignments : Seq([user : Text, project : Text, role : Text]),
   grants : Seq([kind : {"subject", "group"}, id : Text, action : Text,
                 resource : Text, project : Text])]

\* NewEngine: the store is every reader, and answers many checks at once.
NewEngine == [memberships |-> TRUE, groups |-> TRUE, resolver |-> TRUE,
              permissions |-> "batch"]

ASSUME StoreAssumption == Tables \subseteq Rows /\ Engines = {NewEngine}

VARIABLES
  tables,   \* the store
  revoked,  \* how many rows have been removed
  before    \* history: the store when the call started

storeVars == <<engineVars, tables, revoked, before>>

\* A call with several checks goes to HasPermissions.
StoreSays(l) ==
  CASE l.reader = "ResourceInScope" -> ResourceInScope(tables, l.about[1], l.about[2])
    [] l.reader = "HasMembership" -> HasMembership(tables, l.about[1], l.about[2])
    [] l.reader = "GroupsForSubject" -> FALSE
    [] l.reader = "HasPermission" ->
         IF call = {l} THEN HasPermission(tables, l.about[1], l.about[2])
         ELSE HasPermissions(tables, {m.about : m \in call})[l.about]

StoreResult(l) ==
  [ok |-> StoreSays(l), err |-> Nil,
   groups |-> IF l.reader = "GroupsForSubject"
                THEN GroupsForSubject(tables, l.about[1], l.about[2]) ELSE <<>>]

StoreInit ==
  /\ EngineInit
  /\ before \in Tables
  /\ tables = before
  /\ revoked = 0

\* The store never fails.
StoreReturns ==
  /\ ReaderReturns
  /\ \A l \in call : seen'[l] = StoreResult(l)

\* The tables of this store never change; those of a store like it, kept in a
\* database, do: a row is removed, at any moment.
Revoke ==
  /\ revoked < MaxRevoked
  /\ ~replied
  /\ \/ \E row \in tables.documents : tables' = [tables EXCEPT !.documents = @ \ {row}]
     \/ \E row \in tables.members : tables' = [tables EXCEPT !.members = @ \ {row}]
     \/ \E n \in DOMAIN tables.assignments :
          tables' = [tables EXCEPT !.assignments = RemoveAt(@, n)]
     \/ \E n \in DOMAIN tables.grants :
          tables' = [tables EXCEPT !.grants = RemoveAt(@, n)]
  /\ revoked' = revoked + 1
  /\ UNCHANGED <<engineVars, before>>

StoreNext ==
  \/ /\ \/ Running(RunStep) \/ Running(StoreReturns) \/ Running(Cancel)
        \/ RefuseBatch \/ ReplyResults \/ EngineDone
     /\ UNCHANGED <<tables, revoked, before>>
  \/ Revoke

StoreSpec == StoreInit /\ [][StoreNext]_storeVars

=============================================================================
