---------------------------- MODULE MCDispatcher ----------------------------
\* Small instances of the dispatcher: event 1 and 2 compete for one business key
\* of a consumed topic, event 3 is on a topic nobody consumes.
EXTENDS Dispatcher, TLC

MCTopic == 1 :> "account" @@ 2 :> "account" @@ 3 :> "orphan"
MCKey == 1 :> "a" @@ 2 :> "a" @@ 3 :> "b"

MCConsumerOf == "account" :> "files"

\* The pid of the server process is the same in every container.
MCOwnerOf == [p \in Proc |-> "server-1"]

Replicas == Permutations(Proc)
=============================================================================
