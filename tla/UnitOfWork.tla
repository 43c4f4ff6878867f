------------------------------ MODULE UnitOfWork ------------------------------
(***************************************************************************)
(* infrastructures/db/uow.py: the Unit of Work that tracks models by       *)
(* identity in three dictionaries and hands them to mappers when it        *)
(* commits, together with PaymentUoWMapper.  The service does not use it   *)
(* (PaymentSQLAlchemyUnitOfWork relies on the session alone), so that its  *)
(* client here is anyone who keeps to its interface: a model is registered *)
(* as new once, and is changed and deleted through its wrapper.            *)
(*                                                                         *)
(* A dictionary is a set here.  A commit that raises has then handled any  *)
(* part of the dictionary it was in, as it may have with some order of     *)
(* insertion.                                                              *)
(***************************************************************************)
EXTENDS Naturals

CONSTANTS Models,    \* model objects
          Types,     \* their classes
          TypeOf,    \* TypeOf[m]: the class of m
          Completing \* classes whose mapper completes its update and delete, as
                     \* DbMapperProtocol wants; PaymentUoWMapper does not

ASSUME UnitOfWorkAssumption == /\ TypeOf \in [Models -> Types]
                               /\ Completing \subseteq Types

VARIABLES new, dirty, deleted,   \* the dictionaries
          mappers,   \* classes with a registered mapper
          wrapped,   \* models the client holds a UoWModel of
          memory,    \* memory[m]: the value of its attributes
          table,     \* table[m]: that value in the database, 0 if it has no row
          removed,   \* models the client deleted, and did not change once that was done
          failed     \* a commit raised

vars == <<new, dirty, deleted, mappers, wrapped, memory, table, removed, failed>>

Values == {1, 2}

TypeOK == /\ {new, dirty, deleted, wrapped, removed} \subseteq SUBSET Models
          /\ mappers \subseteq Types
          /\ memory \in [Models -> Values]
          /\ table \in [Models -> Values \cup {0}]
          /\ failed \in BOOLEAN

\* Some models were loaded from their rows and wrapped by the client.
Init == /\ new = {} /\ dirty = {} /\ deleted = {}
        /\ mappers = {} /\ removed = {} /\ failed = FALSE
        /\ memory = [m \in Models |-> 1]
        /\ wrapped \in SUBSET Models
        /\ table = [m \in Models |-> IF m \in wrapped THEN 1 ELSE 0]

-----------------------------------------------------------------------------

RegisterMapper(t) ==
  /\ mappers' = mappers \cup {t}
  /\ UNCHANGED <<new, dirty, deleted, wrapped, memory, table, removed, failed>>

RegisterNew(m) ==
  /\ m \notin wrapped
  /\ new' = new \cup {m}
  /\ wrapped' = wrapped \cup {m}
  /\ UNCHANGED <<dirty, deleted, mappers, memory, table, removed, failed>>

\* register_dirty: a new model will be inserted as it then is.
RegisterDirty(m) == dirty' = IF m \in new THEN dirty ELSE dirty \cup {m}

\* UoWModel.__setattr__.  To change a model that was deleted, and is not waiting
\* for its deletion any more, is to ask for its row again.
Assign(m, v) ==
  /\ m \in wrapped
  /\ memory' = [memory EXCEPT ![m] = v]
  /\ RegisterDirty(m)
  /\ removed' = IF m \in deleted THEN removed ELSE removed \ {m}
  /\ UNCHANGED <<new, deleted, mappers, wrapped, table, failed>>

\* register_deleted: a new model is forgotten, any other is deleted by the commit.
RegisterDeleted(m) ==
  /\ m \in wrapped
  /\ removed' = removed \cup {m}
  /\ IF m \in new
     THEN new' = new \ {m} /\ UNCHANGED <<dirty, deleted>>
     ELSE /\ dirty' = dirty \ {m}
          /\ deleted' = deleted \cup {m}
          /\ UNCHANGED new
  /\ UNCHANGED <<mappers, wrapped, memory, table, failed>>

-----------------------------------------------------------------------------
(* The mappers: insert adds the model to the session; update merges the    *)
(* model into it, which inserts what has no row, and delete deletes it;    *)
(* these two are coroutine functions of the session, and do something only *)
(* if their coroutine is awaited.  What a session tracks by itself is left *)
(* out.                                                                    *)

Complete(m) == TypeOf[m] \in Completing

Inserted(t, S) == [m \in Models |-> IF m \in S THEN memory[m] ELSE t[m]]

Updated(t, S) == [m \in Models |-> IF m \in S /\ Complete(m) THEN memory[m] ELSE t[m]]

Deleted(t, S) == [m \in Models |-> IF m \in S /\ Complete(m) THEN 0 ELSE t[m]]

Mapped(S) == {m \in S : TypeOf[m] \in mappers}

Clear == new' = {} /\ dirty' = {} /\ deleted' = {}

\* Mutant: deletions are carried out before the updates.
CommitDeletesFirst ==
  /\ Mapped(new \cup dirty \cup deleted) = new \cup dirty \cup deleted
  /\ table' = Updated(Deleted(Inserted(table, new), deleted), dirty)
  /\ Clear
  /\ UNCHANGED <<mappers, wrapped, memory, removed, failed>>

\* Mutant: the dirty models are cleared without having been updated.
CommitForgetsDirty ==
  /\ Mapped(new \cup dirty \cup deleted) = new \cup dirty \cup deleted
  /\ table' = Deleted(Inserted(table, new), deleted)
  /\ Clear
  /\ UNCHANGED <<mappers, wrapped, memory, removed, failed>>

Commit ==
  /\ Mapped(new \cup dirty \cup deleted) = new \cup dirty \cup deleted
  /\ table' = Deleted(Updated(Inserted(table, new), dirty), deleted)
  /\ Clear
  /\ UNCHANGED <<mappers, wrapped, memory, removed, failed>>

\* The first model without a mapper raises ValueError, and a mapper may raise (as
\* delete does for a model that is not persistent); what was handled before is
\* done, and nothing is cleared.
CommitRaises ==
  /\ \/ /\ new # {}
        /\ \E S \in SUBSET Mapped(new) : table' = Inserted(table, S)
     \/ /\ Mapped(new) = new /\ dirty # {}
        /\ \E S \in SUBSET Mapped(dirty) :
             table' = Updated(Inserted(table, new), S)
     \/ /\ Mapped(new \cup dirty) = new \cup dirty /\ deleted # {}
        /\ \E S \in SUBSET Mapped(deleted) :
             table' = Deleted(Updated(Inserted(table, new), dirty), S)
  /\ failed' = TRUE
  /\ UNCHANGED <<new, dirty, deleted, mappers, wrapped, memory, removed>>

Next == \/ \E t \in Types : RegisterMapper(t)
        \/ \E m \in Models : \/ RegisterNew(m) \/ RegisterDeleted(m)
                             \/ \E v \in Values : Assign(m, v)
        \/ Commit \/ CommitRaises

Spec == Init /\ [][Next]_vars

-----------------------------------------------------------------------------
(* Properties.                                                             *)

\* No change is forgotten, through failed commits and retries, by mappers that keep
\* their protocol: a row that differs from its model belongs to a model that the
\* next commit will handle, unless the client gave that model up (register_dirty
\* skips new models, __setattr__).
ChangesAreTracked ==
  \A m \in wrapped \ removed :
    Complete(m) /\ table[m] # 0 /\ table[m] # memory[m] => m \in new \cup dirty \cup deleted

\* By such mappers too, and as long as every commit succeeded: a model that was
\* deleted, and not changed after the deletion was done, has no row.  It takes that
\* register_deleted drops only models that were never inserted, and that a commit
\* carries out deletions after the updates, which would insert the row again.
DeletedIsGone ==
  ~failed => \A m \in removed \ deleted : Complete(m) => table[m] = 0

=============================================================================
