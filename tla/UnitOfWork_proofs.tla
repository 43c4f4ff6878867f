-------------------------- MODULE UnitOfWork_proofs --------------------------
(***************************************************************************)
(* Proofs about UnitOfWork for any models and classes: for classes with a  *)
(* mapper that keeps DbMapperProtocol, and for those with one that, like   *)
(* PaymentUoWMapper, does not complete its updates and deletions.          *)
(***************************************************************************)
EXTENDS UnitOfWork, TLAPS

UInv == /\ TypeOK
        /\ new \cup dirty \cup deleted \cup removed \subseteq wrapped
        /\ new \cap (removed \cup dirty) = {}
        /\ removed \cap dirty \subseteq deleted
        /\ \A m \in Models \ wrapped : table[m] = 0
        /\ ~failed => \A m \in new : table[m] = 0
        /\ ChangesAreTracked
        /\ DeletedIsGone

-----------------------------------------------------------------------------

LEMMA InitUInv == Init => UInv
  BY DEF Init, UInv, TypeOK, Values, ChangesAreTracked, DeletedIsGone

\* Whatever part of the new and dirty models a commit handles, it writes their
\* present values, whether they have a row or not; whatever part of the deleted
\* ones, it removes their rows.
LEMMA Handled ==
  ASSUME TypeOK, NEW N, NEW D, NEW R
  PROVE  LET t == Deleted(Updated(Inserted(table, N), D), R) IN
           /\ t \in [Models -> Values \cup {0}]
           /\ \A m \in Models :
                /\ m \notin N \cup D => t[m] \in {table[m], 0}
                /\ m \notin N \cup D \cup R => t[m] = table[m]
                /\ Complete(m) /\ m \in R => t[m] = 0
                /\ Complete(m) /\ m \notin R /\ m \in N \cup D => t[m] = memory[m]
<1> DEFINE i == Inserted(table, N)
           u == Updated(i, D)
           t == Deleted(u, R)
<1>1. /\ i \in [Models -> Values \cup {0}]
      /\ \A m \in Models : i[m] = IF m \in N THEN memory[m] ELSE table[m]
  BY DEF TypeOK, Inserted
<1>2. /\ u \in [Models -> Values \cup {0}]
      /\ \A m \in Models : u[m] = IF m \in D /\ Complete(m) THEN memory[m] ELSE i[m]
  BY <1>1 DEF TypeOK, Updated
<1>3. /\ t \in [Models -> Values \cup {0}]
      /\ \A m \in Models : t[m] = IF m \in R /\ Complete(m) THEN 0 ELSE u[m]
  BY <1>2 DEF Deleted
<1>4. QED
  BY <1>1, <1>2, <1>3

LEMMA CommitUInv == ASSUME UInv, Commit PROVE UInv'
<1> USE DEF UInv, Commit, Clear
<1>1. /\ table' \in [Models -> Values \cup {0}]
      /\ \A m \in Models :
           /\ m \notin new \cup dirty => table'[m] \in {table[m], 0}
           /\ m \notin new \cup dirty \cup deleted => table'[m] = table[m]
           /\ Complete(m) /\ m \in deleted => table'[m] = 0
           /\ Complete(m) /\ m \notin deleted /\ m \in new \cup dirty
                => table'[m] = memory[m]
  BY Handled
<1>2. TypeOK'
  BY <1>1 DEF TypeOK
<1>3. \A m \in Models \ wrapped' : table'[m] = 0
  BY <1>1
<1>4. ChangesAreTracked'
  BY <1>1 DEF TypeOK, ChangesAreTracked, Complete
<1>5. DeletedIsGone'
  <2>1. \A m \in removed \ deleted : m \notin new \cup dirty
    OBVIOUS
  <2>2. QED
    BY <1>1, <2>1 DEF TypeOK, DeletedIsGone, Complete
<1>6. QED
  BY <1>2, <1>3, <1>4, <1>5

\* A commit that raised handled part of the models.
LEMMA RaisedPart ==
  ASSUME TypeOK, CommitRaises
  PROVE  \E N \in SUBSET new, D \in SUBSET dirty, R \in SUBSET deleted :
           table' = Deleted(Updated(Inserted(table, N), D), R)
<1> DEFINE Result(N, D, R) == Deleted(Updated(Inserted(table, N), D), R)
<1>1. \A N, D : Result(N, {}, {}) = Inserted(table, N)
              /\ Result(N, D, {}) = Updated(Inserted(table, N), D)
  BY DEF TypeOK, Inserted, Updated, Deleted
<1>2. \A S : Mapped(S) \subseteq S
  BY DEF Mapped
<1>3. ASSUME NEW S \in SUBSET Mapped(new), table' = Inserted(table, S)
      PROVE  \E N \in SUBSET new, D \in SUBSET dirty, R \in SUBSET deleted :
               table' = Result(N, D, R)
  <2>1. S \in SUBSET new /\ table' = Result(S, {}, {})
    BY <1>1, <1>2, <1>3
  <2>2. QED
    BY <2>1
<1>4. ASSUME NEW S \in SUBSET Mapped(dirty), table' = Updated(Inserted(table, new), S)
      PROVE  \E N \in SUBSET new, D \in SUBSET dirty, R \in SUBSET deleted :
               table' = Result(N, D, R)
  <2>1. S \in SUBSET dirty /\ table' = Result(new, S, {})
    BY <1>1, <1>2, <1>4
  <2>2. QED
    BY <2>1
<1>5. ASSUME NEW S \in SUBSET Mapped(deleted),
             table' = Deleted(Updated(Inserted(table, new), dirty), S)
      PROVE  \E N \in SUBSET new, D \in SUBSET dirty, R \in SUBSET deleted :
               table' = Result(N, D, R)
  BY <1>2, <1>5
<1>6. QED
  BY <1>3, <1>4, <1>5 DEF CommitRaises

LEMMA RaisedUInv == ASSUME UInv, CommitRaises PROVE UInv'
<1>1. PICK N \in SUBSET new, D \in SUBSET dirty, R \in SUBSET deleted :
        table' = Deleted(Updated(Inserted(table, N), D), R)
  BY RaisedPart DEF UInv
<1>0. N \subseteq new /\ D \subseteq dirty /\ R \subseteq deleted
  OBVIOUS
<1>2. /\ table' \in [Models -> Values \cup {0}]
      /\ \A m \in Models : /\ m \notin N \cup D => table'[m] \in {table[m], 0}
                           /\ m \notin N \cup D \cup R => table'[m] = table[m]
  BY <1>1, Handled DEF UInv
<1>3. failed' = TRUE /\ UNCHANGED <<new, dirty, deleted, mappers, wrapped, memory, removed>>
  BY DEF CommitRaises
<1>4. TypeOK'
  BY <1>2, <1>3 DEF UInv, TypeOK
<1>5. ASSUME NEW m \in Models \ wrapped' PROVE table'[m] = 0
  <2>1. m \notin wrapped /\ table[m] = 0
    BY <1>3 DEF UInv
  <2>2. m \notin N \cup D
    BY <1>0, <2>1 DEF UInv
  <2>3. QED
    BY <1>2, <2>1, <2>2
<1>6. ChangesAreTracked'
  <2>1. ASSUME NEW m \in Models, m \notin new \cup dirty \cup deleted
        PROVE  table'[m] = table[m]
    <3>1. m \notin N \cup D \cup R
      BY <1>0, <2>1
    <3>2. QED
      BY <1>2, <3>1
  <2>2. QED
    BY <1>3, <2>1 DEF UInv, TypeOK, ChangesAreTracked
<1>7. DeletedIsGone'
  BY <1>3 DEF DeletedIsGone
<1>8. QED
  BY <1>3, <1>4, <1>5, <1>6, <1>7 DEF UInv

LEMMA NextUInv == ASSUME UInv, [Next]_vars PROVE UInv'
<1> USE DEF Complete
<1>1. ASSUME NEW t \in Types, RegisterMapper(t) PROVE UInv'
  <2>1. TypeOK' /\ UNCHANGED <<new, dirty, deleted, wrapped, memory, table, removed, failed>>
    BY <1>1 DEF RegisterMapper, UInv, TypeOK
  <2>2. ChangesAreTracked' /\ DeletedIsGone'
    BY <2>1 DEF UInv, ChangesAreTracked, DeletedIsGone
  <2>3. QED
    BY <2>1, <2>2 DEF UInv
<1>2. ASSUME NEW m \in Models, RegisterNew(m) PROVE UInv'
  <2>1. TypeOK'
    BY <1>2 DEF RegisterNew, UInv, TypeOK
  <2>2. ChangesAreTracked'
    BY <1>2 DEF RegisterNew, UInv, ChangesAreTracked
  <2>3. DeletedIsGone'
    BY <1>2 DEF RegisterNew, UInv, DeletedIsGone
  <2>4. QED
    BY <1>2, <2>1, <2>2, <2>3 DEF RegisterNew, UInv
<1>3. ASSUME NEW m \in Models, RegisterDeleted(m) PROVE UInv'
  <2>1. TypeOK'
    BY <1>3 DEF RegisterDeleted, UInv, TypeOK
  <2>2. ChangesAreTracked'
    BY <1>3 DEF RegisterDeleted, UInv, ChangesAreTracked
  <2>3. DeletedIsGone'
    BY <1>3 DEF RegisterDeleted, UInv, DeletedIsGone
  <2>4. QED
    BY <1>3, <2>1, <2>2, <2>3 DEF RegisterDeleted, UInv
<1>4. ASSUME NEW m \in Models, NEW v \in Values, Assign(m, v) PROVE UInv'
  <2>1. TypeOK'
    BY <1>4 DEF Assign, RegisterDirty, UInv, TypeOK
  <2>2. ChangesAreTracked'
    BY <1>4 DEF Assign, RegisterDirty, UInv, TypeOK, ChangesAreTracked
  <2>3. DeletedIsGone'
    BY <1>4 DEF Assign, UInv, DeletedIsGone
  <2>4. /\ dirty' \subseteq dirty \cup {m} /\ (m \in new => dirty' = dirty)
        /\ removed' \subseteq removed /\ (m \notin deleted => m \notin removed')
    BY <1>4 DEF Assign, RegisterDirty
  <2>5. QED
    BY <1>4, <2>1, <2>2, <2>3, <2>4 DEF Assign, UInv
<1>5. CASE UNCHANGED vars
  BY <1>5 DEF vars, UInv, TypeOK, ChangesAreTracked, DeletedIsGone
<1>6. QED
  BY <1>1, <1>2, <1>3, <1>4, <1>5, CommitUInv, RaisedUInv DEF Next

LEMMA Invariance == Spec => []UInv
<1>1. UInv /\ [Next]_vars => UInv'
  BY NextUInv
<1>2. QED
  BY <1>1, InitUInv, PTL DEF Spec

\* No change made through a wrapper is forgotten, through failed commits too, if
\* the mapper of the model's class completes its updates.
THEOREM NothingForgotten == Spec => []ChangesAreTracked
<1>1. UInv => ChangesAreTracked
  BY DEF UInv
<1>2. QED
  BY <1>1, Invariance, PTL

\* As long as no commit failed, a deletion leaves no row behind, though updates
\* insert what has none: it is done after all changes that came before its commit.
THEOREM DeletionsHappen == Spec => []DeletedIsGone
<1>1. UInv => DeletedIsGone
  BY DEF UInv
<1>2. QED
  BY <1>1, Invariance, PTL

-----------------------------------------------------------------------------
(* PaymentUoWMapper, which awaits neither merge nor delete.                  *)

OnlyInserts ==
  \A m \in Models : ~Complete(m) /\ table'[m] # table[m] => m \in new /\ table'[m] = memory[m]

\* Of a class outside Completing, updates and deletions leave the table as it is.
LEMMA UnawaitedWrites ==
  ASSUME TypeOK, NEW N, NEW D, NEW R, NEW m \in Models, ~Complete(m)
  PROVE  Deleted(Updated(Inserted(table, N), D), R)[m] =
           IF m \in N THEN memory[m] ELSE table[m]
  BY DEF TypeOK, Inserted, Updated, Deleted

LEMMA NextInserts == ASSUME TypeOK, [Next]_vars PROVE [OnlyInserts]_vars
<1>1. CASE Commit \/ CommitRaises
  <2>1. PICK N \in SUBSET new, D \in SUBSET dirty, R \in SUBSET deleted :
          table' = Deleted(Updated(Inserted(table, N), D), R)
    BY <1>1, RaisedPart DEF Commit
  <2>2. QED
    BY <2>1, UnawaitedWrites DEF OnlyInserts
<1>2. CASE UNCHANGED table
  BY <1>2 DEF OnlyInserts
<1>3. QED
  BY <1>1, <1>2 DEF Next, vars, RegisterMapper, RegisterNew, RegisterDeleted, Assign

\* For models of a class whose mapper is like PaymentUoWMapper, all that a unit of
\* work gets the database to do is to insert new ones: no registered change and no
\* deletion has any effect.
THEOREM UnawaitedOnlyInserts == Spec => [][OnlyInserts]_vars
<1>1. TypeOK /\ [Next]_vars => [OnlyInserts]_vars
  BY NextInserts
<1>2. UInv => TypeOK
  BY DEF UInv
<1>3. QED
  BY <1>1, <1>2, Invariance, PTL DEF Spec

=============================================================================
