------------------------ MODULE SerializabilityProofs ------------------------
(***************************************************************************)
(* Explicit transactions are serializable and keep what they acknowledged, *)
(* for every number of connections and statements, when no connection runs *)
(* statements outside a transaction.                                       *)
(***************************************************************************)
EXTENDS Transactions, SequenceTheorems, TLAPS

-----------------------------------------------------------------------------
\* Types.

\* A statement has an effect.
LEMMA EffectType ==
  ASSUME NEW s \in Stmts, NEW part \in BOOLEAN
  PROVE  [stmt |-> s, part |-> part] \in Effects
BY DEF Effects

\* The statements that a history completed are statements.
LEMMA DoneType == \A s \in Seq(Effects) : Done(s) \in SUBSET Stmts
<1>1. SUFFICES ASSUME NEW s \in Seq(Effects), NEW i \in 1..Len(s)
               PROVE  s[i].stmt \in Stmts
  BY DEF Done
<1>2. s[i] \in Effects
  BY ElementOfSeq
<1> QED BY <1>2 DEF Effects

\* Effects stay when others are added behind them.
LEMMA DoneConcat ==
  ASSUME NEW s \in Seq(Effects), NEW w \in Seq(Effects)
  PROVE  Done(s) \subseteq Done(s \o w) /\ Done(w) \subseteq Done(s \o w)
<1> DEFINE z == s \o w
<1>1. /\ Len(z) = Len(s) + Len(w) /\ Len(s) \in Nat /\ Len(w) \in Nat
      /\ \A i \in 1..(Len(s) + Len(w)) :
           z[i] = IF i <= Len(s) THEN s[i] ELSE w[i - Len(s)]
  BY ConcatProperties
<1> HIDE DEF z
<1>2. \A i \in 1..Len(s) : i \in 1..Len(z) /\ z[i] = s[i]
  BY <1>1
<1>3. \A i \in 1..Len(w) : Len(s) + i \in 1..Len(z) /\ z[Len(s) + i] = w[i]
  <2>1. SUFFICES ASSUME NEW i \in 1..Len(w)
                 PROVE  Len(s) + i \in 1..Len(z) /\ z[Len(s) + i] = w[i]
    OBVIOUS
  <2>2. /\ Len(s) + i \in 1..(Len(s) + Len(w)) /\ ~(Len(s) + i <= Len(s))
        /\ (Len(s) + i) - Len(s) = i
    BY <1>1
  <2> QED BY <1>1, <2>2
<1>4. Done(s) \subseteq Done(z)
  BY <1>2 DEF Done
<1>5. Done(w) \subseteq Done(z)
  BY <1>3 DEF Done
<1> QED BY <1>4, <1>5 DEF z

\* The types hold before the first BEGIN.
LEMMA InitType == Init => TypeOK
<1>1. SUFFICES ASSUME Init PROVE TypeOK
  OBVIOUS
<1>2. /\ active \in [Conns -> BOOLEAN] /\ handle \in [Conns -> BOOLEAN]
      /\ raced \in BOOLEAN /\ crashed \in BOOLEAN
  BY <1>1, Zenon DEF Init
<1>3. <<>> \in Seq(Effects)
  OBVIOUS
<1> QED BY <1>1, <1>2, <1>3 DEF Init, TypeOK

\* Touch keeps the type of raced.
LEMMA TouchType ==
  ASSUME TypeOK, NEW c \in Conns, Touch(c)
  PROVE  raced' \in BOOLEAN
BY Zenon DEF Touch, TypeOK

\* transaction_tables.reset() keeps the types.
LEMMA EndTxnType ==
  ASSUME TypeOK, NEW c \in Conns, EndTxn(c)
  PROVE  /\ active' \in [Conns -> BOOLEAN] /\ rows' \in [Conns -> Seq(Effects)]
         /\ base' \in [Conns -> Seq(Effects)] /\ wrote' \in [Conns -> Seq(Effects)]
         /\ gen' \in [Conns -> Nat]
<1>1. active' \in [Conns -> BOOLEAN]
  BY Zenon DEF EndTxn, TypeOK
<1>2. <<>> \in Seq(Effects)
  OBVIOUS
<1> QED BY <1>1, <1>2 DEF EndTxn, TypeOK

\* Persisting a snapshot keeps the types.
LEMMA PersistType ==
  ASSUME TypeOK, NEW c \in Conns, NEW s \in Seq(Effects), Persist(c, s)
  PROVE  generation' \in Nat /\ logged' \in Seq(Effects) /\ acked' \in SUBSET Stmts
<1>1. Done(wrote[c]) \in SUBSET Stmts
  BY DoneType DEF TypeOK
<1> QED BY <1>1 DEF Persist, TypeOK

\* COMMIT keeps the types, whether or not it meets a conflict.
LEMMA CommitType ==
  ASSUME TypeOK, NEW c \in Conns, Commit(c), handle' \in [Conns -> BOOLEAN]
  PROVE  TypeOK'
<1>1. /\ active' \in [Conns -> BOOLEAN] /\ rows' \in [Conns -> Seq(Effects)]
      /\ base' \in [Conns -> Seq(Effects)] /\ wrote' \in [Conns -> Seq(Effects)]
      /\ gen' \in [Conns -> Nat] /\ raced' \in BOOLEAN
  BY EndTxnType, TouchType DEF Commit
<1>2. /\ tables' \in Seq(Effects) /\ generation' \in Nat
      /\ logged' \in Seq(Effects) /\ acked' \in SUBSET Stmts
  <2>1. CASE UNCHANGED dbVars
    BY <2>1 DEF dbVars, TypeOK
  <2>2. CASE tables' = rows[c] /\ Persist(c, rows[c])
    <3>1. rows[c] \in Seq(Effects)
      BY DEF TypeOK
    <3> QED BY <2>2, <3>1, PersistType
  <2> QED BY <2>1, <2>2 DEF Commit
<1>3. UNCHANGED <<pc, issued, crashed>>
  BY DEF Commit
<1> QED BY <1>1, <1>2, <1>3 DEF TypeOK

\* BEGIN keeps the types.
LEMMA BeginType ==
  ASSUME TypeOK, NEW c \in Conns, Begin(c), handle' \in [Conns -> BOOLEAN]
  PROVE  TypeOK'
<1>1. active' \in [Conns -> BOOLEAN]
  BY Zenon DEF Begin, TypeOK
<1>2. raced' \in BOOLEAN
  BY TouchType DEF Begin
<1> QED BY <1>1, <1>2 DEF Begin, TypeOK, dbVars

\* Every step of a connection keeps the types.
LEMMA NextType ==
  ASSUME TypeOK, Next
  PROVE  TypeOK'
<1>1. PICK c \in Conns :
        \/ SqlBegin(c) \/ HandleBegin(c)
        \/ Statement(c)
        \/ SqlCommit(c) \/ HandleCommit(c)
        \/ SqlRollback(c) \/ HandleRollback(c) \/ HandleDrop(c)
        \/ AutoEnter(c) \/ AutoExec(c) \/ AutoPersist(c)
  BY DEF Next
<1>2. CASE SqlBegin(c) \/ SqlCommit(c)
  <2>1. handle' \in [Conns -> BOOLEAN]
    BY <1>2 DEF SqlBegin, SqlCommit, TypeOK
  <2> QED BY <1>2, <2>1, BeginType, CommitType DEF SqlBegin, SqlCommit
<1>3. CASE HandleBegin(c)
  <2>1. handle' \in [Conns -> BOOLEAN]
    BY <1>3, Zenon DEF HandleBegin, TypeOK
  <2> QED BY <1>3, <2>1, BeginType DEF HandleBegin
<1>4. CASE HandleCommit(c)
  <2>1. CASE Commit(c) /\ handle' = [handle EXCEPT ![c] = FALSE]
    <3>1. handle' \in [Conns -> BOOLEAN]
      BY <2>1, Zenon DEF TypeOK
    <3> QED BY <2>1, <3>1, CommitType
  <2>2. CASE crashed' = TRUE /\ UNCHANGED <<dbVars, connVars, handle, pc, issued, raced>>
    <3>1. crashed' \in BOOLEAN
      BY <2>2, Zenon
    <3> QED BY <2>2, <3>1 DEF TypeOK, dbVars, connVars
  <2> QED BY <1>4, <2>1, <2>2 DEF HandleCommit
<1>5. CASE SqlRollback(c) \/ HandleRollback(c)
  <2>1. handle' \in [Conns -> BOOLEAN]
    BY <1>5, Zenon DEF SqlRollback, HandleRollback, TypeOK
  <2>2. EndTxn(c) /\ UNCHANGED <<dbVars, pc, issued, raced, crashed>>
    BY <1>5 DEF SqlRollback, HandleRollback
  <2> QED BY <2>1, <2>2, EndTxnType DEF TypeOK, dbVars
<1>6. CASE Statement(c)
  <2>1. PICK s \in Stmts, part \in BOOLEAN :
          /\ issued' = issued \cup {s}
          /\ rows' = [rows EXCEPT ![c] = Append(@, [stmt |-> s, part |-> part])]
          /\ wrote' = [wrote EXCEPT ![c] = Append(@, [stmt |-> s, part |-> part])]
    BY <1>6 DEF Statement
  <2> DEFINE e == [stmt |-> s, part |-> part]
  <2>2. e \in Effects
    BY EffectType
  <2> HIDE DEF e
  <2>3. /\ rows' = [rows EXCEPT ![c] = Append(rows[c], e)]
        /\ wrote' = [wrote EXCEPT ![c] = Append(wrote[c], e)]
    BY <2>1 DEF e
  <2>4. Append(rows[c], e) \in Seq(Effects) /\ Append(wrote[c], e) \in Seq(Effects)
    BY <2>2, AppendProperties DEF TypeOK
  <2> QED BY <1>6, <2>1, <2>3, <2>4 DEF Statement, TypeOK, dbVars
<1>7. CASE AutoEnter(c)
  <2>1. raced' \in BOOLEAN
    BY <1>7, TouchType DEF AutoEnter
  <2> QED BY <1>7, <2>1 DEF AutoEnter, TypeOK, dbVars, connVars
<1>8. CASE AutoExec(c)
  <2>1. CASE pc' = [pc EXCEPT ![c] = "idle"] /\ UNCHANGED <<tables, wrote, issued>>
    BY <1>8, <2>1 DEF AutoExec, TypeOK
  <2>2. ASSUME NEW s \in Stmts, NEW part \in BOOLEAN,
               issued' = issued \cup {s},
               tables' = Append(tables, [stmt |-> s, part |-> part]),
               pc' = [pc EXCEPT ![c] = IF part THEN "idle" ELSE "persist"],
               wrote' = [wrote EXCEPT ![c] =
                           IF part THEN <<>> ELSE <<[stmt |-> s, part |-> part]>>]
        PROVE  TypeOK'
    <3> DEFINE e == [stmt |-> s, part |-> part]
               w == IF part THEN <<>> ELSE <<e>>
               p == IF part THEN "idle" ELSE "persist"
    <3>1. e \in Effects
      BY EffectType
    <3>2. p \in {"idle", "exec", "persist"}
      OBVIOUS
    <3> HIDE DEF e
    <3>3. w \in Seq(Effects)
      BY <3>1
    <3>4. Append(tables, e) \in Seq(Effects)
      BY <3>1, AppendProperties DEF TypeOK
    <3>5. tables' = Append(tables, e) /\ wrote' = [wrote EXCEPT ![c] = w]
      BY <2>2 DEF e
    <3>6. pc' = [pc EXCEPT ![c] = p]
      BY <2>2
    <3> HIDE DEF w, p
    <3>7. /\ tables' \in Seq(Effects) /\ wrote' \in [Conns -> Seq(Effects)]
          /\ pc' \in [Conns -> {"idle", "exec", "persist"}]
      BY <3>2, <3>3, <3>4, <3>5, <3>6 DEF TypeOK
    <3> QED BY <1>8, <2>2, <3>7 DEF AutoExec, TypeOK
  <2> QED BY <1>8, <2>1, <2>2 DEF AutoExec
<1>9. CASE AutoPersist(c)
  <2>1. raced' \in BOOLEAN
    BY <1>9, TouchType DEF AutoPersist
  <2>2. generation' \in Nat /\ logged' \in Seq(Effects) /\ acked' \in SUBSET Stmts
    BY <1>9, PersistType DEF AutoPersist, TypeOK
  <2>3. wrote' \in [Conns -> Seq(Effects)]
    BY <1>9 DEF AutoPersist, TypeOK
  <2> QED BY <1>9, <2>1, <2>2, <2>3 DEF AutoPersist, TypeOK
<1>10. CASE HandleDrop(c)
  <2>1. handle' \in [Conns -> BOOLEAN]
    BY <1>10, Zenon DEF HandleDrop, TypeOK
  <2> QED BY <1>10, <2>1 DEF HandleDrop, TypeOK, dbVars, connVars
<1> QED BY <1>1, <1>2, <1>3, <1>4, <1>5, <1>6, <1>7, <1>8, <1>9, <1>10

\* Every variable of the connections and of the Database keeps its type, with
\* and without statements outside transactions.
THEOREM TransactionTypes == Spec => []TypeOK
<1>1. TypeOK /\ [Next]_vars => TypeOK'
  <2>1. SUFFICES ASSUME TypeOK, [Next]_vars PROVE TypeOK'
    OBVIOUS
  <2>2. CASE UNCHANGED vars
    BY <2>1, <2>2 DEF vars, dbVars, connVars, TypeOK
  <2> QED BY <2>1, <2>2, NextType
<1> QED BY <1>1, InitType, PTL DEF Spec

-----------------------------------------------------------------------------
\* The invariant.

\* No connection has a copy at first.
LEMMA CopyInit == Init => CopyInv
<1>1. SUFFICES ASSUME Init, NEW c \in Conns
               PROVE  /\ gen[c] <= generation
                      /\ pc[c] = "idle"
                      /\ wrote[c] = <<>>
                      /\ ~active[c]
  BY DEF CopyInv
<1>2. ~active[c]
  BY <1>1, Zenon DEF Init
<1> QED BY <1>1, <1>2 DEF Init

\* BEGIN copies the current tables and notes the current generation.
LEMMA CopyBegin ==
  ASSUME TypeOK, CopyInv, NEW c \in Conns, Begin(c)
  PROVE  CopyInv'
<1>1. /\ ~active[c] /\ wrote[c] = <<>>
  BY DEF Begin, CopyInv
<1>2. tables \o <<>> = tables
  BY ConcatEmptySeq DEF TypeOK
<1> QED BY <1>1, <1>2, SMTT(30) DEF Begin, CopyInv, TypeOK, dbVars

\* Dropping a copy makes no other copy wrong.
LEMMA CopyEnd ==
  ASSUME TypeOK, CopyInv, NEW c \in Conns, EndTxn(c),
         UNCHANGED <<tables, generation, pc>>
  PROVE  CopyInv'
BY DEF EndTxn, CopyInv, TypeOK

\* A statement in a transaction extends the copy by its effect.
LEMMA CopyStatement ==
  ASSUME TypeOK, CopyInv, NEW c \in Conns, Statement(c)
  PROVE  CopyInv'
<1>1. PICK e \in Effects :
        /\ rows' = [rows EXCEPT ![c] = Append(rows[c], e)]
        /\ wrote' = [wrote EXCEPT ![c] = Append(wrote[c], e)]
  BY EffectType DEF Statement
<1>2. /\ active[c] /\ UNCHANGED <<tables, generation, active, gen, base, pc>>
  BY DEF Statement, dbVars
<1>3. Append(base[c] \o wrote[c], e) = base[c] \o Append(wrote[c], e)
  <2> DEFINE b == base[c]
             w == wrote[c]
  <2>1. b \in Seq(Effects) /\ w \in Seq(Effects) /\ <<e>> \in Seq(Effects)
    BY DEF TypeOK
  <2> HIDE DEF b, w
  <2>2. (b \o w) \o <<e>> = b \o (w \o <<e>>)
    BY <2>1, ConcatAssociative
  <2>3. b \o w \in Seq(Effects)
    BY <2>1, ConcatProperties
  <2>4. Append(b \o w, e) = (b \o w) \o <<e>> /\ Append(w, e) = w \o <<e>>
    BY <2>1, <2>3, AppendIsConcat
  <2> QED BY <2>2, <2>4 DEF b, w
<1>4. rows[c] = base[c] \o wrote[c]
  BY <1>2 DEF CopyInv
<1> QED BY <1>1, <1>2, <1>3, <1>4 DEF CopyInv, TypeOK

\* A COMMIT either changes nothing but its own transaction, or installs the
\* tables as they are with its own effects added.
LEMMA CommitCases ==
  ASSUME TypeOK, CopyInv, NEW c \in Conns, Commit(c), active[c] \/ generation # gen[c]
  PROVE  \/ UNCHANGED dbVars
         \/ /\ active[c]
            /\ tables' = tables \o wrote[c]
            /\ Persist(c, tables \o wrote[c])
<1>1. CASE generation = gen[c] /\ tables' = rows[c] /\ Persist(c, rows[c])
  <2>1. active[c] /\ rows[c] = tables \o wrote[c]
    BY <1>1 DEF CopyInv
  <2> QED BY <1>1, <2>1
<1> QED BY <1>1 DEF Commit

\* A COMMIT that changes the tables also changes the generation, so that
\* every other copy is known to be old.
LEMMA CopyCommit ==
  ASSUME TypeOK, CopyInv, NEW c \in Conns, Commit(c), active[c] \/ generation # gen[c]
  PROVE  CopyInv'
<1>1. EndTxn(c) /\ UNCHANGED pc
  BY DEF Commit
<1>2. CASE UNCHANGED dbVars
  BY <1>1, <1>2, CopyEnd DEF dbVars
<1>3. CASE generation' = generation + 1
  <2>1. \A d \in Conns : gen[d] <= generation /\ gen[d] # generation + 1
    BY DEF CopyInv, TypeOK
  <2>2. \A d \in Conns : gen'[d] <= generation' /\ gen'[d] # generation' /\ pc'[d] = "idle"
    BY <1>1, <1>3, <2>1 DEF EndTxn, CopyInv, TypeOK
  <2>3. ~active'[c] /\ wrote'[c] = <<>>
    BY <1>1 DEF EndTxn, TypeOK
  <2>4. \A d \in Conns \ {c} :
          active'[d] = active[d] /\ wrote'[d] = wrote[d] /\ rows'[d] = rows[d] /\ base'[d] = base[d]
    BY <1>1 DEF EndTxn, TypeOK
  <2> QED BY <2>2, <2>3, <2>4 DEF CopyInv
<1> QED BY <1>2, <1>3, CommitCases DEF Persist

\* Every step keeps CopyInv.
LEMMA CopyNext ==
  ASSUME AutoConns = {}, TypeOK, CopyInv, Next
  PROVE  CopyInv'
<1>1. PICK c \in Conns :
        \/ SqlBegin(c) \/ HandleBegin(c)
        \/ Statement(c)
        \/ SqlCommit(c) \/ HandleCommit(c)
        \/ SqlRollback(c) \/ HandleRollback(c) \/ HandleDrop(c)
        \/ AutoEnter(c) \/ AutoExec(c) \/ AutoPersist(c)
  BY DEF Next
<1>2. CASE SqlBegin(c) \/ HandleBegin(c)
  BY <1>2, CopyBegin DEF SqlBegin, HandleBegin
<1>3. CASE Statement(c)
  BY <1>3, CopyStatement
<1>4. CASE SqlCommit(c) \/ HandleCommit(c)
  <2>1. CASE Commit(c) /\ (active[c] \/ generation # gen[c])
    BY <2>1, CopyCommit
  <2>2. CASE UNCHANGED <<dbVars, connVars, pc>>
    BY <2>2 DEF dbVars, connVars, CopyInv
  <2> QED BY <1>4, <2>1, <2>2 DEF SqlCommit, HandleCommit
<1>5. CASE SqlRollback(c) \/ HandleRollback(c)
  BY <1>5, CopyEnd DEF SqlRollback, HandleRollback, dbVars
<1>6. CASE HandleDrop(c)
  BY <1>6 DEF HandleDrop, dbVars, connVars, CopyInv
<1>7. ~AutoEnter(c) /\ ~AutoExec(c) /\ ~AutoPersist(c)
  BY DEF AutoEnter, AutoExec, AutoPersist, CopyInv
<1> QED BY <1>1, <1>2, <1>3, <1>4, <1>5, <1>6, <1>7

\* The invariant of the generation check: a copy whose generation is the
\* current one was made from the current tables and differs from them only by
\* its own statements, also after failed commits and stale handles.
THEOREM CopyCurrent ==
  ASSUME AutoConns = {}
  PROVE  Spec => []CopyInv
<1>1. TypeOK /\ CopyInv /\ [Next]_vars => CopyInv'
  <2>1. SUFFICES ASSUME TypeOK, CopyInv, [Next]_vars PROVE CopyInv'
    OBVIOUS
  <2>2. CASE UNCHANGED vars
    BY <2>1, <2>2 DEF vars, dbVars, connVars, CopyInv
  <2> QED BY <2>1, <2>2, CopyNext
<1> QED BY <1>1, CopyInit, TransactionTypes, PTL DEF Spec

-----------------------------------------------------------------------------
\* Every step is a step of SerialDatabase, or none.

\* Ending a transaction is an abort, or nothing, of the abstract database.
LEMMA EndMaps ==
  ASSUME TypeOK, CopyInv, NEW c \in Conns, EndTxn(c)
  PROVE  \/ Serial!End(c)
         \/ ~active[c] /\ UNCHANGED <<active, wrote>>
<1>1. CASE active[c]
  BY <1>1 DEF EndTxn, Serial!End
<1>2. CASE ~active[c]
  <2>1. wrote[c] = <<>>
    BY <1>2 DEF CopyInv
  <2>2. wrote' = wrote
    BY <2>1 DEF EndTxn, TypeOK
  <2>3. active' = active
    <3>1. active[c] = FALSE
      BY <1>2, Zenon DEF TypeOK
    <3> QED BY <3>1, Zenon DEF EndTxn, TypeOK
  <2> QED BY <1>2, <2>2, <2>3
<1> QED BY <1>1, <1>2

\* Every step is a step of the abstract database, or changes nothing there.
LEMMA StepMaps ==
  ASSUME AutoConns = {}, TypeOK, CopyInv, Next
  PROVE  Serial!Next \/ UNCHANGED <<tables, active, wrote>>
<1>1. PICK c \in Conns :
        \/ SqlBegin(c) \/ HandleBegin(c)
        \/ Statement(c)
        \/ SqlCommit(c) \/ HandleCommit(c)
        \/ SqlRollback(c) \/ HandleRollback(c) \/ HandleDrop(c)
        \/ AutoEnter(c) \/ AutoExec(c) \/ AutoPersist(c)
  BY DEF Next
<1>2. CASE SqlBegin(c) \/ HandleBegin(c)
  <2>1. Serial!Begin(c)
    BY <1>2 DEF SqlBegin, HandleBegin, Begin, dbVars, Serial!Begin
  <2> QED BY <2>1 DEF Serial!Next
<1>3. CASE Statement(c)
  <2>1. PICK e \in Effects : wrote' = [wrote EXCEPT ![c] = Append(@, e)]
    BY <1>3, EffectType DEF Statement
  <2>2. Serial!Issue(c, e)
    BY <1>3, <2>1 DEF Statement, dbVars, Serial!Issue
  <2> QED BY <2>2 DEF Serial!Next
<1>4. CASE Commit(c) /\ (active[c] \/ generation # gen[c])
  <2>1. EndTxn(c)
    BY <1>4 DEF Commit
  <2>2. CASE UNCHANGED dbVars
    <3>1. CASE Serial!End(c)
      BY <2>2, <3>1 DEF Serial!Abort, Serial!Next, dbVars
    <3> QED BY <2>1, <2>2, <3>1, EndMaps DEF dbVars
  <2>3. CASE active[c] /\ tables' = tables \o wrote[c]
    BY <2>1, <2>3, EndMaps DEF Serial!Commit, Serial!Next
  <2> QED BY <1>4, <2>2, <2>3, CommitCases
<1>5. CASE UNCHANGED <<dbVars, connVars>>
  BY <1>5 DEF dbVars, connVars
<1>6. CASE SqlRollback(c) \/ HandleRollback(c)
  <2>1. EndTxn(c) /\ UNCHANGED dbVars
    BY <1>6 DEF SqlRollback, HandleRollback
  <2>2. CASE Serial!End(c)
    BY <2>1, <2>2 DEF Serial!Abort, Serial!Next, dbVars
  <2> QED BY <2>1, <2>2, EndMaps DEF dbVars
<1>7. ~AutoEnter(c) /\ ~AutoExec(c) /\ ~AutoPersist(c)
  BY DEF AutoEnter, AutoExec, AutoPersist, CopyInv
<1> QED BY <1>1, <1>2, <1>3, <1>4, <1>5, <1>6, <1>7
        DEF SqlCommit, HandleCommit, HandleDrop

\* Explicit transactions are serializable (the generation check of COMMIT and
\* of Transaction::Commit): the connections implement SerialDatabase.
THEOREM Serializable ==
  ASSUME AutoConns = {}
  PROVE  Spec => SerialSpec
<1>1. Init => Serial!Init
  BY DEF Init, Serial!Init
<1>2. TypeOK /\ CopyInv /\ [Next]_vars => [Serial!Next]_(Serial!vars)
  <2>1. SUFFICES ASSUME TypeOK, CopyInv, [Next]_vars
                 PROVE  Serial!Next \/ UNCHANGED <<tables, active, wrote>>
    BY DEF Serial!vars
  <2>2. CASE UNCHANGED vars
    BY <2>2 DEF vars, dbVars, connVars
  <2> QED BY <2>1, <2>2, StepMaps
<1> QED BY <1>1, <1>2, TransactionTypes, CopyCurrent, PTL
        DEF Spec, SerialSpec, Serial!Spec

-----------------------------------------------------------------------------
\* AckedKept, without the escape for accesses that met.
KeptInv == acked \subseteq Done(tables) /\ acked \subseteq Done(logged)

\* Every step keeps the invariant behind AckedKept.
LEMMA KeptNext ==
  ASSUME AutoConns = {}, TypeOK, CopyInv, KeptInv, Next
  PROVE  KeptInv'
<1>1. PICK c \in Conns :
        \/ SqlBegin(c) \/ HandleBegin(c)
        \/ Statement(c)
        \/ SqlCommit(c) \/ HandleCommit(c)
        \/ SqlRollback(c) \/ HandleRollback(c) \/ HandleDrop(c)
        \/ AutoEnter(c) \/ AutoExec(c) \/ AutoPersist(c)
  BY DEF Next
<1>2. CASE UNCHANGED dbVars
  BY <1>2 DEF dbVars, KeptInv
<1>3. CASE tables' = tables \o wrote[c] /\ Persist(c, tables \o wrote[c])
  <2>1. /\ Done(tables) \subseteq Done(tables \o wrote[c])
        /\ Done(wrote[c]) \subseteq Done(tables \o wrote[c])
    BY DoneConcat DEF TypeOK
  <2> QED BY <1>3, <2>1 DEF Persist, KeptInv
<1>4. CASE Commit(c) /\ (active[c] \/ generation # gen[c])
  BY <1>2, <1>3, <1>4, CommitCases
<1>5. CASE SqlBegin(c) \/ HandleBegin(c) \/ Statement(c) \/ SqlRollback(c)
             \/ HandleRollback(c) \/ HandleDrop(c)
  BY <1>2, <1>5 DEF SqlBegin, HandleBegin, Begin, Statement, SqlRollback,
                    HandleRollback, HandleDrop
<1>6. CASE SqlCommit(c) \/ HandleCommit(c)
  BY <1>2, <1>4, <1>6 DEF SqlCommit, HandleCommit
<1>7. ~AutoEnter(c) /\ ~AutoExec(c) /\ ~AutoPersist(c)
  BY DEF AutoEnter, AutoExec, AutoPersist, CopyInv
<1> QED BY <1>1, <1>5, <1>6, <1>7

\* No acknowledged statement is overwritten by the COMMIT of another
\* connection, nor missing from the snapshot that was persisted last.
THEOREM NoLostCommit ==
  ASSUME AutoConns = {}
  PROVE  Spec => []AckedKept
<1>1. Init => KeptInv
  BY DEF Init, KeptInv
<1>2. TypeOK /\ CopyInv /\ KeptInv /\ [Next]_vars => KeptInv'
  <2>1. SUFFICES ASSUME TypeOK, CopyInv, KeptInv, [Next]_vars PROVE KeptInv'
    OBVIOUS
  <2>2. CASE UNCHANGED vars
    BY <2>1, <2>2 DEF vars, dbVars, KeptInv
  <2> QED BY <2>1, <2>2, KeptNext
<1>3. KeptInv => AckedKept
  BY DEF KeptInv, AckedKept
<1> QED BY <1>1, <1>2, <1>3, TransactionTypes, CopyCurrent, PTL DEF Spec

=============================================================================
