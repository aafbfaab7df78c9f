---------------------------- MODULE CatalogProofs ----------------------------
(***************************************************************************)
(* Proofs about Catalog: its type, the uniqueness of ids, that who works   *)
(* alone writes a whole file, and that Catalog implements AtomicCatalog.   *)
(***************************************************************************)
EXTENDS Catalog, TLAPS

\* What an import and a deletion make of a catalogue is a catalogue.
LEMMA EffectsType ==
    /\ \A E \in SUBSET Entries, b \in Imports : Imported(E, b) \in SUBSET Entries
    /\ \A E \in SUBSET Entries : \A i : Without(E, i) \in SUBSET Entries
<1>1. ASSUME NEW b \in Imports PROVE NewEntries(b) \subseteq Entries
      BY DEF Entries
<1> QED BY <1>1 DEF Imported, Without

\* The entries of one import differ in their ids.
LEMMA NewAreUnique == \A b : Unique(NewEntries(b))
BY DEF Unique, NewEntries

\* An import replaces the entries that have its ids, so that none has two.
LEMMA EffectsUnique ==
    ASSUME NEW E, Unique(E)
    PROVE  /\ \A b : Unique(Imported(E, b))
           /\ \A i : Unique(Without(E, i))
<1>1. ASSUME NEW b PROVE Unique(Imported(E, b))
  <2> DEFINE New == NewEntries(b)
  <2>1. Unique(New)
        BY NewAreUnique
  <2>2. \A e \in New : e.id \in Ids(New)
        BY DEF Ids
  <2> HIDE DEF New
  <2> QED BY <2>1, <2>2 DEF Unique, Imported, New
<1>2. ASSUME NEW i PROVE Unique(Without(E, i))
      BY DEF Unique, Without
<1> QED BY <1>1, <1>2

-----------------------------------------------------------------------------
(* Types                                                                   *)

\* The initial state is well typed.
LEMMA InitType == Init => TypeOK
BY DEF Init, TypeOK, Whole, Unread, Contents, Entries

\* Every step keeps the types.
LEMMA StepType == TypeOK /\ [Next]_vars => TypeOK'
<1> SUFFICES ASSUME TypeOK, [Next]_vars PROVE TypeOK'
    OBVIOUS
<1> USE DEF TypeOK
<1>1. ASSUME NEW h \in Handlers, NEW b \in Imports, ImportRead(h, b) PROVE TypeOK'
      BY <1>1, EffectsType DEF ImportRead, Begin, Contents, AtWork
<1>2. ASSUME NEW h \in Handlers, NEW i \in Ids(Entries), DeleteCheck(h, i) PROVE TypeOK'
      BY <1>2 DEF DeleteCheck
<1>3. ASSUME NEW h \in Handlers, DeleteRead(h) PROVE TypeOK'
      BY <1>3, EffectsType DEF DeleteRead, Begin, Contents, AtWork
<1>4. ASSUME NEW h \in Handlers, Open(h) PROVE TypeOK'
      BY <1>4 DEF Open, Contents, Unread
<1>5. ASSUME NEW h \in Handlers, Dump(h) PROVE TypeOK'
  <2>1. \A old \in Contents : Dumped(h, old) \subseteq Contents
        BY DEF Dumped, Contents, Whole, Unread
  <2> QED BY <1>5, <2>1 DEF Dump
<1>6. ASSUME NEW h \in Handlers, Replace(h) PROVE TypeOK'
      BY <1>6 DEF Replace, Renamed, Answer, Contents, Unread
<1>7. ASSUME NEW h \in Handlers, WriteFails(h) PROVE TypeOK'
      BY <1>7 DEF WriteFails, Answer
<1>8. CASE Crash
      BY <1>8 DEF Crash
<1>9. CASE UNCHANGED vars
      BY <1>9 DEF vars
<1> QED BY <1>1, <1>2, <1>3, <1>4, <1>5, <1>6, <1>7, <1>8, <1>9 DEF Next

\* The variables have their types.
THEOREM TypeCorrect == Spec => []TypeOK
BY InitType, StepType, PTL DEF Spec

-----------------------------------------------------------------------------
(* Ids.  What is in the temporary file will be the catalogue.              *)

UniqueInv == UniqueIds /\ Unique(tmp.entries)

\* An import never makes two entries of one id, in whatever order handlers read
\* and write.
THEOREM IdsStayUnique == Spec => []UniqueIds
<1>1. Init => UniqueInv
      BY ShippedAssumption DEF Init, UniqueInv, UniqueIds, Unique, Whole, Unread
<1>2. TypeOK /\ UniqueInv /\ [Next]_vars => UniqueInv'
  <2> SUFFICES ASSUME TypeOK, UniqueInv, [Next]_vars PROVE UniqueInv'
      OBVIOUS
  <2> USE DEF UniqueInv, UniqueIds
  <2>0. Unique({})
        BY DEF Unique
  <2>1. ASSUME NEW h \in Handlers, NEW b \in Imports, ImportRead(h, b) PROVE UniqueInv'
        BY <2>1, EffectsUnique DEF ImportRead, TypeOK
  <2>2. ASSUME NEW h \in Handlers, NEW i \in Ids(Entries), DeleteCheck(h, i) PROVE UniqueInv'
        BY <2>2 DEF DeleteCheck
  <2>3. ASSUME NEW h \in Handlers, DeleteRead(h) PROVE UniqueInv'
        BY <2>3, EffectsUnique DEF DeleteRead, TypeOK
  <2>4. ASSUME NEW h \in Handlers, Open(h) PROVE UniqueInv'
        BY <2>4, <2>0 DEF Open, Unread
  <2>5. ASSUME NEW h \in Handlers, Dump(h) PROVE UniqueInv'
    <3>1. \A old, c : c \in Dumped(h, old) => Unique(c.entries)
          BY <2>0 DEF Dumped, Whole, Unread
    <3> QED BY <2>5, <3>1 DEF Dump
  <2>6. ASSUME NEW h \in Handlers, Replace(h) PROVE UniqueInv'
        BY <2>6, <2>0 DEF Replace, Answer, Unread, TypeOK
  <2>7. ASSUME NEW h \in Handlers, WriteFails(h) PROVE UniqueInv'
        BY <2>7, <2>0 DEF WriteFails, Answer, TypeOK
  <2>8. CASE Crash
        BY <2>8, <2>0 DEF Crash
  <2>9. CASE UNCHANGED vars
        BY <2>9 DEF vars
  <2> QED BY <2>1, <2>2, <2>3, <2>4, <2>5, <2>6, <2>7, <2>8, <2>9 DEF Next
<1>3. UniqueInv => UniqueIds
      BY DEF UniqueInv
<1> QED BY <1>1, <1>2, <1>3, TypeCorrect, PTL DEF Spec

-----------------------------------------------------------------------------
(* The handler that works alone.  SoloIsWhole speaks of the file only; what *)
(* makes it true is the way that the handler's document has taken there.    *)

\* doc holds the change of a catalogue that some request asks for.
Changes(d, catalog) ==
    \/ \E b \in Imports : d = Imported(catalog, b)
    \/ \E i \in Ids(Entries) : d = Without(catalog, i)

SoloAt(h) ==
    AtWork(h) /\ solo[h] =>
        /\ \A g \in Handlers \ {h} : ~AtWork(g)
        /\ Changes(doc[h], file.entries)
        /\ pc[h] = "dump" => fd[h] = "tmp" /\ tmp.form = "blank"
        /\ pc[h] = "replace" => tmp = Whole(doc[h])

SoloInv ==
    /\ SoloIsWhole
    /\ \A h \in Handlers : SoloAt(h)
    /\ \A h \in Handlers : pc[h] = "read" => id[h] \in Ids(Entries)

\* Initially nobody works.
LEMMA InitSolo == Init => SoloInv
BY DEF Init, SoloInv, SoloIsWhole, SoloAt, AtWork, Whole

\* A handler that begins is alone only if no other is at work, and ends the
\* solitude of those that are.
LEMMA BeginSolo ==
    ASSUME TypeOK, SoloInv, NEW h \in Handlers, Begin(h),
           pc[h] \in {"idle", "read"}, pc' = [pc EXCEPT ![h] = "open"],
           NEW d, Changes(d, file.entries), doc' = [doc EXCEPT ![h] = d],
           file' = file, tmp' = tmp, id' = id, fd' = fd, lastSolo' = lastSolo
    PROVE  SoloInv'
<1>1. ASSUME NEW g \in Handlers, g # h PROVE SoloAt(g)'
  <2>1. AtWork(g)' => ~solo'[g]
        BY <1>1 DEF Begin, AtWork, TypeOK
  <2> QED BY <2>1 DEF SoloAt
<1>2. SoloAt(h)'
      BY DEF SoloAt, Begin, AtWork, TypeOK, Changes
<1>3. SoloIsWhole'
      BY DEF SoloInv, SoloIsWhole
<1>4. ASSUME NEW g \in Handlers PROVE (pc[g] = "read" => id[g] \in Ids(Entries))'
      BY <1>4 DEF SoloInv, TypeOK
<1> QED BY <1>1, <1>2, <1>3, <1>4 DEF SoloInv

\* Every step keeps what is claimed of solitary handlers.
LEMMA StepSolo == TypeOK /\ SoloInv /\ [Next]_vars => SoloInv'
<1> SUFFICES ASSUME TypeOK, SoloInv, [Next]_vars PROVE SoloInv'
    OBVIOUS
<1>1. ASSUME NEW h \in Handlers, NEW b \in Imports, ImportRead(h, b) PROVE SoloInv'
  <2>1. Changes(Imported(file.entries, b), file.entries)
        BY DEF Changes
  <2> QED BY <1>1, <2>1, BeginSolo DEF ImportRead
<1>2. ASSUME NEW h \in Handlers, NEW i \in Ids(Entries), DeleteCheck(h, i) PROVE SoloInv'
      BY <1>2 DEF DeleteCheck, SoloInv, SoloIsWhole, SoloAt, AtWork, TypeOK
<1>3. ASSUME NEW h \in Handlers, DeleteRead(h) PROVE SoloInv'
  <2>1. id[h] \in Ids(Entries)
        BY <1>3 DEF DeleteRead, SoloInv
  <2>2. Changes(Without(file.entries, id[h]), file.entries)
        BY <2>1 DEF Changes
  <2> QED BY <1>3, <2>2, BeginSolo DEF DeleteRead
<1>4. ASSUME NEW h \in Handlers, Open(h) PROVE SoloInv'
      BY <1>4 DEF Open, SoloInv, SoloIsWhole, SoloAt, AtWork, TypeOK, Unread
<1>5. ASSUME NEW h \in Handlers, Dump(h) PROVE SoloInv'
  <2>1. ASSUME NEW g \in Handlers, g # h PROVE SoloAt(g)'
        BY <1>5, <2>1 DEF Dump, SoloInv, SoloAt, AtWork, TypeOK
  <2>2. SoloAt(h)'
    <3> SUFFICES ASSUME solo[h]
                 PROVE  /\ \A g \in Handlers \ {h} : ~AtWork(g)'
                        /\ Changes(doc[h], file.entries)'
                        /\ tmp' = Whole(doc[h])
        BY <1>5 DEF Dump, SoloAt, TypeOK
    <3>1. /\ \A g \in Handlers \ {h} : ~AtWork(g)
          /\ Changes(doc[h], file.entries)
          /\ fd[h] = "tmp" /\ tmp.form = "blank"
          BY <1>5 DEF Dump, SoloInv, SoloAt, AtWork
    <3>2. \A g \in Handlers \ {h} : fd[g] # fd[h]
          BY <3>1 DEF TypeOK, AtWork
    <3>3. tmp' = Whole(doc[h]) /\ file' = file
          BY <1>5, <3>1, <3>2 DEF Dump, Dumped
    <3> QED BY <1>5, <3>1, <3>3 DEF Dump, Changes, AtWork, TypeOK
  <2>3. SoloIsWhole'
        BY <1>5 DEF Dump, SoloInv, SoloIsWhole, TypeOK
  <2>4. ASSUME NEW g \in Handlers PROVE (pc[g] = "read" => id[g] \in Ids(Entries))'
        BY <1>5 DEF Dump, SoloInv, TypeOK
  <2> QED BY <2>1, <2>2, <2>3, <2>4 DEF SoloInv
<1>6. ASSUME NEW h \in Handlers, Replace(h) PROVE SoloInv'
  <2>1. ASSUME NEW g \in Handlers PROVE SoloAt(g)'
    <3>1. AtWork(g)' => AtWork(g) /\ g # h
          BY <1>6 DEF Replace, Answer, AtWork, TypeOK
    <3>2. AtWork(g) /\ g # h => ~solo[g]
          BY <1>6 DEF Replace, SoloInv, SoloAt, AtWork
    <3>3. solo'[g] => solo[g]
          BY <1>6 DEF Replace, Answer, TypeOK
    <3> QED BY <3>1, <3>2, <3>3 DEF SoloAt
  <2>2. SoloIsWhole'
    <3>1. solo[h] => tmp = Whole(doc[h])
          BY <1>6 DEF Replace, SoloInv, SoloAt, AtWork
    <3> QED BY <1>6, <3>1 DEF Replace, SoloIsWhole, Whole
  <2>3. ASSUME NEW g \in Handlers PROVE (pc[g] = "read" => id[g] \in Ids(Entries))'
        BY <1>6 DEF Replace, Answer, SoloInv, TypeOK
  <2> QED BY <2>1, <2>2, <2>3 DEF SoloInv
<1>7. ASSUME NEW h \in Handlers, WriteFails(h) PROVE SoloInv'
      BY <1>7 DEF WriteFails, Answer, SoloInv, SoloIsWhole, SoloAt, AtWork, TypeOK
<1>8. CASE Crash
      BY <1>8 DEF Crash, SoloInv, SoloIsWhole, SoloAt, AtWork
<1>9. CASE UNCHANGED vars
      BY <1>9 DEF vars, SoloInv, SoloIsWhole, SoloAt, AtWork, Changes
<1> QED BY <1>1, <1>2, <1>3, <1>4, <1>5, <1>6, <1>7, <1>8, <1>9 DEF Next

\* A handler that works alone leaves a whole file.
THEOREM AloneWritesWhole == Spec => []SoloIsWhole
<1>1. SoloInv => SoloIsWhole
      BY DEF SoloInv
<1> QED BY <1>1, InitSolo, StepSolo, TypeCorrect, PTL DEF Spec

-----------------------------------------------------------------------------
(* Refinement.  Only the rename changes the catalogue, or a dump into a    *)
(* file that another handler has renamed already.                          *)

\* The operators of the abstract specification are those of Catalog.
LEMMA SameOperators ==
    /\ \A E, b : Atomic!Imported(E, b) = Imported(E, b)
    /\ \A E, i : Atomic!Without(E, i) = Without(E, i)
    /\ Atomic!Ids(Atomic!Entries) = Ids(Entries)
<1>1. \A b : Atomic!NewEntries(b) = NewEntries(b)
      BY DEF Atomic!NewEntries, NewEntries, Atomic!StableSort, StableSort,
             Atomic!Better, Better
<1>2. \A E : Atomic!Ids(E) = Ids(E)
      BY DEF Atomic!Ids, Ids
<1> QED BY <1>1, <1>2 DEF Atomic!Imported, Imported, Atomic!Without, Without,
                         Atomic!Entries, Entries

\* A step of the handlers is a change in one step, a disturbed one, or none.
LEMMA StepAtomic ==
    TypeOK /\ SoloInv /\ [Next]_vars => [Atomic!Next]_<<file.entries, lastSolo>>
<1> SUFFICES ASSUME TypeOK, SoloInv, [Next]_vars
             PROVE  Atomic!Next \/ UNCHANGED <<file.entries, lastSolo>>
    OBVIOUS
<1>1. ASSUME NEW h \in Handlers, Replace(h)
      PROVE  Atomic!Next
  <2>1. CASE ~solo[h]
        BY <1>1, <2>1 DEF Replace, Atomic!Next, Atomic!Disturbed
  <2>2. CASE solo[h]
    <3>1. file'.entries = doc[h] /\ Changes(doc[h], file.entries)
          BY <1>1, <2>2 DEF Replace, SoloInv, SoloAt, AtWork, Whole
    <3> QED BY <3>1, SameOperators
            DEF Changes, Atomic!Next, Atomic!Import, Atomic!Delete
  <2> QED BY <2>1, <2>2
<1>2. ASSUME NEW h \in Handlers, Dump(h)
      PROVE  Atomic!Next \/ UNCHANGED <<file.entries, lastSolo>>
      BY <1>2 DEF Dump, TypeOK, Atomic!Next, Atomic!Disturbed
<1>3. ASSUME NEW h \in Handlers, NEW b \in Imports, ImportRead(h, b)
      PROVE  UNCHANGED <<file.entries, lastSolo>>
      BY <1>3 DEF ImportRead
<1>4. ASSUME NEW h \in Handlers, NEW i \in Ids(Entries), DeleteCheck(h, i)
      PROVE  UNCHANGED <<file.entries, lastSolo>>
      BY <1>4 DEF DeleteCheck
<1>5. ASSUME NEW h \in Handlers, DeleteRead(h) \/ Open(h) \/ WriteFails(h)
      PROVE  UNCHANGED <<file.entries, lastSolo>>
      BY <1>5 DEF DeleteRead, Open, WriteFails
<1>6. CASE Crash \/ UNCHANGED vars
      BY <1>6 DEF Crash, vars
<1> QED BY <1>1, <1>2, <1>3, <1>4, <1>5, <1>6 DEF Next

\* The writers of strategies.json implement the atomic catalogue.
THEOREM ChangesAreAtomic == Spec => AtomicChanges
<1>1. Init => Atomic!Init
      BY DEF Init, Atomic!Init, Whole
<1> QED BY <1>1, StepAtomic, InitSolo, StepSolo, TypeCorrect, PTL
        DEF Spec, AtomicChanges, Atomic!Spec
=============================================================================
