---------------------------- MODULE SettingsProofs ----------------------------
(***************************************************************************)
(* Proofs about Settings: its type, that what a save leaves in the file    *)
(* can be loaded, that a run works with the settings that were judged, and *)
(* that .env decides what nobody has posted.                               *)
(***************************************************************************)
EXTENDS Settings, TLAPS

-----------------------------------------------------------------------------
(* What is merged, and normalized, and normalized again                    *)

\* A document is made of what was posted, and of nothing else.
LEMMA MergedValues ==
    ASSUME NEW old, NEW new, AreValues(old), AreValues(new)
    PROVE  /\ AreValues(Merged(old, new))
           /\ DOMAIN Merged(old, new) = DOMAIN old \cup DOMAIN new
BY DEF AreValues, Merged, Keys, Numbers, Texts, Lists

\* Nothing is a document, too.
LEMMA NothingValues == AreValues(Nothing) /\ DOMAIN Nothing = {}
BY DEF AreValues, Nothing

\* Settings in which every number lies within its bounds and the grid is a choice.
IsNormal(s) ==
    /\ \A k \in Numbers : s[k] \in Int /\ Limits[k][1] <= s[k] /\ s[k] <= Limits[k][2]
    /\ s["grid"] # Garbage

\* The defaults of the code are such.
LEMMA DefaultNormal == IsNormal(Default)
BY LimitsAssumption DEF IsNormal, Default, Numbers

\* Values over such settings give such settings.
LEMMA OverNormal ==
    ASSUME NEW base, NEW v, IsNormal(base), AreValues(v)
    PROVE  IsNormal(Over(base, v))
<1>1. ASSUME NEW k \in Numbers
      PROVE  /\ Over(base, v)[k] \in Int
             /\ Limits[k][1] <= Over(base, v)[k] /\ Over(base, v)[k] <= Limits[k][2]
  <2>1. k \in Keys
        BY DEF Keys, Numbers
  <2>2. CASE k \in DOMAIN v /\ v[k] # Garbage
    <3>1. v[k] \in Int
          BY <2>2, <1>1 DEF AreValues
    <3>2. Over(base, v)[k] = Clamped(k, v[k])
          BY <2>1, <2>2, <1>1 DEF Over, Coerced
    <3> QED BY <3>1, <3>2, LimitsAssumption, <1>1, DefaultNormal DEF Clamped, IsNormal
  <2>3. CASE ~(k \in DOMAIN v /\ v[k] # Garbage)
    <3>1. Over(base, v)[k] = base[k]
          BY <2>1, <2>3, <1>1 DEF Over, Coerced
    <3> QED BY <3>1, <1>1 DEF IsNormal
  <2> QED BY <2>2, <2>3
<1>2. Over(base, v)["grid"] # Garbage
  <2>1. Default["grid"] # Garbage
        BY LimitsAssumption DEF Default
  <2> QED BY <2>1 DEF Over, Coerced, Keys, Numbers, IsNormal
<1> QED BY <1>1, <1>2 DEF IsNormal

\* Normalizing such settings changes no more than the unknown protocols, whatever
\* they are merged with.
LEMMA NormalStays ==
    ASSUME NEW s, NEW base, IsNormal(s), s = [k \in Keys |-> s[k]],
           s["protocols"] \subseteq Protocols
    PROVE  Normalized(s, base) = s
<1>1. ASSUME NEW k \in Keys PROVE Coerced(k, s[k], base[k]) = s[k]
  <2>1. CASE k \in Numbers
    <3>1. s[k] \in Int /\ s[k] # Garbage
          BY <2>1, LimitsAssumption DEF IsNormal
    <3> QED BY <2>1, <3>1, LimitsAssumption DEF Coerced, Clamped, IsNormal
  <2>2. CASE k \notin Numbers
        BY <2>2 DEF Coerced, IsNormal
  <2> QED BY <2>1, <2>2
<1>2. DOMAIN s = Keys
      OBVIOUS
<1>3. Over(base, s) = s
      BY <1>1, <1>2 DEF Over
<1>4. s["protocols"] \cap Protocols = s["protocols"]
      OBVIOUS
<1> QED BY <1>2, <1>3, <1>4 DEF Normalized

\* What was normalized once over .env stays as it is.
LEMMA NormalizedOnce ==
    ASSUME NEW v, NEW e, AreValues(v), AreValues(e)
    PROVE  Normalized(Normalized(v, EnvDefaults(e)), EnvDefaults(e)) =
           Normalized(v, EnvDefaults(e))
<1> DEFINE s == Normalized(v, EnvDefaults(e))
<1>1. IsNormal(Over(EnvDefaults(e), v))
      BY DefaultNormal, OverNormal DEF EnvDefaults
<1>2. IsNormal(s)
      BY <1>1 DEF Normalized, IsNormal, Numbers, Over, Keys, Texts, Lists
<1>3. s = [k \in Keys |-> s[k]] /\ s["protocols"] \subseteq Protocols
      BY DEF Normalized, Over, Keys, Lists
<1> HIDE DEF s
<1>4. Normalized(s, EnvDefaults(e)) = s
      BY <1>2, <1>3, NormalStays
<1> QED BY <1>4 DEF s

-----------------------------------------------------------------------------
(* The type                                                                *)

LEMMA InitType == Init => TypeOK
BY NothingValues DEF Init, TypeOK

\* Only the holder of _BCW_LOCK loads, and it frees the lock when it answers.
LEMMA StepType == TypeOK /\ [Next]_vars => TypeOK'
<1> SUFFICES ASSUME TypeOK, [Next]_vars PROVE TypeOK'
    OBVIOUS
<1> USE DEF TypeOK
<1>0. /\ AreValues(Nothing)
      /\ \A v \in Posts : AreValues(v) /\ DOMAIN v \subseteq Keys
      BY NothingValues, ValuesAssumption DEF AreValues
<1>1. ASSUME NEW h \in Handlers, NEW v \in Posts, Read(h, v),
             starter' = starter \/ (starter = NoOne /\ starter' = h /\ run = Nothing)
      PROVE  TypeOK'
  <2>1. AreValues(Merged(file, v))
        BY <1>0, MergedValues
  <2> QED BY <1>0, <1>1, <2>1, HandlersAssumption DEF Read
<1>2. ASSUME NEW h \in Handlers, SaveWrite(h) PROVE TypeOK'
  <2>1. AreValues(file')
        BY <1>0, <1>2 DEF SaveWrite, Written, Writing
  <2> QED BY <1>0, <1>2, <2>1 DEF SaveWrite, Moved, Writing
<1>3. ASSUME NEW h \in Handlers, SaveFails(h) PROVE TypeOK'
  <2>1. AreValues(file')
        BY <1>0, <1>3 DEF SaveFails
  <2> QED BY <1>0, <1>3, <2>1, HandlersAssumption DEF SaveFails, Answer, Writing
<1>4. ASSUME NEW h \in Handlers, Start(h) PROVE TypeOK'
      BY <1>0, <1>4, HandlersAssumption DEF Start, MayStart
<1>5. ASSUME NEW h \in Handlers, LoadRefuse(h) PROVE TypeOK'
      BY <1>0, <1>5 DEF LoadRefuse, Answer
<1>6. ASSUME NEW h \in Handlers, Load(h) PROVE TypeOK'
      BY <1>0, <1>6 DEF Load, Answer
<1>7. CASE ResetSettings
      BY <1>0, <1>7 DEF ResetSettings
<1>8. CASE RunEnds
      BY <1>8 DEF RunEnds
<1>9. CASE Recreate
      BY <1>0, <1>9 DEF Recreate
<1>10. CASE UNCHANGED vars
      BY <1>10 DEF vars
<1>11. ASSUME NEW h \in Handlers, NEW v \in Posts, SaveRead(h, v) \/ StartSave(h, v)
       PROVE  TypeOK'
      BY <1>1, <1>11 DEF SaveRead, StartSave, MayStart
<1> QED BY <1>2, <1>3, <1>4, <1>5, <1>6, <1>7, <1>8, <1>9, <1>10, <1>11 DEF Next

\* Files and documents hold values of known keys, and a handler that loads has
\* the lock, for any handlers, .env files and posts.
THEOREM TypeCorrect == Spec => []TypeOK
BY InitType, StepType, PTL DEF Spec

-----------------------------------------------------------------------------
(* What is about to be written was judged, under the .env of this container *)

DocsJudged == \A g \in Writing : Errors(Normalized(doc[g], EnvDefaults(env))) = {}

LEMMA StepJudged == TypeOK /\ DocsJudged /\ [Next]_vars => DocsJudged'
<1> SUFFICES ASSUME TypeOK, DocsJudged, [Next]_vars PROVE DocsJudged'
    OBVIOUS
<1> USE DEF TypeOK, DocsJudged, Writing
<1>1. ASSUME NEW h \in Handlers, NEW v \in Posts, Read(h, v) PROVE DocsJudged'
      BY <1>1 DEF Read, Accepted
<1>2. ASSUME NEW h \in Handlers, SaveWrite(h) PROVE DocsJudged'
      BY <1>2 DEF SaveWrite, Moved
<1>3. ASSUME NEW h \in Handlers, Answer(h), env' = env PROVE DocsJudged'
      BY <1>3 DEF Answer
<1>4. ASSUME NEW h \in Handlers, Start(h) PROVE DocsJudged'
      BY <1>4 DEF Start
<1>5. CASE ResetSettings \/ RunEnds
      BY <1>5 DEF ResetSettings, RunEnds
<1>6. CASE Recreate
      BY <1>6 DEF Recreate
<1>7. CASE UNCHANGED vars
      BY <1>7 DEF vars
<1> QED BY <1>1, <1>2, <1>3, <1>4, <1>5, <1>6, <1>7
        DEF Next, SaveRead, StartSave, SaveFails, LoadRefuse, Load

\* A save leaves what can be loaded, or nothing: what a handler renames is a
\* document that some handler has judged as a whole, never a mixture of two.
THEOREM SavedIsLoadable == Spec => SavesLoad
<1>1. Init => TypeOK /\ DocsJudged
      BY InitType DEF Init, DocsJudged, Writing
<1>2. TypeOK /\ DocsJudged /\ [Next]_vars => TypeOK' /\ DocsJudged'
      BY StepType, StepJudged
<1>3. TypeOK /\ DocsJudged /\ [Next]_vars
      => [file' # file => file' = Nothing \/ Errors(Loaded') = {}]_vars
  <2> SUFFICES ASSUME TypeOK, DocsJudged, [Next]_vars, file' # file, file' # Nothing
               PROVE  Errors(Loaded') = {}
      OBVIOUS
  <2>1. PICK h \in Handlers : SaveWrite(h) \/ SaveFails(h)
        BY DEF Next, vars, SaveRead, StartSave, Read, Start, LoadRefuse, Load, ResetSettings,
               RunEnds, Recreate
  <2>2. env' = env /\ \E g \in Writing : file' = doc[g]
        BY <2>1 DEF SaveWrite, Written, SaveFails, Writing
  <2> QED BY <2>2 DEF DocsJudged, Loaded
<1> QED BY <1>1, <1>2, <1>3, PTL DEF Spec, SavesLoad

-----------------------------------------------------------------------------
(* The settings of a run                                                   *)

\* The harness makes of the settings of a run what the panel has judged.
THEOREM RunsAreJudged == Spec => []RunIsJudged
<1>1. Init => RunIsJudged
      BY DEF Init, RunIsJudged
<1>2. TypeOK /\ RunIsJudged /\ [Next]_vars => RunIsJudged'
  <2> SUFFICES ASSUME TypeOK, RunIsJudged, [Next]_vars PROVE RunIsJudged'
      OBVIOUS
  <2>1. ASSUME NEW h \in Handlers, Load(h) PROVE RunIsJudged'
    <3>1. Harnessed(Loaded) = Loaded
          BY NormalizedOnce, ValuesAssumption DEF TypeOK, Harnessed, Loaded
    <3> QED BY <2>1, <3>1 DEF Load, RunIsJudged
  <2>2. CASE UNCHANGED <<run, judged>>
        BY <2>2 DEF RunIsJudged
  <2>3. CASE RunEnds \/ Recreate
        BY <2>3 DEF RunEnds, Recreate, RunIsJudged
  <2> QED BY <2>1, <2>2, <2>3 DEF Next, vars, SaveRead, StartSave, Read, SaveWrite, SaveFails,
                                  Start, LoadRefuse, ResetSettings
<1> QED BY <1>1, <1>2, TypeCorrect, PTL DEF Spec

-----------------------------------------------------------------------------
(* Overrides are what was posted, so that .env decides the rest            *)

OverridesPosted ==
    /\ DOMAIN file \subseteq posted
    /\ \A h \in Handlers : DOMAIN doc[h] \subseteq posted

LEMMA StepPosted == TypeOK /\ OverridesPosted /\ [Next]_vars => OverridesPosted'
<1> SUFFICES ASSUME TypeOK, OverridesPosted, [Next]_vars PROVE OverridesPosted'
    OBVIOUS
<1> USE DEF TypeOK, OverridesPosted
<1>0. DOMAIN Nothing = {}
      BY NothingValues
<1>1. ASSUME NEW h \in Handlers, NEW v \in Posts, Read(h, v) PROVE OverridesPosted'
  <2>1. DOMAIN Merged(file, v) = DOMAIN file \cup DOMAIN v
        BY MergedValues, ValuesAssumption
  <2> QED BY <1>1, <2>1 DEF Read
<1>2. ASSUME NEW h \in Handlers, SaveWrite(h) PROVE OverridesPosted'
      BY <1>0, <1>2 DEF SaveWrite, Written, Writing
<1>3. ASSUME NEW h \in Handlers, SaveFails(h) PROVE OverridesPosted'
      BY <1>0, <1>3 DEF SaveFails, Answer
<1>4. ASSUME NEW h \in Handlers, Start(h) PROVE OverridesPosted'
      BY <1>4 DEF Start
<1>5. ASSUME NEW h \in Handlers, LoadRefuse(h) \/ Load(h) PROVE OverridesPosted'
      BY <1>0, <1>5 DEF LoadRefuse, Load, Answer
<1>6. CASE ResetSettings \/ RunEnds
      BY <1>0, <1>6 DEF ResetSettings, RunEnds
<1>7. CASE Recreate
      BY <1>0, <1>7 DEF Recreate
<1>8. CASE UNCHANGED vars
      BY <1>8 DEF vars
<1> QED BY <1>1, <1>2, <1>3, <1>4, <1>5, <1>6, <1>7, <1>8 DEF Next, SaveRead, StartSave

\* Whatever .env the container is created with, it gives the value of each key
\* that nobody has posted.
THEOREM EnvGivesTheRest == Spec => []EnvDecides
<1>1. Init => OverridesPosted
      BY NothingValues DEF Init, OverridesPosted
<1>2. OverridesPosted => EnvDecides
  <2> SUFFICES ASSUME OverridesPosted, NEW k \in Keys \ posted
               PROVE  Loaded[k] = Normalized(Nothing, EnvDefaults(env))[k]
      BY DEF EnvDecides
  <2>1. k \notin DOMAIN file /\ k \notin DOMAIN Nothing
        BY NothingValues DEF OverridesPosted
  <2>2. Over(EnvDefaults(env), file)[k] = Over(EnvDefaults(env), Nothing)[k]
        BY <2>1 DEF Over
  <2> QED BY <2>2 DEF Loaded, Normalized, Over
<1> QED BY <1>1, <1>2, StepPosted, TypeCorrect, PTL DEF Spec
=============================================================================
