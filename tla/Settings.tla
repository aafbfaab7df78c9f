------------------------------- MODULE Settings -------------------------------
(***************************************************************************)
(* The settings of the strategy selection: .env gives every key a default, *)
(* bcw_settings.json holds what the panel has overridden, and a run gets   *)
(* the two merged, in a file that its harness reads and merges again.      *)
(* Handlers of the panel save overrides and start runs in threads of their *)
(* own; only those that start a run exclude each other.                    *)
(***************************************************************************)
EXTENDS Integers

CONSTANTS
    Handlers,
    Limits,     \* the bounds of each number
    Posts,      \* what may be posted: values for some of the keys
    Envs,       \* the values of .env, for some of the keys
    Garbage,    \* what is neither a number nor a choice
    NoOne

ASSUME HandlersAssumption == NoOne \notin Handlers

Numbers == {"workers", "profiles"}              \* profiles_per_instance
Texts == {"via", "reference_via", "grid_file"}  \* empty or not
Lists == {"protocols", "domains"}
Keys == Numbers \cup Texts \cup Lists \cup {"grid"}

Protocols == {"http", "tls12"}
Valid == {"a.example"}

VARIABLES
    file,       \* bcw_settings.json: values as they were posted
    env,        \* what the container was created with
    pc,         \* the step of each handler
    doc,        \* what a handler is going to write
    starter,    \* the handler in bcw_start_run: _BCW_LOCK
    run,        \* the settings that the harness works with
    judged,     \* the settings that the panel judged when it started it
    posted      \* the keys that anybody has posted

vars == <<file, env, pc, doc, starter, run, judged, posted>>

Nothing == [k \in {} |-> Garbage]

\* A number is a number or garbage; nothing is known of other values.
AreValues(values) ==
    /\ values = [k \in DOMAIN values |-> values[k]]
    /\ DOMAIN values \subseteq Keys
    /\ \A k \in Numbers \cap DOMAIN values : values[k] \in Int \cup {Garbage}

ASSUME ValuesAssumption == \A v \in Posts \cup Envs : AreValues(v)

----------------------------------------------------------------------------
(* Values.  Warnings are left out: what they are about is merged all the   *)
(* same.                                                                   *)

Default == [workers |-> 2, profiles |-> 3, via |-> "", reference_via |-> "", grid_file |-> "",
            protocols |-> Protocols, domains |-> Valid, grid |-> "corpus"]

ASSUME LimitsAssumption ==
    /\ \A k \in Numbers : /\ Limits[k][1] \in Int /\ Limits[k][2] \in Int
                          /\ Limits[k][1] <= Default[k] /\ Default[k] <= Limits[k][2]
    /\ Garbage \notin Int \cup {"corpus", "file"}

Clamped(k, n) ==
    IF n < Limits[k][1] THEN Limits[k][1] ELSE IF n > Limits[k][2] THEN Limits[k][2] ELSE n

\* A number that is none leaves what was there; a choice that is none becomes
\* the default, whatever .env says.
Coerced(k, raw, old) ==
    IF k \in Numbers THEN (IF raw = Garbage THEN old ELSE Clamped(k, raw))
    ELSE IF k = "grid" /\ raw = Garbage THEN Default["grid"] ELSE raw

Over(base, values) ==
    [k \in Keys |-> IF k \in DOMAIN values THEN Coerced(k, values[k], base[k]) ELSE base[k]]

EnvDefaults(e) == Over(Default, e)

\* Unknown protocols are dropped.
Normalized(values, base) ==
    LET out == Over(base, values)
    IN  [out EXCEPT !["protocols"] = @ \cap Protocols]

\* The contradictions for which a run is refused.
Errors(s) ==
    {k \in Lists : s[k] = {}} \cup
    {k \in {"domains"} : ~ s.domains \subseteq Valid} \cup
    {k \in {"grid"} : s.grid = "file" /\ s.grid_file = ""} \cup
    {k \in {"via"} : s.via # "" /\ s.reference_via # ""} \cup
    {k \in {"workers"} : s.workers > s.profiles}

Loaded == Normalized(file, EnvDefaults(env))

Merged(old, new) ==
    [k \in DOMAIN old \cup DOMAIN new |-> IF k \in DOMAIN new THEN new[k] ELSE old[k]]

----------------------------------------------------------------------------
(* save_settings                                                           *)

Answer(h) ==
    /\ pc' = [pc EXCEPT ![h] = "idle"]
    /\ doc' = [doc EXCEPT ![h] = Nothing]
    /\ starter' = IF starter = h THEN NoOne ELSE starter

\* The whole of what will be in the file is judged.  A save that is refused
\* changes nothing.
\* (Accepted_Posted: only what was posted is judged.)
Accepted_Posted(v) == Errors(Normalized(v, EnvDefaults(env))) = {}
Accepted(v) == Errors(Normalized(Merged(file, v), EnvDefaults(env))) = {}

Read(h, v) ==
    /\ pc[h] = "idle"
    /\ Accepted(v)
    /\ doc' = [doc EXCEPT ![h] = Merged(file, v)]
    /\ pc' = [pc EXCEPT ![h] = "write"]
    /\ posted' = posted \cup DOMAIN v
    /\ UNCHANGED <<file, env, run, judged>>

SaveRead(h, v) == Read(h, v) /\ UNCHANGED starter

\* write_json, whose steps are those of Catalog.  Of two that write at the same
\* time one may rename what the other has written or is about to write, which
\* nobody can read and so counts as nothing, and the other writes into it.
\* (Written_Merged: the merged settings are written instead of the overrides.)
Writing == {g \in Handlers : pc[g] \in {"write", "late"}}
Written_Merged(h) == {Normalized(doc[h], EnvDefaults(env))}
Written(h) ==
    {doc[g] : g \in Writing} \cup (IF Writing = {h} /\ pc[h] = "write" THEN {} ELSE {Nothing})

\* Those that are writing when h renames are late.
Moved(h, step) ==
    [g \in Handlers |-> IF g = h THEN step ELSE IF pc[g] = "write" THEN "late" ELSE pc[g]]

\* A handler that is to start a run goes on.
SaveWrite(h) ==
    /\ h \in Writing
    /\ file' \in Written(h)
    /\ pc' = Moved(h, IF starter = h THEN "load" ELSE "idle")
    /\ doc' = [doc EXCEPT ![h] = Nothing]
    /\ UNCHANGED starter
    /\ UNCHANGED <<env, run, judged, posted>>

\* A late one may have written into the file though its rename fails.
SaveFails(h) ==
    /\ h \in Writing
    /\ file' \in {file} \cup (IF pc[h] = "late" THEN {doc[h], Nothing} ELSE {})
    /\ Answer(h)
    /\ UNCHANGED <<env, run, judged, posted>>

\* POST /api/bcw/reset
ResetSettings ==
    /\ file' = Nothing
    /\ UNCHANGED <<env, pc, doc, starter, run, judged, posted>>

----------------------------------------------------------------------------
(* bcw_start_run, with or without overrides                                *)

\* While a run is on it is refused, and when its overrides are.
MayStart == starter = NoOne /\ run = Nothing

StartSave(h, v) == MayStart /\ Read(h, v) /\ starter' = h

Start(h) ==
    /\ MayStart
    /\ pc[h] = "idle"
    /\ pc' = [pc EXCEPT ![h] = "load"]
    /\ starter' = h
    /\ UNCHANGED <<file, env, doc, run, judged, posted>>

LoadRefuse(h) ==
    /\ pc[h] = "load"
    /\ Errors(Loaded) # {}
    /\ Answer(h)
    /\ UNCHANGED <<file, env, run, judged, posted>>

\* What the harness makes of settings.json.
Harnessed(settings) == Normalized(settings, EnvDefaults(env))

\* (Load_Unjudged: what the save has judged is not judged again.)
Load_Unjudged(h) ==
    /\ pc[h] = "load"
    /\ run' = Harnessed(Loaded)
    /\ judged' = Loaded
    /\ Answer(h)
    /\ UNCHANGED <<file, env, posted>>

Load(h) ==
    /\ pc[h] = "load"
    /\ Errors(Loaded) = {}
    /\ run' = Harnessed(Loaded)
    /\ judged' = Loaded
    /\ Answer(h)
    /\ UNCHANGED <<file, env, posted>>

RunEnds ==
    /\ run' = Nothing
    /\ judged' = Nothing
    /\ UNCHANGED <<file, env, pc, doc, starter, posted>>

\* The container is created anew, maybe with another .env: handlers and the run
\* are gone, the overrides stay.
Recreate ==
    /\ env' \in Envs
    /\ pc' = [h \in Handlers |-> "idle"]
    /\ doc' = [h \in Handlers |-> Nothing]
    /\ starter' = NoOne
    /\ run' = Nothing
    /\ judged' = Nothing
    /\ UNCHANGED <<file, posted>>

Init ==
    /\ file = Nothing
    /\ env \in Envs
    /\ pc = [h \in Handlers |-> "idle"]
    /\ doc = [h \in Handlers |-> Nothing]
    /\ starter = NoOne
    /\ run = Nothing
    /\ judged = Nothing
    /\ posted = {}

Next ==
    \/ \E h \in Handlers, v \in Posts : SaveRead(h, v) \/ StartSave(h, v)
    \/ \E h \in Handlers : SaveWrite(h) \/ SaveFails(h) \/ Start(h) \/ LoadRefuse(h) \/ Load(h)
    \/ ResetSettings \/ RunEnds \/ Recreate

Spec == Init /\ [][Next]_vars

----------------------------------------------------------------------------
(* Properties                                                              *)

TypeOK ==
    /\ env \in Envs
    /\ AreValues(file)
    /\ pc \in [Handlers -> {"idle", "write", "late", "load"}]
    /\ doc = [h \in Handlers |-> doc[h]]
    /\ \A h \in Handlers : AreValues(doc[h])
    /\ \A h \in Handlers : pc[h] = "load" => starter = h
    /\ starter # NoOne => starter \in Handlers /\ pc[starter] # "idle"
    /\ posted \subseteq Keys
    /\ run # Nothing => starter = NoOne

\* Whatever a save leaves in the file can be loaded without a contradiction,
\* though other handlers save at the same time; only an unreadable file and a
\* reset give .env alone back.
SavesLoad == [][file' # file => file' = Nothing \/ Errors(Loaded') = {}]_vars

\* A run never works with contradictory settings, and works with those that the
\* panel has judged: the harness, which normalizes them again, changes nothing.
RunIsJudged == run # Nothing => run = judged /\ Errors(run) = {}

\* .env decides what nobody has overridden, also after it was changed: the file
\* holds overrides only.
EnvDecides ==
    \A k \in Keys \ posted : Loaded[k] = Normalized(Nothing, EnvDefaults(env))[k]
=============================================================================
