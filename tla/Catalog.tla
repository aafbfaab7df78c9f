------------------------------- MODULE Catalog --------------------------------
(***************************************************************************)
(* The writers of strategies.json: handlers of the panel that import and   *)
(* delete strategies, each in a thread of its own, without a lock.  Each   *)
(* reads the file, computes a new catalogue and writes it with write_json: *)
(* into strategies.json.tmp, the same for all, which it then renames.      *)
(*                                                                         *)
(* A file that was opened stays the same file when it is renamed: a second *)
(* handler that opened the temporary file before the rename goes on        *)
(* writing, into what is strategies.json now.                              *)
(***************************************************************************)
EXTENDS CatalogEntries

CONSTANT Handlers

VARIABLES
    file,       \* strategies.json
    tmp,        \* strategies.json.tmp
    pc,         \* the step of each handler
    id,         \* the strategy that a handler is to delete
    doc,        \* the catalogue that a handler is to write
    fd,         \* what the file that a handler has opened is called by now
    solo,       \* no other handler has been at work since this one read
    lastSolo    \* the handler that wrote strategies.json was alone

vars == <<file, tmp, pc, id, doc, fd, solo, lastSolo>>

\* The contents of a file.  A reader takes what is not whole for an empty
\* catalogue: read_json returns the default that its caller gives.
Contents == [form: {"whole", "blank", "mixed", "absent"}, entries: SUBSET Entries]
Whole(entries) == [form |-> "whole", entries |-> entries]
Unread(form) == [form |-> form, entries |-> {}]

None == <<"none", 1>>

AtWork(h) == pc[h] \in {"open", "dump", "replace"}

\* h has read what it is going to change.
Begin(h) ==
    solo' = [g \in Handlers |-> IF g = h THEN \A k \in Handlers \ {h} : ~AtWork(k)
                                         ELSE solo[g] /\ ~AtWork(g)]

\* h has answered its request.
Answer(h) ==
    /\ pc' = [pc EXCEPT ![h] = "idle"]
    /\ id' = [id EXCEPT ![h] = None]
    /\ doc' = [doc EXCEPT ![h] = {}]
    /\ solo' = [solo EXCEPT ![h] = FALSE]

----------------------------------------------------------------------------
(* import_strategy_from_json.  A body that it refuses changes nothing.     *)

ImportRead(h, b) ==
    /\ pc[h] = "idle"
    /\ doc' = [doc EXCEPT ![h] = Imported(file.entries, b)]
    /\ pc' = [pc EXCEPT ![h] = "open"]
    /\ Begin(h)
    /\ UNCHANGED <<file, tmp, id, fd, lastSolo>>

----------------------------------------------------------------------------
(* delete_strategy: the file is read twice.  Which strategy is active, and *)
(* so refused, is Gateway's part; the built-in "none" always is.           *)

DeleteCheck(h, i) ==
    /\ pc[h] = "idle"
    /\ i \in Ids(file.entries) \ {None}
    /\ id' = [id EXCEPT ![h] = i]
    /\ pc' = [pc EXCEPT ![h] = "read"]
    /\ UNCHANGED <<file, tmp, doc, fd, solo, lastSolo>>

\* (DeleteRead_Batch: it takes out all that were imported with the strategy.)
DeleteRead_Batch(h) ==
    /\ pc[h] = "read"
    /\ doc' = [doc EXCEPT ![h] = {e \in file.entries : e.id[1] # id[h][1]}]
    /\ pc' = [pc EXCEPT ![h] = "open"]
    /\ Begin(h)
    /\ UNCHANGED <<file, tmp, id, fd, lastSolo>>

DeleteRead(h) ==
    /\ pc[h] = "read"
    /\ doc' = [doc EXCEPT ![h] = Without(file.entries, id[h])]
    /\ pc' = [pc EXCEPT ![h] = "open"]
    /\ Begin(h)
    /\ UNCHANGED <<file, tmp, id, fd, lastSolo>>

----------------------------------------------------------------------------
(* write_json                                                              *)

\* open(tmp, "w") makes the file or cuts it to nothing.
\* (Open_InPlace: the file itself, without a temporary one.)
Open_InPlace(h) ==
    /\ pc[h] = "open"
    /\ file' = Unread("blank")
    /\ tmp' = Unread("blank")
    /\ fd' = [fd EXCEPT ![h] = "file"]
    /\ pc' = [pc EXCEPT ![h] = "dump"]
    /\ UNCHANGED <<id, doc, solo, lastSolo>>

Open(h) ==
    /\ pc[h] = "open"
    /\ tmp' = Unread("blank")
    /\ fd' = [fd EXCEPT ![h] = "tmp"]
    /\ pc' = [pc EXCEPT ![h] = "dump"]
    /\ UNCHANGED <<file, id, doc, solo, lastSolo>>

\* What is in the file after the dump: over another's contents, or while
\* another writes, the two may be mixed.
Dumped(h, old) ==
    IF old.form = "blank" /\ \A g \in Handlers \ {h} : fd[g] # fd[h]
    THEN {Whole(doc[h])}
    ELSE {Whole(doc[h]), Unread("mixed")}

\* The file is closed after it.
Dump(h) ==
    /\ pc[h] = "dump"
    /\ tmp' \in IF fd[h] = "tmp" THEN Dumped(h, tmp) ELSE {tmp}
    /\ file' \in IF fd[h] = "file" THEN Dumped(h, file) ELSE {file}
    /\ lastSolo' = (lastSolo /\ fd[h] # "file")
    /\ fd' = [fd EXCEPT ![h] = "none"]
    /\ pc' = [pc EXCEPT ![h] = "replace"]
    /\ UNCHANGED <<id, doc, solo>>

\* os.replace.  Whoever has the temporary file open has the file open now; one
\* that had the file open has a file without a name.
Renamed == [g \in Handlers |-> IF fd[g] = "tmp" THEN "file" ELSE "none"]

Replace(h) ==
    /\ pc[h] = "replace"
    /\ tmp.form # "absent"
    /\ file' = tmp
    /\ tmp' = Unread("absent")
    /\ fd' = Renamed
    /\ lastSolo' = solo[h]
    /\ Answer(h)

\* The file cannot be opened or written, or another handler has renamed it:
\* write_json returns False and the request is answered with an error.
WriteFails(h) ==
    /\ AtWork(h)
    /\ pc[h] = "replace" => tmp.form = "absent"
    /\ fd' = [fd EXCEPT ![h] = "none"]
    /\ Answer(h)
    /\ UNCHANGED <<file, tmp, lastSolo>>

----------------------------------------------------------------------------
\* The container dies: the files stay as they are.
Crash ==
    /\ pc' = [h \in Handlers |-> "idle"]
    /\ id' = [h \in Handlers |-> None]
    /\ doc' = [h \in Handlers |-> {}]
    /\ fd' = [h \in Handlers |-> "none"]
    /\ solo' = [h \in Handlers |-> FALSE]
    /\ UNCHANGED <<file, tmp, lastSolo>>

Init ==
    /\ file = Whole(Shipped)
    /\ tmp = Unread("absent")
    /\ pc = [h \in Handlers |-> "idle"]
    /\ id = [h \in Handlers |-> None]
    /\ doc = [h \in Handlers |-> {}]
    /\ fd = [h \in Handlers |-> "none"]
    /\ solo = [h \in Handlers |-> FALSE]
    /\ lastSolo = TRUE

Next ==
    \/ \E h \in Handlers, b \in Imports : ImportRead(h, b)
    \/ \E h \in Handlers, i \in Ids(Entries) : DeleteCheck(h, i)
    \/ \E h \in Handlers : DeleteRead(h) \/ Open(h) \/ Dump(h) \/ Replace(h) \/ WriteFails(h)
    \/ Crash

Spec == Init /\ [][Next]_vars

----------------------------------------------------------------------------
(* Properties                                                              *)

TypeOK ==
    /\ file \in Contents /\ tmp \in Contents
    /\ pc \in [Handlers -> {"idle", "read", "open", "dump", "replace"}]
    /\ id \in [Handlers -> Ids(Entries) \cup {None}]
    /\ doc \in [Handlers -> SUBSET Entries]
    /\ fd \in [Handlers -> {"none", "tmp", "file"}]
    /\ \A h \in Handlers : fd[h] # "none" => pc[h] = "dump"
    /\ solo \in [Handlers -> BOOLEAN]
    /\ lastSolo \in BOOLEAN

\* An id names one strategy (strategy.py and the panel take the first entry
\* that has it), however handlers overwrite each other and whatever they read:
\* imports replace what has their ids.
UniqueIds == Unique(file.entries) /\ \A h \in Handlers : Unique(doc[h])

\* What a handler wrote that worked alone is a whole file, also over what
\* racing or dying writers have left in the temporary file.
SoloIsWhole == lastSolo => file.form = "whole"

\* Imports and deletions that are served alone change the catalogue in one step
\* or not at all.
Atomic == INSTANCE AtomicCatalog WITH catalog <- file.entries, alone <- lastSolo
AtomicChanges == Atomic!Spec
=============================================================================
