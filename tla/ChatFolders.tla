------------------------------ MODULE ChatFolders ------------------------------
(***************************************************************************)
(* The account's chat folders: TDLib's list, the chatFilters collection     *)
(* and the cache t.chatFolders.  Every UpdateChatFolders is handled by      *)
(* SaveChatFilters in a goroutine of its own, which starts a goroutine for  *)
(* each folder the cache does not have, waits for them, and replaces the    *)
(* cache by what MongoDB then has.  Nothing guards the cache: reading it    *)
(* while it is assigned may give anything, and so may two assignments at    *)
(* once.                                                                    *)
(*                                                                         *)
(* A folder is its id.  The chat rows SaveChatFolder also deletes are in    *)
(* ChatLists.  A folder that is new again under its old id keeps its row.   *)
(***************************************************************************)
EXTENDS FiniteSets

CONSTANTS
    Folders,    \* ids of folders
    Handlers,   \* bound: so many updates are handled at once
    Failures    \* whether calls of TDLib and MongoDB may fail

ASSUME FailuresAssumption == Failures \in BOOLEAN

VARIABLES
    tdFolders,  \* TDLib: the folders there are
    rows,       \* chatFilters
    cache,      \* t.chatFolders
    work,       \* SaveChatFilters of each handler
    missed,     \* history: folders whose saving failed, or that a racing read took for known
    garbled,    \* history: the cache was last assigned by two handlers at once
    unsure      \* history: handlers overlapped since all were idle, or a load failed

ghosts == <<missed, garbled, unsure>>
vars == <<tdFolders, rows, cache, work, ghosts>>

Idle == [pc |-> "idle", todo |-> {}, new |-> {}, list |-> {}]
Handling(update) == [pc |-> "check", todo |-> update, new |-> {}, list |-> {}]
AllIdle == \A h \in Handlers : work[h].pc = "idle"
\* Handlers that write the cache, alone or with another.
Assigning == {h \in Handlers : work[h].pc \in {"assigning", "colliding"}}

\* RunTdlib: the saved folders, and TDLib's first update.
Started ==
    \E h \in Handlers : work' = [g \in Handlers |-> IF g = h THEN Handling(tdFolders) ELSE Idle]

Init ==
    /\ tdFolders \in SUBSET Folders
    /\ rows = {} /\ cache = {}
    /\ \E h \in Handlers : work = [g \in Handlers |-> IF g = h THEN Handling(tdFolders) ELSE Idle]
    /\ missed = {} /\ garbled = FALSE /\ unsure = FALSE

-----------------------------------------------------------------------------
\* A folder is made or removed: UpdateChatFolders names all there are.
Change(f) ==
    /\ tdFolders' = IF f \in tdFolders THEN tdFolders \ {f} ELSE tdFolders \union {f}
    /\ \E h \in Handlers :
        /\ work[h].pc = "idle"
        /\ work' = [work EXCEPT ![h] = Handling(tdFolders')]
    /\ unsure' = ~AllIdle
    /\ UNCHANGED <<rows, cache, missed, garbled>>

\* A faulty comparison: any cached folder makes a folder a known one.
CheckAny(h, f) ==
    /\ work[h].pc = "check" /\ f \in work[h].todo
    /\ work' = [work EXCEPT ![h].todo = @ \ {f}, ![h].new = IF cache # {} THEN @ ELSE @ \union {f}]
    /\ UNCHANGED <<tdFolders, rows, cache, ghosts>>

\* The first loop: a folder the cache does not have gets a goroutine.
Check(h, f) ==
    /\ work[h].pc = "check" /\ f \in work[h].todo
    /\ \E existed \in IF Assigning # {} THEN BOOLEAN ELSE {f \in cache} :
        /\ work' = [work EXCEPT ![h].todo = @ \ {f}, ![h].new = IF existed THEN @ ELSE @ \union {f}]
        /\ missed' = IF existed /\ (garbled \/ Assigning # {}) THEN missed \union {f} ELSE missed
    /\ UNCHANGED <<tdFolders, rows, cache, garbled, unsure>>

\* The goroutine of a folder: getChatFolder, then SaveChatFolder's upsert.
SaveFolder(h, f) ==
    /\ f \in work[h].new /\ f \in tdFolders
    /\ rows' = rows \union {f}
    /\ missed' = missed \ {f}
    /\ work' = [work EXCEPT ![h].new = @ \ {f}]
    /\ UNCHANGED <<tdFolders, cache, garbled, unsure>>

\* A faulty goroutine, which returns on an error without wg.Done.
SaveFailsUndone(h, f) ==
    /\ f \in work[h].new /\ (Failures \/ f \notin tdFolders)
    /\ missed' = missed \union {f}
    /\ UNCHANGED <<tdFolders, rows, cache, work, garbled, unsure>>

\* Either call fails, as getChatFolder does for a folder that is gone.
SaveFails(h, f) ==
    /\ f \in work[h].new /\ (Failures \/ f \notin tdFolders)
    /\ missed' = missed \union {f}
    /\ work' = [work EXCEPT ![h].new = @ \ {f}]
    /\ UNCHANGED <<tdFolders, rows, cache, garbled, unsure>>

\* A faulty handler without wg.Wait.
LoadUnwaited(h) ==
    /\ work[h].pc = "check" /\ work[h].todo = {}
    /\ work' = [work EXCEPT ![h].pc = "assign", ![h].list = rows]
    /\ UNCHANGED <<tdFolders, rows, cache, ghosts>>

\* A faulty load, which adds the folders of the update unsaved.
LoadAndAdd(h) ==
    /\ work[h].pc = "check" /\ work[h].todo = {} /\ work[h].new = {}
    /\ work' = [work EXCEPT ![h].pc = "assign", ![h].list = rows \union tdFolders]
    /\ UNCHANGED <<tdFolders, rows, cache, ghosts>>

\* wg.Wait, and LoadChatFolders; one whose read fails answers nil, which is assigned too.  One whose
\* Find fails reads from a nil cursor and ends the process, which is Restart here.
Load(h) ==
    /\ work[h].pc = "check" /\ work[h].todo = {} /\ work[h].new = {}
    /\ \/ work' = [work EXCEPT ![h].pc = "assign", ![h].list = rows] /\ UNCHANGED unsure
       \/ Failures /\ work' = [work EXCEPT ![h].pc = "assign"] /\ unsure' = TRUE
    /\ UNCHANGED <<tdFolders, rows, cache, missed, garbled>>

\* The assignment of a slice is three words: two handlers' may mix.
BeginAssign(h) ==
    /\ work[h].pc = "assign"
    /\ work' = [g \in Handlers |->
                 IF g = h \/ g \in Assigning
                 THEN [work[g] EXCEPT !.pc = IF Assigning = {} THEN "assigning" ELSE "colliding"]
                 ELSE work[g]]
    /\ UNCHANGED <<tdFolders, rows, cache, ghosts>>

\* A faulty handler, which declares a chatFolders of its own.
EndAssignShadowed(h) ==
    /\ work[h].pc = "assigning"
    /\ work' = [work EXCEPT ![h] = Idle]
    /\ UNCHANGED <<tdFolders, rows, cache, ghosts>>

EndAssign(h) ==
    /\ h \in Assigning
    /\ garbled' = (work[h].pc = "colliding")
    /\ cache' \in IF garbled' THEN SUBSET Folders ELSE {work[h].list}
    /\ work' = [work EXCEPT ![h] = Idle]
    /\ UNCHANGED <<tdFolders, rows, missed, unsure>>

\* The process stops, or panics over a nil cursor, and starts again.
Restart ==
    /\ Started
    /\ cache' = rows
    /\ missed' = {} /\ garbled' = FALSE /\ unsure' = FALSE
    /\ UNCHANGED <<tdFolders, rows>>

Handle(h) ==
    \/ \E f \in Folders : Check(h, f) \/ SaveFolder(h, f) \/ SaveFails(h, f)
    \/ Load(h) \/ BeginAssign(h) \/ EndAssign(h)

Next ==
    \/ \E f \in Folders : Change(f)
    \/ \E h \in Handlers : Handle(h)
    \/ Restart

Spec == Init /\ [][Next]_vars

\* Handlers are goroutines; their calls end by the client's and MongoDB's timeouts.
FairSpec == Spec /\ \A h \in Handlers : WF_vars(Handle(h))

-----------------------------------------------------------------------------
\* Types, and the phases of a handler: it loads only when all its folders are done.
TypeOK ==
    /\ tdFolders \subseteq Folders /\ rows \subseteq Folders /\ cache \subseteq Folders
    /\ work \in [Handlers -> [pc: {"idle", "check", "assign", "assigning", "colliding"}, todo: SUBSET Folders,
                              new: SUBSET Folders, list: SUBSET Folders]]
    /\ \A h \in Handlers : work[h].pc # "check" => work[h].todo = {} /\ work[h].new = {}
    /\ missed \subseteq Folders /\ garbled \in BOOLEAN /\ unsure \in BOOLEAN

\* A folder the cache has is in MongoDB, so one that is skipped as known is never lost by it;
\* except for a cache that two handlers assigned at once.
CachedAreSaved == garbled \/ cache \subseteq rows

\* Once all updates are handled, a folder TDLib has is in MongoDB, unless its
\* saving failed or it was read from a cache that was being assigned.
MissingHasCause == AllIdle => tdFolders \subseteq rows \union missed

\* Once all updates are handled, the cache is what MongoDB has, unless two handlers
\* overlapped or a load failed.
CacheHasCause == AllIdle => cache = rows \/ unsure

\* The handler of an update ends, whatever fails in the goroutines it waits for, unless
\* the process restarts again and again.
HandlersEnd ==
    \A h \in Handlers : []<><<Restart>>_vars \/ (work[h].pc # "idle" ~> work[h].pc = "idle")
=============================================================================
