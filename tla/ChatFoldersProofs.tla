--------------------------- MODULE ChatFoldersProofs ---------------------------
(***************************************************************************)
(* Of ChatFolders, for any folders and any number of handlers: the types,   *)
(* that the cache holds saved folders, and that a folder is missing from    *)
(* MongoDB only for a cause.                                                *)
(***************************************************************************)
EXTENDS ChatFolders, TLAPS

Pcs == {"idle", "check", "assign", "assigning", "colliding"}

Works == [Handlers -> [pc: Pcs, todo: SUBSET Folders, new: SUBSET Folders, list: SUBSET Folders]]

\* What handlers loaded is still in MongoDB: rows are never deleted.
ListsAreSaved == \A h \in Handlers : work[h].list \subseteq rows

\* A folder that is not saved is still to be looked at or saved by some handler.
OnItsWay ==
    \A f \in tdFolders :
        f \in rows \/ f \in missed \/ \E h \in Handlers : f \in work[h].todo \/ f \in work[h].new

\* An idle handler, as any that is past its check, has nothing left to do: with
\* OnItsWay this gives MissingHasCause.
IInv == TypeOK /\ ListsAreSaved /\ CachedAreSaved /\ OnItsWay

\* The fields of a handler's work.
LEMMA WorkFields ==
    ASSUME work \in Works, NEW h \in Handlers
    PROVE  /\ work[h].pc \in Pcs /\ work[h].todo \subseteq Folders
           /\ work[h].new \subseteq Folders /\ work[h].list \subseteq Folders
BY DEF Works

\* The states a process starts in.
LEMMA StartedWork ==
    ASSUME tdFolders \subseteq Folders, Started
    PROVE  /\ work' \in Works
           /\ \A h \in Handlers : work'[h].list = {}
           /\ \A h \in Handlers : work'[h].pc # "check" => work'[h].todo = {} /\ work'[h].new = {}
           /\ \A f \in tdFolders : \E h \in Handlers : f \in work'[h].todo
BY DEF Started, Handling, Idle, Works, Pcs

LEMMA InitIInv == Init => IInv
<1> SUFFICES ASSUME Init PROVE IInv
  OBVIOUS
<1>1. PICK h \in Handlers : work = [g \in Handlers |-> IF g = h THEN Handling(tdFolders) ELSE Idle]
  BY DEF Init
<1>2. work \in Works
  BY <1>1 DEF Init, Handling, Idle, Works, Pcs
<1>3. TypeOK
  BY <1>1, <1>2 DEF Init, TypeOK, Works, Pcs, Handling, Idle
<1>4. ListsAreSaved /\ CachedAreSaved
  BY <1>1 DEF Init, ListsAreSaved, CachedAreSaved, Handling, Idle
<1>5. OnItsWay
  BY <1>1 DEF Init, OnItsWay, Handling
<1> QED
  BY <1>3, <1>4, <1>5 DEF IInv

LEMMA StepIInv == IInv /\ [Next]_vars => IInv'
<1> SUFFICES ASSUME IInv, [Next]_vars PROVE IInv'
  OBVIOUS
<1> USE DEF Pcs
<1>0. work \in Works
  BY DEF IInv, TypeOK, Works
<1>1. ASSUME NEW f \in Folders, Change(f) PROVE IInv'
  <2>1. tdFolders' \subseteq Folders
    BY <1>1 DEF Change, IInv, TypeOK
  <2>2. PICK h \in Handlers : work[h].pc = "idle" /\ work' = [work EXCEPT ![h] = Handling(tdFolders')]
    BY <1>1 DEF Change
  <2>3. work'[h] = Handling(tdFolders') /\ \A g \in Handlers \ {h} : work'[g] = work[g]
    BY <1>0, <2>2 DEF Works
  <2>4. work' \in Works
    BY <1>0, <2>1, <2>2 DEF Works, Handling
  <2>5. TypeOK'
    BY <1>1, <2>1, <2>3, <2>4 DEF IInv, TypeOK, Change, Works, Handling, AllIdle
  <2>6. ListsAreSaved' /\ CachedAreSaved'
    BY <1>1, <2>3 DEF IInv, ListsAreSaved, CachedAreSaved, Change, Handling
  <2>7. OnItsWay'
    BY <2>3 DEF OnItsWay, Handling
  <2> QED
    BY <2>5, <2>6, <2>7 DEF IInv
<1>2. ASSUME NEW h \in Handlers, NEW f \in Folders, Check(h, f) PROVE IInv'
  <2>1. PICK existed \in IF Assigning # {} THEN BOOLEAN ELSE {f \in cache} :
          /\ work' = [work EXCEPT ![h].todo = @ \ {f}, ![h].new = IF existed THEN @ ELSE @ \union {f}]
          /\ missed' = IF existed /\ (garbled \/ Assigning # {}) THEN missed \union {f} ELSE missed
    BY <1>2 DEF Check
  <2>2. /\ \A g \in Handlers \ {h} : work'[g] = work[g]
        /\ work'[h].pc = work[h].pc /\ work'[h].list = work[h].list
        /\ work'[h].todo = work[h].todo \ {f}
        /\ work'[h].new = IF existed THEN work[h].new ELSE work[h].new \union {f}
    BY <1>0, <2>1, ZenonT(40) DEF Works
  <2>3. work' \in Works
    BY <1>0, <2>1 DEF Works
  <2>4. TypeOK'
    BY <1>2, <2>1, <2>2, <2>3 DEF IInv, TypeOK, Check, Works
  <2>5. ListsAreSaved' /\ CachedAreSaved'
    BY <1>2, <2>2 DEF IInv, ListsAreSaved, CachedAreSaved, Check
  <2>6. existed => f \in rows \/ f \in missed'
    BY <2>1 DEF IInv, CachedAreSaved
  <2>7. OnItsWay'
    <3> SUFFICES ASSUME NEW g \in tdFolders, ~(g \in rows), ~(g \in missed')
                 PROVE  \E k \in Handlers : g \in work'[k].todo \/ g \in work'[k].new
      BY <1>2 DEF OnItsWay, Check
    <3>1. PICK k \in Handlers : g \in work[k].todo \/ g \in work[k].new
      BY <2>1 DEF IInv, OnItsWay
    <3>2. g = f => ~existed
      BY <2>6
    <3> QED
      BY <2>2, <3>1, <3>2
  <2> QED
    BY <2>4, <2>5, <2>7 DEF IInv
<1>3. ASSUME NEW h \in Handlers, NEW f \in Folders, SaveFolder(h, f) \/ SaveFails(h, f) PROVE IInv'
  <2>1. work' = [work EXCEPT ![h].new = @ \ {f}]
    BY <1>3 DEF SaveFolder, SaveFails
  <2>2. /\ \A g \in Handlers \ {h} : work'[g] = work[g]
        /\ work'[h].pc = work[h].pc /\ work'[h].list = work[h].list
        /\ work'[h].todo = work[h].todo /\ work'[h].new = work[h].new \ {f}
    BY <1>0, <2>1 DEF Works
  <2>3. work' \in Works
    BY <1>0, <2>1 DEF Works
  <2>4. /\ rows \subseteq rows' /\ rows' \subseteq Folders /\ missed' \subseteq Folders
        /\ f \in rows' \/ f \in missed'
        /\ \A g \in missed : g \in missed' \/ g \in rows'
        /\ UNCHANGED <<tdFolders, cache, garbled, unsure>>
    BY <1>3 DEF SaveFolder, SaveFails, IInv, TypeOK
  <2>5. TypeOK'
    BY <2>2, <2>3, <2>4 DEF IInv, TypeOK, Works
  <2>6. ListsAreSaved' /\ CachedAreSaved'
    BY <2>2, <2>4 DEF IInv, ListsAreSaved, CachedAreSaved
  <2>7. OnItsWay'
    BY <2>2, <2>4 DEF IInv, OnItsWay
  <2> QED
    BY <2>5, <2>6, <2>7 DEF IInv
<1>4. ASSUME NEW h \in Handlers, Load(h) PROVE IInv'
  <2>1. /\ work[h].todo = {} /\ work[h].new = {}
        /\ UNCHANGED <<tdFolders, rows, cache, missed, garbled>>
        /\ unsure' \in BOOLEAN
        /\ \/ work' = [work EXCEPT ![h].pc = "assign", ![h].list = rows]
           \/ work' = [work EXCEPT ![h].pc = "assign"]
    BY <1>4 DEF Load, IInv, TypeOK
  <2>2. /\ \A g \in Handlers \ {h} : work'[g] = work[g]
        /\ work'[h].pc = "assign" /\ work'[h].list \in {work[h].list, rows}
        /\ work'[h].todo = {} /\ work'[h].new = {}
    BY <1>0, <2>1 DEF Works
  <2>3. work' \in Works
    BY <1>0, <2>1 DEF Works, IInv, TypeOK
  <2>4. TypeOK'
    BY <2>1, <2>2, <2>3 DEF IInv, TypeOK, Works
  <2>5. ListsAreSaved' /\ CachedAreSaved'
    BY <2>1, <2>2 DEF IInv, ListsAreSaved, CachedAreSaved
  <2>6. OnItsWay'
    BY <2>1, <2>2 DEF IInv, OnItsWay
  <2> QED
    BY <2>4, <2>5, <2>6 DEF IInv
<1>5. ASSUME NEW h \in Handlers, BeginAssign(h) PROVE IInv'
  <2>1. \A g \in Handlers :
          /\ work'[g].todo = work[g].todo /\ work'[g].new = work[g].new
          /\ work'[g].list = work[g].list
          /\ work'[g] = work[g] \/ (work[g].pc # "check" /\ work'[g].pc # "check")
    BY <1>0, <1>5 DEF BeginAssign, Assigning, Works
  <2>2. work' \in Works
    BY <1>0, <1>5 DEF BeginAssign, Works
  <2>3. TypeOK'
    BY <1>5, <2>1, <2>2 DEF BeginAssign, IInv, TypeOK, Works, ghosts
  <2>4. ListsAreSaved' /\ CachedAreSaved'
    BY <1>5, <2>1 DEF BeginAssign, IInv, ListsAreSaved, CachedAreSaved, ghosts
  <2>5. OnItsWay'
    BY <1>5, <2>1 DEF BeginAssign, IInv, OnItsWay, ghosts
  <2> QED
    BY <2>3, <2>4, <2>5 DEF IInv
<1>6. ASSUME NEW h \in Handlers, EndAssign(h) PROVE IInv'
  <2>1. /\ work[h].pc # "check" /\ work[h].todo = {} /\ work[h].new = {}
        /\ garbled' \in BOOLEAN
        /\ cache' \in IF garbled' THEN SUBSET Folders ELSE {work[h].list}
        /\ UNCHANGED <<tdFolders, rows, missed, unsure>>
    BY <1>6 DEF EndAssign, Assigning, IInv, TypeOK
  <2>2. work'[h] = Idle /\ \A g \in Handlers \ {h} : work'[g] = work[g]
    BY <1>0, <1>6 DEF EndAssign, Works
  <2>3. work' \in Works
    BY <1>0, <1>6 DEF EndAssign, Works, Idle
  <2>4. TypeOK'
    BY <1>0, <2>1, <2>2, <2>3, WorkFields DEF IInv, TypeOK, Works, Idle
  <2>5. ListsAreSaved' /\ CachedAreSaved'
    BY <2>1, <2>2 DEF IInv, ListsAreSaved, CachedAreSaved, Idle
  <2>6. OnItsWay'
    BY <2>1, <2>2 DEF IInv, OnItsWay
  <2> QED
    BY <2>4, <2>5, <2>6 DEF IInv
<1>7. ASSUME Restart PROVE IInv'
  <2>1. /\ tdFolders \subseteq Folders /\ rows \subseteq Folders
        /\ UNCHANGED <<tdFolders, rows>> /\ cache' = rows
        /\ missed' = {} /\ garbled' = FALSE /\ unsure' = FALSE /\ Started
    BY <1>7 DEF Restart, IInv, TypeOK
  <2>2. TypeOK'
    BY <2>1, StartedWork DEF TypeOK, Works
  <2>3. ListsAreSaved' /\ CachedAreSaved' /\ OnItsWay'
    BY <2>1, StartedWork DEF ListsAreSaved, CachedAreSaved, OnItsWay
  <2> QED
    BY <2>2, <2>3 DEF IInv
<1>8. CASE UNCHANGED vars
  BY <1>8 DEF vars, ghosts, IInv, TypeOK, ListsAreSaved, CachedAreSaved, OnItsWay
<1> QED
  BY <1>1, <1>2, <1>3, <1>4, <1>5, <1>6, <1>7, <1>8 DEF Next, Handle

\* The inductive invariant holds in every reachable state.
THEOREM Invariance == Spec => []IInv
BY InitIInv, StepIInv, PTL DEF Spec

\* A cached folder is in MongoDB: skipping it as a known one (tdApi.go:574-582) never
\* loses it, unless two handlers assigned the cache at once.
THEOREM CacheHoldsSaved == Spec => []CachedAreSaved
<1>1. IInv => CachedAreSaved
  BY DEF IInv
<1> QED
  BY <1>1, Invariance, PTL

\* Once every update is handled, a folder that is missing from MongoDB had its saving fail
\* or was looked up in a cache that was being assigned (tdApi.go:572-620).
THEOREM MissingFoldersHaveCause == Spec => []MissingHasCause
<1>1. IInv => MissingHasCause
  BY DEF IInv, TypeOK, OnItsWay, MissingHasCause, AllIdle
<1> QED
  BY <1>1, Invariance, PTL

\* Types of the cache, of MongoDB's folders and of the handlers: a handler past its wait has
\* no goroutine left (tdApi.go:600).
THEOREM TypeCorrect == Spec => []TypeOK
<1>1. IInv => TypeOK
  BY DEF IInv
<1> QED
  BY <1>1, Invariance, PTL

-----------------------------------------------------------------------------
\* While handlers do not overlap and no load fails, the one that is past its load has what
\* MongoDB has, and the cache has it again when none is left.
Lone ==
    /\ \A g, h \in Handlers : work[g].pc # "idle" /\ work[h].pc # "idle" => g = h
    /\ \A h \in Handlers : work[h].pc # "colliding"
    /\ \A h \in Handlers : work[h].pc \in {"assign", "assigning"} => work[h].list = rows
    /\ AllIdle => cache = rows

Sure == ~unsure => Lone

LEMMA InitSure == Init => Sure
BY DEF Init, Sure, Lone, AllIdle, Handling, Idle

LEMMA StepSure == IInv /\ Sure /\ [Next]_vars => Sure'
<1> SUFFICES ASSUME IInv, Sure, [Next]_vars, ~unsure' PROVE Lone'
  BY DEF Sure
<1>0. work \in Works
  BY DEF IInv, TypeOK, Works, Pcs
<1>1. ASSUME NEW f \in Folders, Change(f) PROVE Lone'
  <2>1. AllIdle
    BY <1>1 DEF Change
  <2>2. PICK h \in Handlers : work' = [work EXCEPT ![h] = Handling(tdFolders')]
    BY <1>1 DEF Change
  <2>3. work'[h].pc = "check" /\ \A g \in Handlers \ {h} : work'[g].pc = "idle"
    BY <1>0, <2>1, <2>2 DEF Works, Handling, AllIdle
  <2> QED
    BY <2>3 DEF Lone, AllIdle
<1>2. ASSUME NEW h \in Handlers, NEW f \in Folders, Check(h, f) PROVE Lone'
  <2>1. Lone /\ UNCHANGED <<rows, cache>>
    BY <1>2 DEF Check, Sure
  <2>2. \A g \in Handlers : work'[g].pc = work[g].pc /\ work'[g].list = work[g].list
    BY <1>0, <1>2 DEF Check, Works
  <2> QED
    BY <2>1, <2>2 DEF Lone, AllIdle
<1>3. ASSUME NEW h \in Handlers, NEW f \in Folders, SaveFolder(h, f) \/ SaveFails(h, f) PROVE Lone'
  <2>1. Lone /\ work[h].pc = "check"
    BY <1>3 DEF SaveFolder, SaveFails, Sure, IInv, TypeOK
  <2>2. \A g \in Handlers : work'[g].pc = work[g].pc
    BY <1>0, <1>3 DEF SaveFolder, SaveFails, Works
  <2> QED
    BY <2>1, <2>2 DEF Lone, AllIdle
<1>4. ASSUME NEW h \in Handlers, Load(h) PROVE Lone'
  <2>1. Lone /\ work[h].pc = "check" /\ UNCHANGED <<rows, cache>>
    BY <1>4 DEF Load, Sure
  <2>2. work' = [work EXCEPT ![h].pc = "assign", ![h].list = rows]
    BY <1>4 DEF Load
  <2>3. /\ work'[h].pc = "assign" /\ work'[h].list = rows
        /\ \A g \in Handlers \ {h} : work'[g] = work[g]
    BY <1>0, <2>2 DEF Works
  <2> QED
    BY <2>1, <2>3 DEF Lone, AllIdle
<1>5. ASSUME NEW h \in Handlers, BeginAssign(h) PROVE Lone'
  <2>1. Lone /\ work[h].pc = "assign" /\ UNCHANGED <<rows, cache>>
    BY <1>5 DEF BeginAssign, Sure, ghosts
  <2>2. Assigning = {}
    BY <2>1 DEF Lone, Assigning
  <2>3. /\ work'[h].pc = "assigning" /\ work'[h].list = work[h].list
        /\ \A g \in Handlers \ {h} : work'[g] = work[g]
    BY <1>0, <1>5, <2>2 DEF BeginAssign, Works
  <2> QED
    BY <2>1, <2>3 DEF Lone, AllIdle
<1>6. ASSUME NEW h \in Handlers, EndAssign(h) PROVE Lone'
  <2>1. Lone /\ work[h].pc = "assigning" /\ UNCHANGED rows
    BY <1>6 DEF EndAssign, Sure, Lone, Assigning
  <2>2. cache' = rows
    BY <1>6, <2>1 DEF EndAssign, Lone
  <2>3. work'[h].pc = "idle" /\ \A g \in Handlers \ {h} : work'[g] = work[g]
    BY <1>0, <1>6 DEF EndAssign, Works, Idle
  <2> QED
    BY <2>1, <2>2, <2>3 DEF Lone
<1>7. ASSUME Restart PROVE Lone'
  BY <1>7 DEF Restart, Started, Lone, AllIdle, Handling, Idle
<1>8. CASE UNCHANGED vars
  BY <1>8 DEF vars, ghosts, Sure, Lone, AllIdle
<1> QED
  BY <1>1, <1>2, <1>3, <1>4, <1>5, <1>6, <1>7, <1>8 DEF Next, Handle

\* Once every update is handled the cache is what MongoDB has (tdApi.go:616-620), unless handlers
\* overlapped or a load failed.
THEOREM CachesHaveCause == Spec => []CacheHasCause
<1>1. Sure => CacheHasCause
  BY DEF Sure, Lone, CacheHasCause
<1> QED
  BY <1>1, InitSure, StepSure, Invariance, PTL DEF Spec
=============================================================================
