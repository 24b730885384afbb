-------------------------- MODULE HybridLatchProofs --------------------------
(***************************************************************************)
(* Proofs about HybridLatch, for every set of threads, fields and values   *)
(* and every size of the version counter.                                  *)
(***************************************************************************)
EXTENDS HybridLatch, TLAPS

\* How many releases separate version v from version w on the wrapped counter.
Ahead(v, w) == IF w >= v THEN w - v ELSE w + VersionMod - v

\* While the latch is free the fields are those of the last release.
FreeIsCommitted == ~word.lock => payload = committed

\* A snapshot taken `age' releases ago lies `age' versions back.
AgeIsDistance ==
  \A t \in Threads : pc[t] \in Tracked => Ahead(snap[t], word.ver) = age[t]

\* No release and no obsoletion since the snapshot: nothing was committed.
YoungIsCurrent ==
  \A t \in Threads :
    pc[t] \in Tracked /\ age[t] = 0 /\ ~word.obsolete => base[t] = committed

\* ... and, if no writer is inside now, nothing torn was loaded.
YoungIsWhole ==
  \A t \in Threads :
    pc[t] \in Tracked /\ age[t] = 0 /\ ~word.obsolete /\ ~word.lock =>
      \A f \in Fields : view[t][f] \in {Unread, base[t][f]}

\* A thread that does not hold the latch has stored nothing.
OnlyHoldersStore == \A t \in Threads : pc[t] # "held" => stored[t] = {}

\* A dead latch is a free latch.
ObsoleteIsFree == word.obsolete => ~word.lock

\* The inductive invariant.
IInv ==
  /\ TypeOK
  /\ MutualExclusion
  /\ FreeIsCommitted
  /\ AgeIsDistance
  /\ YoungIsCurrent
  /\ YoungIsWhole
  /\ OnlyHoldersStore
  /\ ObsoleteIsFree
  /\ SnapshotRead
  /\ UpgradeKeepsView

-----------------------------------------------------------------------------

USE VersionModAssumption, UnreadAssumption

\* A new latch satisfies the invariant.
LEMMA InitIInv == Init => IInv
<1> SUFFICES ASSUME Init PROVE IInv
  OBVIOUS
<1>1. TypeOK
  BY DEF Init, TypeOK, Clean, Nothing, Versions, States
<1>2. QED
  BY <1>1 DEF Init, IInv, MutualExclusion, FreeIsCommitted, AgeIsDistance,
     YoungIsCurrent, YoungIsWhole, OnlyHoldersStore, ObsoleteIsFree,
     SnapshotRead, UpgradeKeepsView, Clean, Tracked

\* A word equal to Clean(v) has version v and neither bit set.
LEMMA CleanWord ==
  ASSUME NEW v, word = Clean(v)
  PROVE  word.ver = v /\ ~word.lock /\ ~word.obsolete
BY DEF Clean

\* The compare-exchange on the version read: it succeeds only if nothing was
\* released since, so the fields are the ones of the snapshot.
LEMMA CleanMeansCurrent ==
  ASSUME IInv, NEW t \in Threads, pc[t] \in Tracked, word = Clean(snap[t])
  PROVE  /\ age[t] = 0
         /\ base[t] = committed
         /\ payload = committed
         /\ \A f \in Fields : view[t][f] \in {Unread, payload[f]}
<1>1. word.ver = snap[t] /\ ~word.lock /\ ~word.obsolete
  BY CleanWord
<1>2. age[t] = 0
  BY <1>1 DEF IInv, TypeOK, Versions, AgeIsDistance, Ahead
<1>3. QED
  BY <1>1, <1>2 DEF IInv, YoungIsCurrent, YoungIsWhole, FreeIsCommitted

\* Giving up the snapshot keeps the types.
LEMMA LetGoType ==
  ASSUME TypeOK, NEW t \in Threads, NEW at \in States, LetGo(t, at)
  PROVE  /\ pc' \in [Threads -> States]
         /\ snap' \in [Threads -> Versions]
         /\ view' \in [Threads -> [Fields -> Values \cup {Unread}]]
         /\ stored' \in [Threads -> SUBSET Fields]
         /\ base' \in [Threads -> [Fields -> Values \cup {Unread}]]
BY DEF TypeOK, LetGo, Nothing, Versions

\* A thread that gives up its snapshot without touching the latch, and without
\* ending up in it, preserves the invariant.
LEMMA LetGoIInv ==
  ASSUME IInv, NEW t \in Threads, NEW at \in {"idle", "wait"}, LetGo(t, at),
         pc[t] # "held", age' = age \/ age' = [age EXCEPT ![t] = 0],
         UNCHANGED <<word, payload, committed>>
  PROVE  IInv'
<1> USE DEF IInv
<1>1. TypeOK'
  <2>1. age' \in [Threads -> Versions]
    <3>1. CASE age' = age
      BY <3>1 DEF TypeOK
    <3>2. CASE age' = [age EXCEPT ![t] = 0]
      BY <3>2 DEF TypeOK, Versions
    <3>3. QED
      BY <3>1, <3>2
  <2>2. at \in States
    BY DEF States
  <2>3. QED
    BY <2>1, <2>2, LetGoType DEF TypeOK
<1>2. \A u \in Threads \ {t} :
        /\ pc'[u] = pc[u] /\ snap'[u] = snap[u] /\ view'[u] = view[u]
        /\ stored'[u] = stored[u] /\ base'[u] = base[u] /\ age'[u] = age[u]
  BY DEF TypeOK, LetGo
<1>3. pc'[t] = at /\ stored'[t] = {}
  BY DEF TypeOK, LetGo
<1>4. MutualExclusion' /\ OnlyHoldersStore' /\ UpgradeKeepsView'
  BY <1>2, <1>3 DEF MutualExclusion, OnlyHoldersStore, UpgradeKeepsView
<1>5. AgeIsDistance' /\ YoungIsCurrent' /\ YoungIsWhole' /\ SnapshotRead'
  BY <1>2, <1>3 DEF AgeIsDistance, YoungIsCurrent, YoungIsWhole, SnapshotRead, Tracked
<1>6. FreeIsCommitted' /\ ObsoleteIsFree'
  BY DEF FreeIsCommitted, ObsoleteIsFree
<1>7. QED
  BY <1>1, <1>4, <1>5, <1>6

\* Taking the free latch: t becomes the holder, nobody else moves.
LEMMA AcquireIInv ==
  ASSUME IInv, NEW t \in Threads, pc[t] # "held", ~word.lock, ~word.obsolete,
         word' = [word EXCEPT !.lock = TRUE],
         pc' = [pc EXCEPT ![t] = "held"],
         \A u \in Threads \ {t} :
           /\ snap'[u] = snap[u] /\ view'[u] = view[u] /\ stored'[u] = stored[u]
           /\ base'[u] = base[u] /\ age'[u] = age[u],
         \A f \in Fields : view'[t][f] \in {Unread, payload[f]},
         UNCHANGED <<payload, committed>>,
         TypeOK'
  PROVE  IInv'
<1> USE DEF IInv
<1>1. /\ word'.lock /\ ~word'.obsolete /\ word'.ver = word.ver
  BY DEF TypeOK
<1>2. pc'[t] = "held" /\ \A u \in Threads \ {t} : pc'[u] = pc[u]
  BY DEF TypeOK
<1>3. MutualExclusion'
  BY <1>1, <1>2 DEF MutualExclusion
<1>4. UpgradeKeepsView' /\ OnlyHoldersStore'
  BY <1>2, ~word.lock DEF UpgradeKeepsView, OnlyHoldersStore, MutualExclusion
<1>5. AgeIsDistance' /\ YoungIsCurrent' /\ YoungIsWhole' /\ SnapshotRead'
  BY <1>1, <1>2 DEF AgeIsDistance, YoungIsCurrent, YoungIsWhole, SnapshotRead, Tracked
<1>6. FreeIsCommitted' /\ ObsoleteIsFree'
  BY <1>1 DEF FreeIsCommitted, ObsoleteIsFree
<1>7. QED
  BY <1>3, <1>4, <1>5, <1>6

-----------------------------------------------------------------------------
(* One lemma per action *)

\* read_version: the snapshot starts at distance 0, with the committed fields.
LEMMA ReadVersionIInv ==
  ASSUME IInv, NEW t \in Threads, ReadVersion(t)
  PROVE  IInv'
<1> USE DEF IInv, TypeOK, ReadVersion, Tracked
<1>1. TypeOK'
  BY DEF States, Versions, Nothing
<1>2. MutualExclusion' /\ OnlyHoldersStore' /\ UpgradeKeepsView'
  BY DEF MutualExclusion, OnlyHoldersStore, UpgradeKeepsView
<1>3. AgeIsDistance'
  BY DEF AgeIsDistance, Ahead, Versions
<1>4. YoungIsCurrent' /\ YoungIsWhole' /\ SnapshotRead'
  BY DEF YoungIsCurrent, YoungIsWhole, SnapshotRead, Nothing
<1>5. FreeIsCommitted' /\ ObsoleteIsFree'
  BY DEF FreeIsCommitted, ObsoleteIsFree
<1>6. QED
  BY <1>1, <1>2, <1>3, <1>4, <1>5

\* A load by a reader whose snapshot is young sees the committed field.
LEMMA LoadIInv ==
  ASSUME IInv, NEW t \in Threads, NEW f \in Fields, Load(t, f)
  PROVE  IInv'
<1> USE DEF IInv, TypeOK, Load, Tracked
<1>1. TypeOK'
  OBVIOUS
<1>2. MutualExclusion' /\ OnlyHoldersStore' /\ UpgradeKeepsView' /\ SnapshotRead'
  BY DEF MutualExclusion, OnlyHoldersStore, UpgradeKeepsView, SnapshotRead
<1>3. YoungIsWhole'
  BY DEF YoungIsWhole, YoungIsCurrent, FreeIsCommitted
<1>4. AgeIsDistance' /\ YoungIsCurrent' /\ FreeIsCommitted' /\ ObsoleteIsFree'
  BY DEF AgeIsDistance, YoungIsCurrent, FreeIsCommitted, ObsoleteIsFree
<1>5. QED
  BY <1>1, <1>2, <1>3, <1>4

\* validate: success means that nothing was released since the snapshot.
LEMMA ValidateIInv ==
  ASSUME IInv, NEW t \in Threads, Validate(t)
  PROVE  IInv'
<1>1. CASE word = Clean(snap[t])
  <2> USE DEF IInv
  <2>1. pc' = [pc EXCEPT ![t] = "valid"]
        /\ UNCHANGED <<word, payload, snap, view, stored, committed, base, age>>
    BY <1>1 DEF Validate
  <2>2. pc[t] = "read"
    BY DEF Validate
  <2>3. \A f \in Fields : view[t][f] \in {Unread, base[t][f]}
    BY <1>1, <2>2, CleanMeansCurrent DEF Tracked
  <2>4. TypeOK'
    BY <2>1 DEF TypeOK, States
  <2>5. SnapshotRead'
    BY <2>1, <2>3 DEF SnapshotRead, TypeOK
  <2>6. MutualExclusion' /\ OnlyHoldersStore' /\ UpgradeKeepsView'
    BY <2>1, <2>2 DEF MutualExclusion, OnlyHoldersStore, UpgradeKeepsView, TypeOK
  <2>7. AgeIsDistance' /\ YoungIsCurrent' /\ YoungIsWhole'
    BY <2>1, <2>2 DEF AgeIsDistance, YoungIsCurrent, YoungIsWhole, Tracked, TypeOK
  <2>8. FreeIsCommitted' /\ ObsoleteIsFree'
    BY <2>1 DEF FreeIsCommitted, ObsoleteIsFree
  <2>9. QED
    BY <2>4, <2>5, <2>6, <2>7, <2>8
<1>2. CASE word # Clean(snap[t])
  <2>1. LetGo(t, "idle") /\ age' = [age EXCEPT ![t] = 0] /\ pc[t] # "held"
        /\ UNCHANGED <<word, payload, committed>>
    BY <1>2 DEF Validate
  <2>2. QED
    BY <2>1, LetGoIInv
<1>3. QED
  BY <1>1, <1>2

\* A reader that concludes gives up its snapshot.
LEMMA ForgetIInv ==
  ASSUME IInv, NEW t \in Threads, Forget(t)
  PROVE  IInv'
BY LetGoIInv DEF Forget

\* try_upgrade: a successful compare-exchange finds the fields as they were read.
LEMMA TryUpgradeIInv ==
  ASSUME IInv, NEW t \in Threads, TryUpgrade(t)
  PROVE  IInv'
<1>1. CASE word = Clean(snap[t])
  <2>1. /\ word' = [word EXCEPT !.lock = TRUE]
        /\ pc' = [pc EXCEPT ![t] = "held"]
        /\ snap' = [snap EXCEPT ![t] = 0]
        /\ base' = [base EXCEPT ![t] = Nothing]
        /\ age' = [age EXCEPT ![t] = 0]
        /\ UNCHANGED <<view, stored, payload, committed>>
    BY <1>1 DEF TryUpgrade
  <2>2. pc[t] \in Tracked
    BY DEF TryUpgrade
  <2>3. ~word.lock /\ ~word.obsolete
    BY <1>1, CleanWord
  <2>4. \A f \in Fields : view'[t][f] \in {Unread, payload[f]}
    BY <1>1, <2>1, <2>2, CleanMeansCurrent
  <2>5. TypeOK'
    <3>1. word' \in [ver : Versions, lock : BOOLEAN, obsolete : BOOLEAN]
      BY <2>1 DEF IInv, TypeOK
    <3>2. snap' \in [Threads -> Versions] /\ age' \in [Threads -> Versions]
      BY <2>1 DEF IInv, TypeOK, Versions
    <3>3. base' \in [Threads -> [Fields -> Values \cup {Unread}]]
      BY <2>1 DEF IInv, TypeOK, Nothing
    <3>4. QED
      BY <2>1, <3>1, <3>2, <3>3 DEF IInv, TypeOK, States
  <2>6. \A u \in Threads \ {t} :
          /\ snap'[u] = snap[u] /\ view'[u] = view[u] /\ stored'[u] = stored[u]
          /\ base'[u] = base[u] /\ age'[u] = age[u]
    BY <2>1 DEF IInv, TypeOK
  <2>7. pc[t] # "held"
    BY <2>2 DEF Tracked
  <2>8. QED
    BY <2>1, <2>3, <2>4, <2>5, <2>6, <2>7, AcquireIInv
<1>2. CASE word # Clean(snap[t])
  <2>1. LetGo(t, "idle") /\ age' = [age EXCEPT ![t] = 0] /\ pc[t] # "held"
        /\ UNCHANGED <<word, payload, committed>>
    BY <1>2 DEF TryUpgrade, Tracked
  <2>2. QED
    BY <2>1, LetGoIInv
<1>3. QED
  BY <1>1, <1>2

\* Entering lock() touches neither the latch nor a snapshot.
LEMMA StartLockIInv ==
  ASSUME IInv, NEW t \in Threads, StartLock(t)
  PROVE  IInv'
BY DEF StartLock, IInv, TypeOK, MutualExclusion, FreeIsCommitted, AgeIsDistance,
   YoungIsCurrent, YoungIsWhole, OnlyHoldersStore, ObsoleteIsFree,
   SnapshotRead, UpgradeKeepsView, Tracked, States

\* A load of lock()'s loop remembers a version, which is not a snapshot.
LEMMA LockLoadIInv ==
  ASSUME IInv, NEW t \in Threads, LockLoad(t)
  PROVE  IInv'
<1> USE DEF LockLoad, IInv, TypeOK, Tracked, States
<1>1. TypeOK'
  OBVIOUS
<1>2. MutualExclusion' /\ OnlyHoldersStore'
  BY DEF MutualExclusion, OnlyHoldersStore
<1>6. UpgradeKeepsView' /\ SnapshotRead'
  BY DEF UpgradeKeepsView, SnapshotRead
<1>3. AgeIsDistance' /\ YoungIsCurrent' /\ YoungIsWhole'
  BY DEF AgeIsDistance, YoungIsCurrent, YoungIsWhole
<1>4. FreeIsCommitted' /\ ObsoleteIsFree'
  BY DEF FreeIsCommitted, ObsoleteIsFree
<1>5. QED
  BY <1>1, <1>2, <1>6, <1>3, <1>4

\* lock()'s compare-exchange: the holder starts with nothing read.
LEMMA LockCasIInv ==
  ASSUME IInv, NEW t \in Threads, LockCas(t)
  PROVE  IInv'
<1>0. pc[t] = "cas" /\ UNCHANGED <<payload, committed, age>>
  BY DEF LockCas
<1>1. CASE word = Clean(snap[t])
  <2>1. LetGo(t, "held") /\ word' = [word EXCEPT !.lock = TRUE]
    BY <1>1 DEF LockCas
  <2>2. ~word.lock /\ ~word.obsolete
    BY <1>1, CleanWord
  <2>3. TypeOK'
    <3>1. word' \in [ver : Versions, lock : BOOLEAN, obsolete : BOOLEAN]
      BY <2>1 DEF IInv, TypeOK
    <3>2. QED
      BY <1>0, <2>1, <3>1, LetGoType DEF IInv, TypeOK, States
  <2>4. view'[t] = Nothing
    BY <2>1 DEF LetGo, IInv, TypeOK
  <2>5. \A u \in Threads \ {t} :
          /\ snap'[u] = snap[u] /\ view'[u] = view[u] /\ stored'[u] = stored[u]
          /\ base'[u] = base[u] /\ age'[u] = age[u]
    BY <1>0, <2>1 DEF LetGo, IInv, TypeOK
  <2>6. pc' = [pc EXCEPT ![t] = "held"]
    BY <2>1 DEF LetGo
  <2>7. \A f \in Fields : view'[t][f] \in {Unread, payload[f]}
    BY <2>4 DEF Nothing
  <2>8. QED
    BY <1>0, <2>1, <2>2, <2>3, <2>5, <2>6, <2>7, AcquireIInv
<1>2. CASE word # Clean(snap[t])
  <2>1. LetGo(t, "wait") /\ UNCHANGED word
    BY <1>2 DEF LockCas
  <2>2. QED
    BY <1>0, <2>1, LetGoIInv
<1>3. QED
  BY <1>1, <1>2

\* A store by the holder: no snapshot is young and validated while it lasts.
LEMMA StoreIInv ==
  ASSUME IInv, NEW t \in Threads, NEW f \in Fields, NEW x \in Values, Store(t, f, x)
  PROVE  IInv'
<1> USE DEF Store, IInv, TypeOK
<1>1. TypeOK'
  OBVIOUS
<1>2. word.lock
  BY DEF MutualExclusion
<1>3. MutualExclusion' /\ OnlyHoldersStore' /\ UpgradeKeepsView'
  BY DEF MutualExclusion, OnlyHoldersStore, UpgradeKeepsView
<1>4. FreeIsCommitted' /\ YoungIsWhole' /\ ObsoleteIsFree'
  BY <1>2 DEF FreeIsCommitted, YoungIsWhole, ObsoleteIsFree
<1>5. AgeIsDistance' /\ YoungIsCurrent' /\ SnapshotRead'
  BY DEF AgeIsDistance, YoungIsCurrent, SnapshotRead
<1>6. QED
  BY <1>1, <1>3, <1>4, <1>5

\* wrapping_add stays within the counter.
LEMMA BumpType ==
  ASSUME NEW w \in Versions
  PROVE  Bump(w) \in Versions
BY DEF Bump, Versions

\* One more release moves a version one step ahead, short of a full turn.
LEMMA AheadBump ==
  ASSUME NEW v \in Versions, NEW w \in Versions, Ahead(v, w) + 1 < VersionMod
  PROVE  Ahead(v, Bump(w)) = Ahead(v, w) + 1
<1>1. CASE w = VersionMod - 1
  BY <1>1 DEF Ahead, Bump, Versions
<1>2. CASE w # VersionMod - 1 /\ w >= v
  BY <1>2 DEF Ahead, Bump, Versions
<1>3. CASE w # VersionMod - 1 /\ w < v
  BY <1>3 DEF Ahead, Bump, Versions
<1>4. QED
  BY <1>1, <1>2, <1>3 DEF Versions

\* What a release by its holder does to the word and to every other thread.
LEMMA ReleaseFacts ==
  ASSUME IInv, NEW t \in Threads, pc[t] = "held", NoFullTurn(t),
         word' = Released(word), age' = Older(t)
  PROVE  /\ word' \in [ver : Versions, lock : BOOLEAN, obsolete : BOOLEAN]
         /\ ~word'.lock /\ ~word'.obsolete /\ word'.ver = Bump(word.ver)
         /\ age' \in [Threads -> Versions]
         /\ age'[t] = 0
         /\ \A u \in Threads \ {t} : pc[u] \in Tracked =>
              /\ age'[u] = age[u] + 1
              /\ Ahead(snap[u], word'.ver) = age'[u]
<1> USE DEF IInv, TypeOK, Versions
<1>1. /\ word' \in [ver : Versions, lock : BOOLEAN, obsolete : BOOLEAN]
      /\ ~word'.lock /\ ~word'.obsolete /\ word'.ver = Bump(word.ver)
  <2>1. Bump(word.ver) \in Versions
    BY BumpType
  <2>2. QED
    BY <2>1 DEF Released
<1>2. age' \in [Threads -> Versions] /\ age'[t] = 0
  BY DEF Older, NoFullTurn
<1>3. ASSUME NEW u \in Threads \ {t}, pc[u] \in Tracked
      PROVE  age'[u] = age[u] + 1 /\ Ahead(snap[u], word'.ver) = age'[u]
  <2>1. age'[u] = age[u] + 1
    BY <1>3 DEF Older
  <2>2. Ahead(snap[u], word.ver) = age[u] /\ age[u] + 1 < VersionMod
    BY <1>3 DEF AgeIsDistance, NoFullTurn
  <2>3. snap[u] \in Versions /\ word.ver \in Versions
    OBVIOUS
  <2>4. Ahead(snap[u], Bump(word.ver)) = Ahead(snap[u], word.ver) + 1
    BY <2>2, <2>3, AheadBump
  <2>5. QED
    BY <1>1, <2>1, <2>2, <2>4
<1>4. QED
  BY <1>1, <1>2, <1>3

\* unlock: every other snapshot is one release older, the returned one is new.
LEMMA UnlockIInv ==
  ASSUME IInv, NEW t \in Threads, Unlock(t)
  PROVE  IInv'
<1> USE DEF IInv
<1>1. /\ pc[t] = "held"
      /\ pc' = [pc EXCEPT ![t] = "cached"]
      /\ snap' = [snap EXCEPT ![t] = word'.ver]
      /\ view' = [view EXCEPT ![t] = payload]
      /\ stored' = [stored EXCEPT ![t] = {}]
      /\ base' = [base EXCEPT ![t] = payload]
      /\ committed' = payload /\ payload' = payload
  BY DEF Unlock
<1>2. /\ word' \in [ver : Versions, lock : BOOLEAN, obsolete : BOOLEAN]
      /\ ~word'.lock /\ ~word'.obsolete /\ word'.ver = Bump(word.ver)
      /\ age' \in [Threads -> Versions]
      /\ age'[t] = 0
      /\ \A u \in Threads \ {t} : pc[u] \in Tracked =>
           /\ age'[u] = age[u] + 1
           /\ Ahead(snap[u], word'.ver) = age'[u]
  BY ReleaseFacts DEF Unlock
<1>3. \A u \in Threads \ {t} :
        /\ pc'[u] = pc[u] /\ snap'[u] = snap[u] /\ view'[u] = view[u]
        /\ stored'[u] = stored[u] /\ base'[u] = base[u]
  BY <1>1 DEF TypeOK
<1>4. /\ pc'[t] = "cached" /\ snap'[t] = word'.ver /\ view'[t] = payload
      /\ stored'[t] = {} /\ base'[t] = payload
  BY <1>1 DEF TypeOK
<1>5. TypeOK'
  <2>1. word'.ver \in Versions
    BY <1>2
  <2>2. QED
    BY <1>1, <1>2, <2>1 DEF TypeOK, States
<1>6. \A u \in Threads : pc[u] = "held" => u = t
  BY <1>1 DEF MutualExclusion
<1>7. MutualExclusion' /\ OnlyHoldersStore' /\ UpgradeKeepsView'
  BY <1>2, <1>3, <1>4, <1>6 DEF MutualExclusion, OnlyHoldersStore, UpgradeKeepsView
<1>8. AgeIsDistance'
  <2>1. Ahead(snap'[t], word'.ver) = age'[t]
    BY <1>2, <1>4, <1>5 DEF Ahead, TypeOK, Versions
  <2>2. QED
    BY <1>2, <1>3, <2>1 DEF AgeIsDistance
<1>9. \A u \in Threads \ {t} : pc[u] \in Tracked => age'[u] # 0
  BY <1>2 DEF TypeOK, Versions
<1>10. YoungIsCurrent' /\ YoungIsWhole'
  BY <1>1, <1>3, <1>4, <1>9 DEF YoungIsCurrent, YoungIsWhole
<1>11. SnapshotRead' /\ FreeIsCommitted' /\ ObsoleteIsFree'
  BY <1>1, <1>2, <1>3, <1>4 DEF SnapshotRead, FreeIsCommitted, ObsoleteIsFree
<1>12. QED
  BY <1>5, <1>7, <1>8, <1>10, <1>11

\* Drop of a guard releases as unlock does, and keeps no version.
LEMMA DropIInv ==
  ASSUME IInv, NEW t \in Threads, Drop(t)
  PROVE  IInv'
<1> USE DEF IInv
<1>1. /\ pc[t] = "held" /\ LetGo(t, "idle")
      /\ committed' = payload /\ payload' = payload
  BY DEF Drop
<1>2. /\ word' \in [ver : Versions, lock : BOOLEAN, obsolete : BOOLEAN]
      /\ ~word'.lock /\ ~word'.obsolete /\ word'.ver = Bump(word.ver)
      /\ age' \in [Threads -> Versions]
      /\ \A u \in Threads \ {t} : pc[u] \in Tracked =>
           /\ age'[u] = age[u] + 1
           /\ Ahead(snap[u], word'.ver) = age'[u]
  BY ReleaseFacts DEF Drop
<1>3. \A u \in Threads \ {t} :
        /\ pc'[u] = pc[u] /\ snap'[u] = snap[u] /\ view'[u] = view[u]
        /\ stored'[u] = stored[u] /\ base'[u] = base[u]
  BY <1>1 DEF TypeOK, LetGo
<1>4. pc'[t] = "idle" /\ stored'[t] = {}
  BY <1>1 DEF TypeOK, LetGo
<1>5. TypeOK'
  BY <1>1, <1>2, LetGoType DEF TypeOK, States
<1>6. \A u \in Threads : pc[u] = "held" => u = t
  BY <1>1 DEF MutualExclusion
<1>7. MutualExclusion' /\ OnlyHoldersStore' /\ UpgradeKeepsView'
  BY <1>2, <1>3, <1>4, <1>6 DEF MutualExclusion, OnlyHoldersStore, UpgradeKeepsView
<1>8. AgeIsDistance' /\ SnapshotRead'
  BY <1>2, <1>3, <1>4 DEF AgeIsDistance, SnapshotRead, Tracked
<1>9. \A u \in Threads \ {t} : pc[u] \in Tracked => age'[u] # 0
  BY <1>2 DEF TypeOK, Versions
<1>10. YoungIsCurrent' /\ YoungIsWhole'
  BY <1>3, <1>4, <1>9 DEF YoungIsCurrent, YoungIsWhole, Tracked
<1>11. FreeIsCommitted' /\ ObsoleteIsFree'
  BY <1>1, <1>2 DEF FreeIsCommitted, ObsoleteIsFree
<1>12. QED
  BY <1>5, <1>7, <1>8, <1>10, <1>11

\* mark_obsolete: the latch is free for ever and nobody holds it.
LEMMA MarkObsoleteIInv ==
  ASSUME IInv, NEW t \in Threads, MarkObsolete(t)
  PROVE  IInv'
<1> USE DEF IInv
<1>1. /\ pc[t] = "held" /\ LetGo(t, "idle")
      /\ committed' = payload /\ payload' = payload /\ age' = age
      /\ word' = [word EXCEPT !.lock = FALSE, !.obsolete = TRUE]
  BY DEF MarkObsolete
<1>2. /\ word' \in [ver : Versions, lock : BOOLEAN, obsolete : BOOLEAN]
      /\ ~word'.lock /\ word'.obsolete /\ word'.ver = word.ver
  BY <1>1 DEF TypeOK
<1>3. \A u \in Threads \ {t} :
        /\ pc'[u] = pc[u] /\ snap'[u] = snap[u] /\ view'[u] = view[u]
        /\ stored'[u] = stored[u] /\ base'[u] = base[u]
  BY <1>1 DEF TypeOK, LetGo
<1>4. pc'[t] = "idle" /\ stored'[t] = {}
  BY <1>1 DEF TypeOK, LetGo
<1>5. TypeOK'
  BY <1>1, <1>2, LetGoType DEF TypeOK, States
<1>6. \A u \in Threads : pc[u] = "held" => u = t
  BY <1>1 DEF MutualExclusion
<1>7. MutualExclusion' /\ OnlyHoldersStore' /\ UpgradeKeepsView'
  BY <1>2, <1>3, <1>4, <1>6 DEF MutualExclusion, OnlyHoldersStore, UpgradeKeepsView
<1>8. AgeIsDistance' /\ SnapshotRead'
  BY <1>1, <1>2, <1>3, <1>4 DEF AgeIsDistance, SnapshotRead, Tracked
<1>9. YoungIsCurrent' /\ YoungIsWhole' /\ FreeIsCommitted' /\ ObsoleteIsFree'
  BY <1>1, <1>2 DEF YoungIsCurrent, YoungIsWhole, FreeIsCommitted, ObsoleteIsFree
<1>10. QED
  BY <1>5, <1>7, <1>8, <1>9

-----------------------------------------------------------------------------

\* Every step of the latch preserves the invariant.
LEMMA NextIInv == IInv /\ [Next]_vars => IInv'
<1> SUFFICES ASSUME IInv, [Next]_vars PROVE IInv'
  OBVIOUS
<1>1. CASE Next
  BY <1>1, ReadVersionIInv, LoadIInv, ValidateIInv, ForgetIInv, TryUpgradeIInv,
     StartLockIInv, LockLoadIInv, LockCasIInv, StoreIInv, UnlockIInv, DropIInv,
     MarkObsoleteIInv DEF Next
<1>2. CASE UNCHANGED vars
  BY <1>2 DEF vars, IInv, TypeOK, MutualExclusion, FreeIsCommitted, AgeIsDistance,
     YoungIsCurrent, YoungIsWhole, OnlyHoldersStore, ObsoleteIsFree,
     SnapshotRead, UpgradeKeepsView
<1>3. QED
  BY <1>1, <1>2

\* The inductive invariant holds of every behaviour of the latch.
THEOREM Invariance == Spec => []IInv
BY InitIInv, NextIInv, PTL DEF Spec

\* Every behaviour keeps the latch word, the fields and the threads' local
\* state within their types, the wrapped version included.
THEOREM TypeCorrect == Spec => []TypeOK
<1>1. IInv => TypeOK
  BY DEF IInv
<1>2. QED
  BY <1>1, Invariance, PTL

\* WriteGuards exclude each other, and the lock bit of latch.rs is set exactly
\* while one exists.
THEOREM MutexCorrect == Spec => []MutualExclusion
<1>1. IInv => MutualExclusion
  BY DEF IInv
<1>2. QED
  BY <1>1, Invariance, PTL

\* A read between read_version and a successful validate is a snapshot of one
\* committed state, for any number of fields, loads and writers.
THEOREM SnapshotCorrect == Spec => []SnapshotRead
<1>1. IInv => SnapshotRead
  BY DEF IInv
<1>2. QED
  BY <1>1, Invariance, PTL

\* A successful try_upgrade confirms everything read at its version.
THEOREM UpgradeCorrect == Spec => []UpgradeKeepsView
<1>1. IInv => UpgradeKeepsView
  BY DEF IInv
<1>2. QED
  BY <1>1, Invariance, PTL

\* Once obsolete, a node's latch word and fields never change (Inv 7).
THEOREM ObsoleteCorrect == Spec => ObsoleteIsFinal
<1>1. IInv /\ [Next]_vars => [word.obsolete => UNCHANGED <<word, payload>>]_vars
  <2> SUFFICES ASSUME IInv, Next, word.obsolete
               PROVE  UNCHANGED <<word, payload>>
    OBVIOUS
  <2>1. \A t \in Threads : pc[t] # "held"
    BY DEF IInv, ObsoleteIsFree, MutualExclusion
  <2>2. \A v : word # Clean(v)
    BY CleanWord
  <2>3. PICK t \in Threads :
          \/ ReadVersion(t)
          \/ \E f \in Fields : Load(t, f)
          \/ Validate(t)
          \/ Forget(t)
          \/ TryUpgrade(t)
          \/ StartLock(t)
          \/ LockLoad(t)
          \/ LockCas(t)
          \/ \E f \in Fields, x \in Values : Store(t, f, x)
          \/ Unlock(t)
          \/ Drop(t)
          \/ MarkObsolete(t)
    BY DEF Next
  <2>4. QED
    BY <2>1, <2>2, <2>3 DEF ReadVersion, Load, Validate, Forget, TryUpgrade,
       StartLock, LockLoad, LockCas, Store, Unlock, Drop, MarkObsolete
<1>2. QED
  BY <1>1, Invariance, PTL DEF Spec, ObsoleteIsFinal
=============================================================================
