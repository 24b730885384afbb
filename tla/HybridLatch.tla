----------------------------- MODULE HybridLatch -----------------------------
(***************************************************************************)
(* The optimistic version latch of src/src/latch.rs: a sequence lock whose *)
(* word holds a version, a lock bit and an obsolete bit, used by optimistic*)
(* readers, by writers that upgrade a read, and by writers that block.     *)
(*                                                                         *)
(* The latch protects the fields of one node.  Their loads and stores are  *)
(* separate steps, performed in any order between the fences that confine  *)
(* them: a writer's stores happen after its lock bit is visible (W1) and   *)
(* before the releasing store (W4), a reader's loads after its version     *)
(* load (R1) and before its validating load (R5).                          *)
(*                                                                         *)
(* The version counter wraps (wrapping_add).  It has VersionMod values     *)
(* here, 2^62 in the code; the one assumption made about time is that no   *)
(* snapshot is used after a whole turn of the counter (see NoFullTurn).    *)
(***************************************************************************)
EXTENDS Integers

CONSTANTS
  Threads,     \* the threads that share the latch
  Fields,      \* the fields of the node it protects
  Values,      \* what a field can hold
  Unread,      \* marks a field that a reader has not loaded
  VersionMod   \* number of distinct versions before the counter wraps

ASSUME VersionModAssumption == VersionMod \in Nat /\ VersionMod >= 2
ASSUME UnreadAssumption == Unread \notin Values

VARIABLES
  word,      \* the latch word: version, lock bit, obsolete bit
  payload,   \* the protected fields
  pc,        \* where each thread is
  snap,      \* the version a thread read, cached or is about to compare with
  view,      \* the field values a thread has loaded since it took its snapshot
  stored,    \* the fields a holder has stored in its critical section
  committed, \* history: the payload at the last release of the latch
  base,      \* history: `committed' when the thread took its snapshot
  age        \* history: releases since the thread took its snapshot

vars == <<word, payload, pc, snap, view, stored, committed, base, age>>

Versions == 0 .. VersionMod - 1

\* idle: no snapshot and no guard.  read: between read_version and validate.
\* valid: validated.  cached: keeps the version its own unlock returned.
\* wait: in the loop of lock().  cas: about to compare-exchange in that loop.
\* held: owns a WriteGuard.
States == {"idle", "read", "valid", "cached", "wait", "cas", "held"}

\* The states whose snapshot is still meant to be validated or upgraded.
Tracked == {"read", "valid", "cached"}

Nothing == [f \in Fields |-> Unread]

\* The word a reader accepts: version v, unlocked and not obsolete.
Clean(v) == [ver |-> v, lock |-> FALSE, obsolete |-> FALSE]

\* latch.rs: wrapping_add(VERSION_STEP) on the version bits.
Bump(v) == IF v = VersionMod - 1 THEN 0 ELSE v + 1

\* The values the latch word, the fields and the threads' locals can take: the
\* version stays within its bits, however often unlock adds to it.
TypeOK ==
  /\ word \in [ver : Versions, lock : BOOLEAN, obsolete : BOOLEAN]
  /\ payload \in [Fields -> Values]
  /\ pc \in [Threads -> States]
  /\ snap \in [Threads -> Versions]
  /\ view \in [Threads -> [Fields -> Values \cup {Unread}]]
  /\ stored \in [Threads -> SUBSET Fields]
  /\ committed \in [Fields -> Values]
  /\ base \in [Threads -> [Fields -> Values \cup {Unread}]]
  /\ age \in [Threads -> Versions]

\* HybridLatch::new: version 0, unlocked, live.
Init ==
  /\ word = Clean(0)
  /\ payload \in [Fields -> Values]
  /\ pc = [t \in Threads |-> "idle"]
  /\ snap = [t \in Threads |-> 0]
  /\ view = [t \in Threads |-> Nothing]
  /\ stored = [t \in Threads |-> {}]
  /\ committed = payload
  /\ base = [t \in Threads |-> Nothing]
  /\ age = [t \in Threads |-> 0]

\* t goes to state `at' without a snapshot; `age' is the action's own.
LetGo(t, at) ==
  /\ pc' = [pc EXCEPT ![t] = at]
  /\ snap' = [snap EXCEPT ![t] = 0]
  /\ view' = [view EXCEPT ![t] = Nothing]
  /\ stored' = [stored EXCEPT ![t] = {}]
  /\ base' = [base EXCEPT ![t] = Nothing]

-----------------------------------------------------------------------------
(* Readers *)

\* read_version: Some(v) only if neither bit is set.  A reader that gets None
\* changes nothing and tries again.
ReadVersion(t) ==
  /\ pc[t] = "idle"
  /\ ~word.lock /\ ~word.obsolete
  /\ pc' = [pc EXCEPT ![t] = "read"]
  /\ snap' = [snap EXCEPT ![t] = word.ver]
  /\ view' = [view EXCEPT ![t] = Nothing]
  /\ base' = [base EXCEPT ![t] = committed]
  /\ age' = [age EXCEPT ![t] = 0]
  /\ UNCHANGED <<word, payload, stored, committed>>

\* An optimistic load of one field, in any order with the others.
Load(t, f) ==
  /\ pc[t] = "read"
  /\ view[t][f] = Unread
  /\ view' = [view EXCEPT ![t][f] = payload[f]]
  /\ UNCHANGED <<word, payload, pc, snap, stored, committed, base, age>>

\* validate(v), where a failure sends the caller back to its start.
Validate(t) ==
  /\ pc[t] = "read"
  /\ IF word = Clean(snap[t])
     THEN /\ pc' = [pc EXCEPT ![t] = "valid"]
          /\ UNCHANGED <<snap, view, stored, base, age>>
     ELSE LetGo(t, "idle") /\ age' = [age EXCEPT ![t] = 0]
  /\ UNCHANGED <<word, payload, committed>>

\* A reader concludes, or an inserter gives up its cached version.
Forget(t) ==
  /\ pc[t] \in {"valid", "cached"}
  /\ LetGo(t, "idle")
  /\ age' = [age EXCEPT ![t] = 0]
  /\ UNCHANGED <<word, payload, committed>>

-----------------------------------------------------------------------------
(* Writers *)

TryUpgradeAnyVersion(t) ==                              \* mutant
  /\ pc[t] \in Tracked
  /\ word = Clean(word.ver)
  /\ word' = [word EXCEPT !.lock = TRUE]
  /\ pc' = [pc EXCEPT ![t] = "held"]
  /\ snap' = [snap EXCEPT ![t] = 0]
  /\ base' = [base EXCEPT ![t] = Nothing]
  /\ age' = [age EXCEPT ![t] = 0]
  /\ UNCHANGED <<payload, view, stored, committed>>

\* try_upgrade(v): one compare-exchange from v to v with the lock bit.
TryUpgrade(t) ==
  /\ pc[t] \in Tracked
  /\ IF word = Clean(snap[t])
     THEN /\ word' = [word EXCEPT !.lock = TRUE]
          /\ pc' = [pc EXCEPT ![t] = "held"]
          /\ snap' = [snap EXCEPT ![t] = 0]
          /\ base' = [base EXCEPT ![t] = Nothing]
          /\ UNCHANGED <<view, stored>>
     ELSE LetGo(t, "idle") /\ UNCHANGED word
  /\ age' = [age EXCEPT ![t] = 0]
  /\ UNCHANGED <<payload, committed>>

StartLock(t) ==
  /\ pc[t] = "idle"
  /\ pc' = [pc EXCEPT ![t] = "wait"]
  /\ UNCHANGED <<word, payload, snap, view, stored, committed, base, age>>

\* One load of the lock() loop: None once obsolete, else try the version
\* found; while the lock bit is set the loop only spins.
LockLoad(t) ==
  /\ pc[t] = "wait"
  /\ \/ /\ word.obsolete
        /\ pc' = [pc EXCEPT ![t] = "idle"]
        /\ UNCHANGED snap
     \/ /\ ~word.obsolete /\ ~word.lock
        /\ pc' = [pc EXCEPT ![t] = "cas"]
        /\ snap' = [snap EXCEPT ![t] = word.ver]
  /\ UNCHANGED <<word, payload, view, stored, committed, base, age>>

LockCasBlind(t) ==                                      \* mutant
  /\ pc[t] = "cas"
  /\ LetGo(t, "held") /\ word' = [word EXCEPT !.lock = TRUE]
  /\ UNCHANGED <<payload, committed, age>>

LockCasNoReload(t) ==                                   \* mutant
  /\ pc[t] = "cas"
  /\ IF word = Clean(snap[t])
     THEN LetGo(t, "held") /\ word' = [word EXCEPT !.lock = TRUE]
     ELSE UNCHANGED <<word, pc, snap, view, stored, base>>
  /\ UNCHANGED <<payload, committed, age>>

\* The compare-exchange of the lock() loop; a failure spins.
LockCas(t) ==
  /\ pc[t] = "cas"
  /\ IF word = Clean(snap[t])
     THEN LetGo(t, "held") /\ word' = [word EXCEPT !.lock = TRUE]
     ELSE LetGo(t, "wait") /\ UNCHANGED word
  /\ UNCHANGED <<payload, committed, age>>

\* A store to one field under the latch, in any order with the others.
Store(t, f, x) ==
  /\ pc[t] = "held"
  /\ f \notin stored[t]
  /\ payload' = [payload EXCEPT ![f] = x]
  /\ stored' = [stored EXCEPT ![t] = @ \cup {f}]
  /\ UNCHANGED <<word, pc, snap, view, committed, base, age>>

\* The assumption on time: nobody still means to use a snapshot that would
\* then be a whole turn of the version counter old.
NoFullTurn(t) ==
  \A u \in Threads \ {t} : pc[u] \in Tracked => age[u] + 1 < VersionMod

ReleasedSameVersion(w) == Clean(w.ver)                  \* mutant

\* The word after a release: the next version, both bits clear.
Released(w) == [ver |-> Bump(w.ver), lock |-> FALSE, obsolete |-> FALSE]

\* History of a release by t: every other snapshot is one release older.
Older(t) ==
  [u \in Threads |->
     IF u = t THEN 0 ELSE IF pc[u] \in Tracked THEN age[u] + 1 ELSE age[u]]

\* WriteGuard::unlock: the caller keeps the version it returns.
Unlock(t) ==
  /\ pc[t] = "held"
  /\ NoFullTurn(t)
  /\ word' = Released(word)
  /\ pc' = [pc EXCEPT ![t] = "cached"]
  /\ snap' = [snap EXCEPT ![t] = word'.ver]
  /\ view' = [view EXCEPT ![t] = payload]
  /\ committed' = payload
  /\ base' = [base EXCEPT ![t] = payload]
  /\ stored' = [stored EXCEPT ![t] = {}]
  /\ age' = Older(t)
  /\ UNCHANGED payload

\* Drop of a WriteGuard: at the end of a commit, on a failed re-check, or
\* while a prepare phase unwinds.
Drop(t) ==
  /\ pc[t] = "held"
  /\ NoFullTurn(t)
  /\ word' = Released(word)
  /\ LetGo(t, "idle")
  /\ committed' = payload
  /\ age' = Older(t)
  /\ UNCHANGED payload

MarkObsoleteKeepsGuard(t) ==                            \* mutant
  /\ pc[t] = "held"
  /\ word' = [word EXCEPT !.lock = FALSE, !.obsolete = TRUE]
  /\ committed' = payload
  /\ UNCHANGED <<payload, pc, snap, view, stored, base, age>>

\* WriteGuard::mark_obsolete: the lock bit is cleared, the version kept.
MarkObsolete(t) ==
  /\ pc[t] = "held"
  /\ word' = [word EXCEPT !.lock = FALSE, !.obsolete = TRUE]
  /\ LetGo(t, "idle")
  /\ committed' = payload
  /\ UNCHANGED <<payload, age>>

-----------------------------------------------------------------------------

Next ==
  \E t \in Threads :
    \/ ReadVersion(t)
    \/ \E f \in Fields : Load(t, f)
    \/ Validate(t)
    \/ Forget(t)
    \/ TryUpgrade(t)
    \/ StartLock(t)
    \/ LockLoad(t)
    \/ LockCas(t)
    \/ \E f \in Fields, x \in Values : Store(t, f, x)
    \/ Unlock(t)
    \/ Drop(t)
    \/ MarkObsolete(t)

Spec == Init /\ [][Next]_vars

\* A guard is always released (RAII), a spinning thread keeps spinning.
Fairness ==
  \A t \in Threads :
    /\ WF_vars(Unlock(t) \/ Drop(t) \/ MarkObsolete(t))
    /\ WF_vars(LockLoad(t))
    /\ WF_vars(LockCas(t))
    /\ WF_vars(Validate(t) \/ Forget(t))

FairSpec == Spec /\ Fairness

-----------------------------------------------------------------------------
(* Properties *)

\* At most one WriteGuard exists, and the lock bit is set exactly while one
\* does: a failed upgrade, a lost race in lock() or an unwinding Drop never
\* leaves the bit behind, and never leaves a guard without it.
MutualExclusion ==
  /\ \A t, u \in Threads : pc[t] = "held" /\ pc[u] = "held" => t = u
  /\ word.lock <=> \E t \in Threads : pc[t] = "held"

\* R1 + R5: all the fields a validated reader loaded, in whatever order and
\* however the writers' stores interleaved, belong to the one committed state
\* that was current when it read the version.
SnapshotRead ==
  \A t \in Threads : pc[t] = "valid" =>
    \A f \in Fields : view[t][f] \in {Unread, base[t][f]}

\* try_upgrade at a version makes true again, under the latch, everything
\* read at that version or left by the caller's own unlock: the prefix, the
\* children and the path the writer decided on are still the node's.
UpgradeKeepsView ==
  \A t \in Threads : pc[t] = "held" =>
    \A f \in Fields \ stored[t] : view[t][f] \in {Unread, payload[f]}

\* Inv 7: an obsolete node never changes again, is never locked again, and
\* its latch word never moves: no reader or writer still inside it can
\* validate, upgrade or block on it.
ObsoleteIsFinal ==
  [][word.obsolete => UNCHANGED <<word, payload>>]_vars

\* A blocking lock() returns (with the guard or, obsolete, without) once no
\* other thread holds the latch any more, whatever it was doing when it
\* released it.
LockReturns ==
  \A t \in Threads :
    <>[](\A u \in Threads \ {t} : pc[u] # "held")
      => (pc[t] \in {"wait", "cas"} ~> pc[t] \notin {"wait", "cas"})
=============================================================================
