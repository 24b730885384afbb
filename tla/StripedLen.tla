----------------------------- MODULE StripedLen -----------------------------
(***************************************************************************)
(* The live-key counter of a tree (Counter in src/src/raw/mod.rs): each    *)
(* thread adds to a stripe of its own, chosen at its first update, and     *)
(* len() adds the stripes up one after another.  A stripe is a signed      *)
(* machine word that wraps: a thread that only removes what others insert  *)
(* takes its stripe as far below zero as it likes.                         *)
(***************************************************************************)
EXTENDS Integers, FiniteSets, Functions

CONSTANTS
  Threads,   \* the threads that insert and remove
  STRIPES,   \* how many stripes there are
  Width,     \* bits of a stripe (isize)
  MaxLive,   \* bound: entries counted at a time
  MaxDuring  \* bound: updates during one call of len()

\* A word counts from -Half up to Half - 1.
Half == 2 ^ (Width - 1)

\* A map never holds as many entries as isize can count.
ASSUME StripeAssumption ==
  /\ IsFiniteSet(Threads)
  /\ STRIPES \in Nat \ {0} /\ MaxLive \in Nat /\ MaxDuring \in Nat
  /\ Half \in Nat \ {0} /\ MaxLive + MaxDuring < Half

VARIABLES
  stripes,   \* the words
  next,      \* NEXT: the thread-locals handed out so far, modulo STRIPES
  own,       \* STRIPE of each thread; -1 before its first use, -2 once destroyed
  call,      \* the update each thread is inside of
  live,      \* the entries that can be found in the map
  sum,       \* the thread inside len()
  during     \* history of that call: the totals it could have returned

vars == <<stripes, next, own, call, live, sum, during>>

Stripes == 0 .. STRIPES - 1

\* A word holds its value modulo 2^Width, from the lowest negative up.
Wrap(x) == ((x + Half) % (2 * Half)) - Half

\* An update: insert adds before its leaf can be found, a remove and a clear
\* subtract after theirs are gone.
NoCall == [do |-> "none", by |-> 0]

\* What is counted now, whatever the words hold: the entries, and what the
\* calls inside have added early or will take off late.
Pending == [t \in Threads |-> call[t].by]
Total == live + SumFunctionOnSet(Pending, Threads)

Quiet == \A t \in Threads : call[t] = NoCall

-----------------------------------------------------------------------------
(* Updates *)

\* stripe(): the thread's own, assigned round-robin at its first use; the
\* first one while its thread-locals are being destroyed.
MyStripe(t) == IF own[t] = -1 THEN next ELSE IF own[t] = -2 THEN 0 ELSE own[t]

\* len_add and Counter::add, an atomic fetch_add; nothing to do for 0.
AddSkipsTeardown(t, by) ==                              \* mutant
  /\ stripes' = IF by = 0 \/ own[t] = -2 THEN stripes
                ELSE [stripes EXCEPT ![MyStripe(t)] = Wrap(@ + by)]
  /\ own' = IF by # 0 /\ own[t] = -1 THEN [own EXCEPT ![t] = next] ELSE own
  /\ next' = IF by # 0 /\ own[t] = -1 THEN (next + 1) % STRIPES ELSE next
AddAnywhere(t, by) ==                                   \* mutant
  /\ stripes' = [stripes EXCEPT ![next] = Wrap(@ + by)]
  /\ next' = (next + 1) % STRIPES
  /\ UNCHANGED own
Add(t, by) ==
  /\ stripes' = IF by = 0 THEN stripes
                ELSE [stripes EXCEPT ![MyStripe(t)] = Wrap(@ + by)]
  /\ own' = IF by # 0 /\ own[t] = -1 THEN [own EXCEPT ![t] = next] ELSE own
  /\ next' = IF by # 0 /\ own[t] = -1 THEN (next + 1) % STRIPES ELSE next

\* History: an update by thread t changes what is counted by d while len() runs.
Noted(t, d) ==
  during' = IF sum.pc = "off" THEN during
            ELSE [during EXCEPT !.up = @ + (IF d > 0 THEN d ELSE 0),
                                !.down = @ + (IF d < 0 THEN -d ELSE 0),
                                !.by = IF d = 0 THEN @ ELSE @ \cup {t},
                                !.totals = @ \cup {Total'}]

Room == sum.pc = "off" \/ during.up + during.down < MaxDuring

\* An insert counts its leaf,
InsertAdd(t) ==
  /\ call[t] = NoCall /\ Room
  /\ Total < MaxLive
  /\ Add(t, 1)
  /\ call' = [call EXCEPT ![t] = [do |-> "added", by |-> 1]]
  /\ UNCHANGED <<live, sum>>
  /\ Noted(t, 1)

\* and then publishes it.
InsertPublish(t) ==
  /\ call[t].do = "added"
  /\ live' = live + 1
  /\ call' = [call EXCEPT ![t] = NoCall]
  /\ UNCHANGED <<stripes, next, own, sum, during>>

\* A remove takes one leaf, a clear all of them,
TakeLeaves(t, n) ==
  /\ call[t] = NoCall /\ n <= live
  /\ live' = live - n
  /\ call' = [call EXCEPT ![t] = [do |-> "taken", by |-> n]]
  /\ UNCHANGED <<stripes, next, own, sum, during>>

\* and then subtracts them.
TakenAdd(t) ==
  /\ call[t].do = "taken" /\ Room
  /\ Add(t, -call[t].by)
  /\ call' = [call EXCEPT ![t] = NoCall]
  /\ UNCHANGED <<live, sum>>
  /\ Noted(t, -call[t].by)

\* The thread ends: its thread-locals are destroyed, and what its other
\* destructors still do to the map goes to the first stripe.
Teardown(t) ==
  /\ own[t] \in Stripes
  /\ own' = [own EXCEPT ![t] = -2]
  /\ UNCHANGED <<stripes, next, call, live, sum, during>>

-----------------------------------------------------------------------------
(* len() *)

NoSum == [pc |-> "off", at |-> 0, acc |-> 0, alone |-> FALSE]
NoHistory == [up |-> 0, down |-> 0, by |-> {}, totals |-> {}, first |-> 0]

BeginSum ==
  /\ sum.pc = "off"
  /\ sum' = [NoSum EXCEPT !.pc = "sum", !.alone = Quiet]
  /\ during' = [NoHistory EXCEPT !.totals = {Total}, !.first = Total]
  /\ UNCHANGED <<stripes, next, own, call, live>>

\* Counter::sum adds the words up with wrap-around.
PlusUnsigned(acc, x) == acc + (x % 2 ^ Width)           \* mutant
Plus(acc, x) == Wrap(acc + x)

LoadStripe ==
  /\ sum.pc = "sum"
  /\ sum' = [sum EXCEPT !.acc = Plus(@, stripes[sum.at]), !.at = @ + 1,
                        !.pc = IF sum.at + 1 = STRIPES THEN "done" ELSE @]
  /\ UNCHANGED <<stripes, next, own, call, live, during>>

\* len(): clamped at zero.
LenUnclamped(acc) == acc                                \* mutant
Len(acc) == IF acc < 0 THEN 0 ELSE acc

EndSum ==
  /\ sum.pc = "done"
  /\ sum' = NoSum /\ during' = NoHistory
  /\ UNCHANGED <<stripes, next, own, call, live>>

-----------------------------------------------------------------------------

Init ==
  /\ stripes = [i \in Stripes |-> 0]
  /\ next \in Stripes
  /\ own = [t \in Threads |-> -1]
  /\ call = [t \in Threads |-> NoCall]
  /\ live = 0
  /\ sum = NoSum /\ during = NoHistory

Next ==
  \/ \E t \in Threads :
       \/ InsertAdd(t) \/ InsertPublish(t) \/ TakenAdd(t) \/ Teardown(t)
       \/ \E n \in 0 .. MaxLive : TakeLeaves(t, n)
  \/ BeginSum \/ LoadStripe \/ EndSum

Spec == Init /\ [][Next]_vars

-----------------------------------------------------------------------------
(* Properties *)

\* The words always add up, modulo 2^Width, to what has been counted, however
\* often a stripe has wrapped around, whoever shares it and whichever thread
\* has ended.
StripesAddUp == Wrap(SumFunctionOnSet(stripes, Stripes)) = Total

\* raw/mod.rs: the sum is exact when no update is in flight.
LenExact ==
  sum.pc = "done" /\ sum.alone /\ during.by = {} /\ Quiet => Len(sum.acc) = live

\* Updates on several threads can make len() low or high, but by no more than
\* those that overlapped it, and never negative.
LenWithin ==
  sum.pc = "done" =>
    /\ Len(sum.acc) \in Nat
    /\ Len(sum.acc) <= during.first + during.up
    /\ Len(sum.acc) >= during.first - during.down

\* As long as a single thread updates the map while len() runs, len() returns
\* what was counted at some moment of the call.
LenOneWriter ==
  sum.pc = "done" /\ Cardinality(during.by) <= 1 => Len(sum.acc) \in during.totals

\* len(), read stripe by stripe while other threads move them, never says
\* more or less than the updates that overlapped it explain.
LenHonest == LenExact /\ LenWithin /\ LenOneWriter

=============================================================================
