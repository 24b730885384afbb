----------------------------- MODULE NodeLayout -----------------------------
(***************************************************************************)
(* The four layouts of an inner node (src/src/raw/node.rs, simd.rs): keys  *)
(* and children in sorted arrays (Node4, Node16), children found through a *)
(* byte index (Node48), and direct (Node256), the last two with a bitmap   *)
(* for the ordered walk.                                                   *)
(*                                                                         *)
(* One writer changes the node under its latch, one store at a time; one   *)
(* reader searches it without a latch, one load at a time, and validates   *)
(* the version at the end.  Whatever the reader loads before that may mix  *)
(* the states between the stores, and the child it found may be followed   *)
(* before it is validated (R4).                                            *)
(***************************************************************************)
EXTENDS Integers, Sequences, FiniteSets, FiniteSetsExt

CONSTANTS
  Cap,         \* children that each layout holds
  TopByte,     \* the largest key byte, 255 in the code
  WordBits,    \* bits of a bitmap word, 64 in the code
  HalfKeys,    \* keys in the first of the two words of a Node16, 8 in the code
  NodePrefixes,    \* the prefixes in use, of at most MaxPrefix bytes
  MaxPrefix,   \* MAX_PREFIX_LEN
  MaxWrites,   \* how often the node is written
  Starts       \* the sets of bytes a node starts with

Bytes == 0 .. TopByte

Layouts == {"Node4", "Node16", "Node48", "Node256"}

ASSUME LayoutAssumption ==
  /\ Cap \in [Layouts -> Nat \ {0}] /\ TopByte \in Nat
  /\ Cap["Node4"] < Cap["Node16"] /\ Cap["Node16"] <= Cap["Node48"]
  /\ Cap["Node48"] < Cap["Node256"] /\ Cap["Node256"] = TopByte + 1
  /\ HalfKeys \in 1 .. Cap["Node16"] - 1 /\ WordBits \in 1 .. TopByte
  /\ MaxPrefix \in Nat /\ \A p \in NodePrefixes : p \in Seq(Bytes) /\ Len(p) <= MaxPrefix
  /\ MaxWrites \in Nat /\ Starts \subseteq SUBSET Bytes

VARIABLES
  node,     \* the fields of the node
  latch,    \* version and lock bit
  w,        \* the writer: the stores still to do, the child they take out, and
            \*   how many writes it did
  r,        \* the reader
  before,   \* history: the node as it was when it was last unlocked
  gone      \* history: the children taken out of the node so far, and before
            \*   the read at hand began

vars == <<node, latch, w, r, before, gone>>

Null == 0

Sorted(nd) == nd.layout \in {"Node4", "Node16"}
Slots(l) == 0 .. Cap[l] - 1

\* NODE48_EMPTY: no slot.
Empty == Cap["Node48"]

\* Node4::new, Node16::new, Node48::new and Node256::new.
NewNode(l) ==
  [layout |-> l, count |-> 0, prefixLen |-> 0, prefix |-> [i \in 1 .. MaxPrefix |-> 0],
   exact |-> Null,
   keys |-> [i \in Slots(l) |-> 0],
   children |-> [i \in Slots(l) |-> Null],
   index |-> [b \in Bytes |-> Empty],
   bitmap |-> [b \in Bytes |-> FALSE]]

\* num_children and prefix_len: a load, clamped (R2).
Clamp(n, most) == IF n < most THEN n ELSE most
NumChildren(nd) == Clamp(nd.count, Cap[nd.layout])
IsFull(nd) == NumChildren(nd) >= Cap[nd.layout]

-----------------------------------------------------------------------------
(* The stores of each write, in order *)

St(field, at, value) == [field |-> field, at |-> at, value |-> value]

\* The words that hold the keys of a sorted layout: one store each.
KeyWords(l) ==
  IF l = "Node4" THEN <<Slots(l)>>
  ELSE <<0 .. HalfKeys - 1, HalfKeys .. Cap[l] - 1>>

StoreKeys(nd, keys) ==
  LET ws == KeyWords(nd.layout)
  IN  [i \in DOMAIN ws |-> St("keys", ws[i], keys)]

\* The first index below count whose key is b: position, and the SIMD search
\* of a Node16, which compares all keys and masks those from count on.
Position(keys, count, b) ==
  LET at == {i \in 0 .. count - 1 : keys[i] = b} IN IF at = {} THEN -1 ELSE Min(at)

\* partition_point.
InsertPos(nd, b) == Cardinality({i \in 0 .. NumChildren(nd) - 1 : nd.keys[i] < b})

\* insert_child_raw for Node4 and Node16: children move up from the end.
InsertSortedUnmoved(nd, b, c) ==                        \* mutant
  LET pos == InsertPos(nd, b)
      keys == [i \in Slots(nd.layout) |->
                 IF i < pos THEN nd.keys[i] ELSE IF i = pos THEN b ELSE nd.keys[i - 1]]
  IN  StoreKeys(nd, keys) \o
      <<St("children", {pos}, c), St("count", {}, NumChildren(nd) + 1)>>
InsertSorted(nd, b, c) ==
  LET n == NumChildren(nd)
      pos == InsertPos(nd, b)
      move == [j \in 1 .. n - pos |-> St("children", {n - j + 1}, nd.children[n - j])]
      keys == [i \in Slots(nd.layout) |->
                 IF i < pos THEN nd.keys[i]
                 ELSE IF i = pos THEN b
                 ELSE IF i <= n THEN nd.keys[i - 1] ELSE nd.keys[i]]
  IN  move \o StoreKeys(nd, keys) \o
      <<St("children", {pos}, c), St("count", {}, n + 1)>>

\* The first null slot of a Node48.
FreeSlot(nd) == Min({i \in Slots(nd.layout) : nd.children[i] = Null})

\* insert_child_raw for Node48 and Node256.
InsertIndexed(nd, b, c) ==
  LET slot == IF nd.layout = "Node48" THEN FreeSlot(nd) ELSE b
      index == IF nd.layout = "Node48" THEN <<St("index", {b}, slot)>> ELSE <<>>
  IN  <<St("children", {slot}, c)>> \o index \o
      <<St("bitmap", {b}, TRUE), St("count", {}, NumChildren(nd) + 1)>>

InsertChild(nd, b, c) ==
  IF Sorted(nd) THEN InsertSorted(nd, b, c) ELSE InsertIndexed(nd, b, c)

\* Where replace_child and remove_child find the child of b; -1 if absent.
SlotOf(nd, b) ==
  CASE Sorted(nd) -> Position(nd.keys, NumChildren(nd), b)
    [] nd.layout = "Node48" -> IF nd.index[b] >= Empty THEN -1 ELSE nd.index[b]
    [] nd.layout = "Node256" -> IF nd.children[b] = Null THEN -1 ELSE b

ReplaceChild(nd, b, c) == <<St("children", {SlotOf(nd, b)}, c)>>

\* remove_child for Node4 and Node16: children move down, the last slot is
\* cleared.
RemoveSortedUnmoved(nd, b) ==                         \* mutant
  LET last == NumChildren(nd) - 1
      keys == [i \in Slots(nd.layout) |->
                 IF i < SlotOf(nd, b) THEN nd.keys[i]
                 ELSE IF i < last THEN nd.keys[i + 1] ELSE 0]
  IN  StoreKeys(nd, keys) \o <<St("count", {}, last)>>
RemoveSorted(nd, b) ==
  LET n == NumChildren(nd)
      pos == SlotOf(nd, b)
      move == [j \in 1 .. n - 1 - pos |-> St("children", {pos + j - 1}, nd.children[pos + j])]
      keys == [i \in Slots(nd.layout) |->
                 IF i < pos THEN nd.keys[i]
                 ELSE IF i < n - 1 THEN nd.keys[i + 1]
                 ELSE IF i = n - 1 THEN 0 ELSE nd.keys[i]]
  IN  move \o <<St("children", {n - 1}, Null)>> \o StoreKeys(nd, keys) \o
      <<St("count", {}, n - 1)>>

\* remove_child for Node48 and Node256.
RemoveIndexedKeepsChild(nd, b) ==                       \* mutant
  (IF nd.layout = "Node48" THEN <<St("index", {b}, Empty)>>
   ELSE <<St("children", {b}, Null)>>)
  \o <<St("bitmap", {b}, FALSE), St("count", {}, NumChildren(nd) - 1)>>
RemoveIndexed(nd, b) ==
  LET unlink == <<St("children", {SlotOf(nd, b)}, Null)>>
      clear == <<St("bitmap", {b}, FALSE)>>
  IN  (IF nd.layout = "Node48" THEN <<St("index", {b}, Empty)>> \o clear \o unlink
       ELSE unlink \o clear)
      \o <<St("count", {}, NumChildren(nd) - 1)>>

RemoveChild(nd, b) == IF Sorted(nd) THEN RemoveSorted(nd, b) ELSE RemoveIndexed(nd, b)

\* write_prefix: the words, padded with zeros, and then the length.
PrefixWords == <<1 .. (MaxPrefix + 1) \div 2, (MaxPrefix + 1) \div 2 + 1 .. MaxPrefix>>
WritePrefix(p) ==
  LET bytes == [i \in 1 .. MaxPrefix |-> IF i <= Len(p) THEN p[i] ELSE 0]
  IN  <<St("prefix", PrefixWords[1], bytes), St("prefix", PrefixWords[2], bytes),
        St("prefixLen", {}, Len(p))>>

\* One store: a word of keys or of the prefix, one slot, or a scalar field.
Word(f, s) == [i \in DOMAIN f |-> IF i \in s.at THEN s.value[i] ELSE f[i]]
Slot(f, s) == [i \in DOMAIN f |-> IF i \in s.at THEN s.value ELSE f[i]]
Apply(nd, s) ==
  CASE s.field = "keys" -> [nd EXCEPT !.keys = Word(@, s)]
    [] s.field = "prefix" -> [nd EXCEPT !.prefix = Word(@, s)]
    [] s.field = "children" -> [nd EXCEPT !.children = Slot(@, s)]
    [] s.field = "index" -> [nd EXCEPT !.index = Slot(@, s)]
    [] s.field = "bitmap" -> [nd EXCEPT !.bitmap = Slot(@, s)]
    [] s.field = "count" -> [nd EXCEPT !.count = s.value]
    [] s.field = "prefixLen" -> [nd EXCEPT !.prefixLen = s.value]
    [] s.field = "exact" -> [nd EXCEPT !.exact = s.value]

ApplyAll(nd, stores) ==
  LET after[i \in 0 .. Len(stores)] == IF i = 0 THEN nd ELSE Apply(after[i - 1], stores[i])
  IN  after[Len(stores)]

-----------------------------------------------------------------------------
(* The node as a map *)

\* The child at b, as find_child sees it.
Child(nd, b) ==
  LET s == SlotOf(nd, b) IN IF s = -1 THEN Null ELSE nd.children[s]

MapOf(nd) == [b \in Bytes |-> Child(nd, b)]

PrefixOf(nd) == SubSeq(nd.prefix, 1, Clamp(nd.prefixLen, MaxPrefix))

\* The bytes in use, ascending: what next_child enumerates.
InUse(nd) ==
  IF Sorted(nd) THEN {nd.keys[i] : i \in {j \in 0 .. NumChildren(nd) - 1 : nd.children[j] # Null}}
  ELSE {b \in Bytes : nd.bitmap[b] /\ Child(nd, b) # Null}

\* push_child_unpublished of the children of a map, one byte after another.
Push(nd, b, map) == IF map[b] = Null THEN nd ELSE ApplyAll(nd, InsertChild(nd, b, map[b]))
PushAll(nd, map) ==
  LET below[b \in 0 .. TopByte + 1] == IF b = 0 THEN nd ELSE Push(below[b - 1], b - 1, map)
  IN  below[TopByte + 1]

\* copy_into: prefix, exact leaf, and the children in order, into an
\* unpublished node of another layout.
Walked(nd) == [b \in Bytes |-> IF b \in InUse(nd) THEN Child(nd, b) ELSE Null]
NewPrefixed(l, p) == ApplyAll(NewNode(l), WritePrefix(p))
CopyIntoDropsExact(nd, l) == PushAll(NewPrefixed(l, PrefixOf(nd)), Walked(nd))   \* mutant
CopyInto(nd, l) ==
  PushAll([NewPrefixed(l, PrefixOf(nd)) EXCEPT !.exact = nd.exact], Walked(nd))

\* Taken: the byte of a child, the exact leaf, or nothing.
TakenExact == -1
TakenNothing == -2

\* NodeHeader::rest: what the node holds besides the entry taken, from the
\* count first and by a walk only if it must.
RestForgetsExact(nd, taken) ==                          \* mutant
  LET others == InUse(nd) \ {taken}
      left == NumChildren(nd) - (IF taken \in Bytes THEN 1 ELSE 0)
  IN  IF left >= 2 THEN "many" ELSE IF others = {} THEN "empty" ELSE "child"
Rest(nd, taken) ==
  LET hasExact == nd.exact # Null /\ taken # TakenExact
      left == NumChildren(nd) + (IF hasExact THEN 1 ELSE 0) - (IF taken \in Bytes THEN 1 ELSE 0)
      others == InUse(nd) \ {taken}
  IN  CASE left >= 2 -> "many"
        [] left < 2 /\ hasExact -> IF others = {} THEN "exact" ELSE "many"
        [] left < 2 /\ ~hasExact /\ others = {} -> "empty"
        [] OTHER -> IF Cardinality(others) = 1 THEN "child" ELSE "many"

-----------------------------------------------------------------------------
(* The writer *)

\* The child written by the next write.
NewChild == w.writes + 1

\* A write that the callers in write.rs, remove.rs and shrink.rs may ask for:
\* insert at a byte that is absent while there is room, replace and remove at
\* one that is present.
Writes ==
  LET absent == {b \in Bytes : Child(node, b) = Null /\ ~IsFull(node)}
      present == {b \in Bytes : Child(node, b) # Null}
      Write(stores, out) == [todo |-> stores, out |-> out, writes |-> w.writes + 1]
  IN  {Write(InsertChild(node, b, NewChild), Null) : b \in absent}
      \cup {Write(ReplaceChild(node, b, NewChild), Child(node, b)) : b \in present}
      \cup {Write(RemoveChild(node, b), Child(node, b)) : b \in present}
      \cup {Write(WritePrefix(p), Null) : p \in NodePrefixes \ {PrefixOf(node)}}
      \cup {Write(<<St("exact", {}, IF node.exact = Null THEN NewChild ELSE Null)>>, Null)}

\* The latch is taken; its holder decides what to store.
Lock ==
  /\ ~latch.lock /\ w.writes < MaxWrites
  /\ latch' = [latch EXCEPT !.lock = TRUE]
  /\ w' \in Writes
  /\ UNCHANGED <<node, r, before, gone>>

Store ==
  /\ w.todo # <<>>
  /\ node' = Apply(node, Head(w.todo))
  /\ w' = [w EXCEPT !.todo = Tail(@)]
  /\ UNCHANGED <<latch, r, before, gone>>

Unlock ==
  /\ latch.lock /\ w.todo = <<>>
  /\ latch' = [ver |-> latch.ver + 1, lock |-> FALSE]
  /\ before' = node
  /\ gone' = [gone EXCEPT !.sofar = @ \cup ({w.out} \ {Null})]
  /\ w' = [w EXCEPT !.out = Null]
  /\ UNCHANGED <<node, r>>

\* Growth and shrink_to_fit replace the node by a copy in another layout; a
\* reader of the old one restarts, and here it starts on the new one.
Copy ==
  /\ ~latch.lock /\ r.pc = "idle" /\ w.writes < MaxWrites
  /\ \E l \in Layouts \ {node.layout} :
       Cap[l] >= NumChildren(node) /\ node' = CopyInto(node, l)
  /\ before' = node'
  /\ w' = [w EXCEPT !.writes = @ + 1]
  /\ UNCHANGED <<latch, r, gone>>

-----------------------------------------------------------------------------
(* The reader *)

\* op: find, next, prev (of arg) or prefix.   pc: idle, then the field to load
\* next, then check, done.   from: where next and prev have got to; word: the
\* bits of the bitmap word just loaded; slots: slots still to be tried; res:
\* the byte and child found.
NoResult == [byte |-> -1, child |-> Null]
Idle ==
  [pc |-> "idle", op |-> "none", arg |-> 0, ver |-> 0, count |-> 0, words |-> 0,
   keys |-> <<>>, from |-> 0, slots |-> {}, byte |-> -1, res |-> NoResult, reads |-> 0]

\* The field that a search of the current layout loads first.
First(op) ==
  CASE op = "prefix" -> "prefixLen"
    [] op # "prefix" /\ Sorted(node) -> "count"
    [] op = "find" /\ node.layout = "Node48" -> "index"
    [] op = "find" /\ node.layout = "Node256" -> "children"
    [] OTHER -> "bitmap"

\* read_version, and a search.
BeginRead ==
  /\ r.pc = "idle" /\ r.reads = 0 /\ ~latch.lock
  /\ \E op \in {"find", "next", "prev", "prefix"}, arg \in Bytes :
       /\ op = "prefix" => arg = 0
       /\ r' = [Idle EXCEPT !.pc = First(op), !.op = op, !.arg = arg, !.from = arg,
                            !.byte = arg, !.ver = latch.ver, !.reads = 1,
                            !.slots = IF First(op) = "children" THEN {arg} ELSE {}]
  /\ gone' = [gone EXCEPT !.earlier = gone.sofar]
  /\ UNCHANGED <<node, latch, w, before>>

LoadCount ==
  /\ r.pc = "count"
  /\ r' = [r EXCEPT !.pc = "keys", !.count = NumChildren(node), !.keys = [i \in Slots(node.layout) |-> 0]]
  /\ UNCHANGED <<node, latch, w, before, gone>>

\* The slots of the loaded keys to try, and the one that is next.
Candidates(s) ==
  {i \in 0 .. s.count - 1 :
     CASE s.op = "find" -> i = Position(s.keys, s.count, s.arg)
       [] s.op = "next" -> s.keys[i] >= s.arg
       [] s.op = "prev" -> s.keys[i] <= s.arg}
NextSlot(s) == IF s.op = "prev" THEN Max(s.slots) ELSE Min(s.slots)

\* The keys, one word after another.
LoadKeys ==
  /\ r.pc = "keys"
  /\ LET ws == KeyWords(node.layout)
         i == r.words + 1
         s == [r EXCEPT !.words = i,
                 !.keys = [j \in DOMAIN @ |-> IF j \in ws[i] THEN node.keys[j] ELSE @[j]]]
         all == Candidates(s)
     IN  r' = IF i < Len(ws) THEN s
              ELSE [s EXCEPT !.pc = IF all = {} THEN "check" ELSE "children", !.slots = all]
  /\ UNCHANGED <<node, latch, w, before, gone>>

\* bitmap_next and bitmap_prev: one word, masked by where the walk has got to.
WordOf(b) == b \div WordBits
InWord(b) == {x \in Bytes : WordOf(x) = WordOf(b)}

BitsFromWordStart(s) == {b \in InWord(s.from) : node.bitmap[b]}  \* mutant
Bits(s) ==
  {b \in InWord(s.from) : node.bitmap[b] /\ (IF s.op = "next" THEN b >= s.from ELSE b <= s.from)}

LoadBitmap ==
  /\ r.pc = "bitmap"
  /\ LET bits == Bits(r)
         b == IF r.op = "next" THEN Min(bits) ELSE Max(bits)
         beyond == IF r.op = "next" THEN Max(InWord(r.from)) + 1 ELSE Min(InWord(r.from)) - 1
     IN  r' = IF bits # {}
              THEN [r EXCEPT !.byte = b, !.slots = {b},
                             !.pc = IF node.layout = "Node48" THEN "index" ELSE "children"]
              ELSE IF beyond \in Bytes THEN [r EXCEPT !.from = beyond]
              ELSE [r EXCEPT !.pc = "check"]
  /\ UNCHANGED <<node, latch, w, before, gone>>

\* Nothing at the byte at hand: next and prev go on past it.
SkipByte(s) ==
  LET on == IF s.op = "next" THEN s.byte + 1 ELSE s.byte - 1
  IN  IF s.op # "find" /\ on \in Bytes THEN [s EXCEPT !.pc = "bitmap", !.from = on, !.slots = {}]
      ELSE [s EXCEPT !.pc = "check", !.slots = {}]

LoadIndex ==
  /\ r.pc = "index"
  /\ LET slot == node.index[r.byte]
     IN  r' = IF slot >= Empty THEN SkipByte(r)
              ELSE [r EXCEPT !.pc = "children", !.slots = {slot}]
  /\ UNCHANGED <<node, latch, w, before, gone>>

\* A null slot is skipped (R6).
LoadChild ==
  /\ r.pc = "children"
  /\ LET i == NextSlot(r)
         c == node.children[i]
         b == IF Sorted(node) THEN r.keys[i] ELSE r.byte
     IN  r' = IF c # Null THEN [r EXCEPT !.pc = "check", !.res = [byte |-> b, child |-> c]]
              ELSE IF ~Sorted(node) THEN SkipByte(r)
              ELSE IF r.slots = {i} \/ r.op = "find" THEN [r EXCEPT !.pc = "check"]
              ELSE [r EXCEPT !.slots = @ \ {i}]
  /\ UNCHANGED <<node, latch, w, before, gone>>

\* load_prefix: the length, clamped, and then the words.
LoadPrefixLen ==
  /\ r.pc = "prefixLen"
  /\ LET n == Clamp(node.prefixLen, MaxPrefix)
     IN  r' = [r EXCEPT !.count = n, !.keys = [i \in 1 .. MaxPrefix |-> 0],
                        !.pc = IF n = 0 THEN "check" ELSE "prefix"]
  /\ UNCHANGED <<node, latch, w, before, gone>>

LoadPrefix ==
  /\ r.pc = "prefix"
  /\ LET i == r.words + 1
     IN  r' = [r EXCEPT !.words = i, !.pc = IF i = 2 THEN "check" ELSE @,
                 !.keys = [j \in DOMAIN @ |-> IF j \in PrefixWords[i] THEN node.prefix[j] ELSE @[j]]]
  /\ UNCHANGED <<node, latch, w, before, gone>>

\* R3: validate.  A read that is not valid is thrown away.
ValidAnyway(s) == TRUE                                  \* mutant
Valid(s) == latch = [ver |-> s.ver, lock |-> FALSE]

Validate ==
  /\ r.pc = "check"
  /\ r' = IF Valid(r) THEN [r EXCEPT !.pc = "done"] ELSE [Idle EXCEPT !.reads = 1]
  /\ UNCHANGED <<node, latch, w, before, gone>>

EndRead ==
  /\ r.pc = "done"
  /\ r' = [Idle EXCEPT !.reads = 1]
  /\ UNCHANGED <<node, latch, w, before, gone>>

-----------------------------------------------------------------------------
(* The specification *)

\* A node as it is published: built from its first children and a prefix.
Init ==
  /\ \E l \in Layouts, start \in Starts, p \in NodePrefixes :
       /\ Cardinality(start) <= Cap[l]
       /\ LET map == [b \in Bytes |-> IF b \in start THEN MaxWrites + 1 + b ELSE Null]
          IN  node = PushAll(NewPrefixed(l, p), map)
  /\ latch = [ver |-> 0, lock |-> FALSE]
  /\ w = [todo |-> <<>>, out |-> Null, writes |-> 0]
  /\ r = Idle
  /\ before = node
  /\ gone = [sofar |-> {}, earlier |-> {}]

Over == w.writes = MaxWrites /\ ~latch.lock /\ r.pc = "idle" /\ r.reads = 1 /\ UNCHANGED vars

Next ==
  \/ Lock \/ Store \/ Unlock \/ Copy
  \/ BeginRead \/ LoadCount \/ LoadKeys \/ LoadBitmap \/ LoadIndex \/ LoadChild
  \/ LoadPrefixLen \/ LoadPrefix \/ Validate \/ EndRead
  \/ Over

Spec == Init /\ [][Next]_vars

-----------------------------------------------------------------------------
(* Properties *)

\* When the node is not locked its fields agree with each other: count is the
\* number of children, keys ascend without duplicates, each index leads to a
\* slot of its own, bitmap, index and slots name the same bytes, and every
\* slot not in use is null, so that a Node48 below its capacity has a slot for
\* the next insert however many inserts and removes came before.
LayoutOK ==
  ~latch.lock =>
    LET n == node.count
        used == {i \in DOMAIN node.children : node.children[i] # Null}
        bits == {b \in Bytes : node.bitmap[b]}
        mapped == {b \in Bytes : node.index[b] # Empty}
    IN  /\ n = Cardinality(used) /\ n <= Cap[node.layout]
        /\ Sorted(node) =>
             used = 0 .. n - 1 /\ \A i \in 1 .. n - 1 : node.keys[i - 1] < node.keys[i]
        /\ node.layout = "Node48" =>
             /\ bits = mapped
             /\ used = {node.index[b] : b \in bits} /\ Cardinality(bits) = n
        /\ node.layout = "Node256" => bits = used

\* What the search at hand should find in the node as it was last unlocked.
Wanted ==
  LET map == MapOf(before)
      there == {b \in Bytes : map[b] # Null /\
                  CASE r.op = "find" -> b = r.arg
                    [] r.op = "next" -> b >= r.arg
                    [] OTHER -> b <= r.arg}
      b == IF r.op = "prev" THEN Max(there) ELSE Min(there)
  IN  IF there = {} THEN NoResult ELSE [byte |-> b, child |-> map[b]]

\* A validated find, next or prev is exact: the child at the byte, the first
\* at or after it, the last at or before it, or none, although the loads it
\* is made of happened one after another under a writer; and a validated
\* prefix is the node's prefix.
ReadExact ==
  [][r.pc = "check" /\ r'.pc = "done" =>
       IF r.op = "prefix" THEN SubSeq(r.keys, 1, r.count) = PrefixOf(before)
       ELSE r.res = Wanted]_vars

\* R4: a child that a search returns, valid or not, may be followed at once.
\* It is never one that had left the node before the search began, which may
\* be freed memory: the reader's pin protects only what was linked since.
NeverStaleChild == r.res.child \notin gone.earlier

\* What a remove and shrink_to_fit read from an unlocked node is exact: which
\* entry, if just one, would be left when one of them is taken out.
RestExact ==
  ~latch.lock =>
    \A taken \in {TakenExact, TakenNothing} \cup {b \in Bytes : Child(node, b) # Null} :
      LET entries == ({b \in Bytes : Child(node, b) # Null}
                        \cup (IF node.exact # Null THEN {TakenExact} ELSE {})) \ {taken}
      IN  Rest(node, taken) =
            (CASE entries = {} -> "empty"
               [] Cardinality(entries) > 1 -> "many"
               [] OTHER -> IF entries = {TakenExact} THEN "exact" ELSE "child")

\* A node that is not locked is one that every operation can start from: its
\* fields agree with each other, after any sequence of inserts, removes, grows
\* and shrinks, and the counts that a merge is decided on are exact.
LayoutSound == LayoutOK /\ RestExact

\* The layouts implement the map: whatever the order of the stores inside, a
\* write is one atomic step of NodeMap when the latch is released, and growth
\* and shrinking change nothing.
Abstract == INSTANCE NodeMap WITH
  Bytes <- Bytes, Null <- Null, NodePrefixes <- NodePrefixes,
  Pointers <- 1 .. MaxWrites + 1 + TopByte,
  map <- MapOf(before), exact <- before.exact, prefix <- PrefixOf(before), version <- latch.ver

ImplementsNodeMap == Abstract!NodeSpec

=============================================================================
