---------------------------- MODULE StaticCache ----------------------------
(***************************************************************************)
(* The in-memory LRU cache of origin responses (internal/static/cache.go)  *)
(* as operators on a record of its three fields.  Every operation holds    *)
(* the mutex from its first to its last access, so each is one step of the *)
(* proxy.                                                                  *)
(***************************************************************************)
EXTENDS Integers, Sequences, FiniteSetsExt, Functions

CONSTANT MaxBytes   \* the budget, in units of size

ASSUME MaxBytesAssumption == MaxBytes \in Nat

NewCache == [order |-> <<>>, items |-> <<>>, bytes |-> 0]

Has(c, k) == k \in DOMAIN c.items

\* list.Remove(): the order without the element of k.
Without(order, k) ==
  LET i == CHOOSE i \in DOMAIN order : order[i] = k
  IN SubSeq(order, 1, i - 1) \o SubSeq(order, i + 1, Len(order))

\* drop() for an element of the list: out of the order, the index and the count.
Drop(c, k) ==
  [order |-> Without(c.order, k),
   items |-> Restrict(c.items, DOMAIN c.items \ {k}),
   bytes |-> c.bytes - c.items[k].size]

\* touch(): moved to the front when present, expired or not.
Touch(c, k) ==
  IF Has(c, k)
  THEN [order |-> <<k>> \o Without(c.order, k), items |-> c.items, bytes |-> c.bytes]
  ELSE c

\* The d least recently used keys.
Back(c, d) == {c.order[i] : i \in (Len(c.order) - d + 1)..Len(c.order)}

\* The bytes that the entries under the keys S occupy.
SizeOf(items, S) == MapThenSumSet(LAMBDA k : items[k].size, S)

\* The loop of put(): how many elements leave from the back until the count
\* fits, or until none is left.
Excess(c) ==
  LET enough == {d \in 0..Len(c.order) : c.bytes - SizeOf(c.items, Back(c, d)) <= MaxBytes}
  IN IF enough = {} THEN Len(c.order) ELSE Min(enough)

Evict(c) ==
  LET n == Excess(c) IN
  [order |-> SubSeq(c.order, 1, Len(c.order) - n),
   items |-> Restrict(c.items, DOMAIN c.items \ Back(c, n)),
   bytes |-> c.bytes - SizeOf(c.items, Back(c, n))]

PushFront(c, k, e) ==
  [order |-> <<k>> \o c.order,
   items |-> [x \in DOMAIN c.items \cup {k} |-> IF x = k THEN e ELSE c.items[x]],
   bytes |-> c.bytes + e.size]

\* Faulty variant of Put: the entry it replaces leaves the index but not the count.
PutLeaksReplaced(c, k, e) ==
  IF e.size > MaxBytes THEN c
  ELSE Evict(PushFront(IF Has(c, k) THEN [Drop(c, k) EXCEPT !.bytes = c.bytes] ELSE c, k, e))

Put(c, k, e) ==
  IF e.size > MaxBytes THEN c
  ELSE Evict(PushFront(IF Has(c, k) THEN Drop(c, k) ELSE c, k, e))

\* What the three fields say of each other: the order lists the indexed keys
\* once, the count is the size of what is indexed, and it is within the budget.
Consistent(c) ==
  /\ Len(c.order) = Cardinality(DOMAIN c.items)
  /\ {c.order[i] : i \in DOMAIN c.order} = DOMAIN c.items
  /\ c.bytes = SizeOf(c.items, DOMAIN c.items)
  /\ c.bytes <= MaxBytes

\* The inductive form of Consistent: an order without repetitions, and a count
\* that also holds between the steps of put(), when it may exceed the budget.
Lists(order, keys) ==
  order \in Seq(keys) /\ IsInjective(order) /\ \A k \in keys : \E i \in DOMAIN order : order[i] = k
Tallied(c) ==
  /\ IsFiniteSet(DOMAIN c.items) /\ \A k \in DOMAIN c.items : c.items[k].size \in Nat
  /\ Lists(c.order, DOMAIN c.items)
  /\ c.bytes = SizeOf(c.items, DOMAIN c.items)
Sound(c) == Tallied(c) /\ c.bytes <= MaxBytes

=============================================================================
