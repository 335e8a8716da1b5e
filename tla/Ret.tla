-------------------------------- MODULE Ret --------------------------------
(***************************************************************************)
(* ret/*.go: how the answers of the gateways to one query are put          *)
(* together.  An answer holds items (uniqIds, customerIds, topics, infos   *)
(* of connections), in most results filed under keys (topics, customers,   *)
(* uniqIds); the results without keys are those with one key.  An entry    *)
(* <<g, k>> is what gateway g has under key k; a key may be missing.       *)
(*                                                                         *)
(* Go visits the gateways, and within an answer the keys, in any order.    *)
(***************************************************************************)
EXTENDS Integers, Sequences, FiniteSets

CONSTANTS
  Gateways, Keys, Items,
  MaxItems,   \* bound: the items of an entry
  CountBits   \* the width of a count, 32 in the code

ASSUME RetAssumption ==
  /\ IsFiniteSet(Gateways) /\ IsFiniteSet(Keys)
  /\ MaxItems \in Nat /\ CountBits \in Nat \ {0}

Entries == Gateways \X Keys
NoEntry == <<>>
Answers == UNION {[1..m -> Items] : m \in 0..MaxItems}

\* What the method called does with an entry: append it, append what is not
\* yet there, or assign it to its key.
Calls == {"append", "dedup", "assign"}

VARIABLES
  call,     \* what is called
  data,     \* the answers: a function from the entries there are to items
  todo,     \* the entries not yet done
  gateway,  \* the gateway the outer loop is at
  at, n,    \* the entry whose items are being looked at, and how many were
  ret,      \* the result: a list for each key
  found,    \* the keys of the result
  seen,     \* for each key, the items seen
  count     \* for each key, the sum of the counts

vars == <<call, data, todo, gateway, at, n, ret, found, seen, count>>

Of(k) == {e \in DOMAIN data : e[2] = k}
ItemsOf(s) == {s[i] : i \in DOMAIN s}
Distinct(s) == \A i, j \in DOMAIN s : i # j => s[i] # s[j]

\* A connection belongs to one gateway: what is filed by connection is never
\* in two entries of a key, and a uniqId is a key of one gateway only.
Possible(c, d) ==
  /\ c # "dedup" =>
       /\ \A e \in DOMAIN d : Distinct(d[e])
       /\ \A e, f \in DOMAIN d :
            e # f /\ e[2] = f[2] => ItemsOf(d[e]) \cap ItemsOf(d[f]) = {}
  /\ c = "assign" => \A e, f \in DOMAIN d : e # f => e[2] # f[2]

Init ==
  /\ call \in Calls
  /\ \E there \in SUBSET Entries : data \in [there -> Answers]
  /\ Possible(call, data)
  /\ todo = DOMAIN data /\ gateway \in Gateways /\ at = NoEntry /\ n = 0
  /\ ret = [k \in Keys |-> <<>>] /\ found = {}
  /\ seen = [k \in Keys |-> {}]
  /\ count = [k \in Keys |-> 0]

\* Mutated form: the sum keeps all its bits.
Wide(x) == x

\* A sum as a signed integer of CountBits bits.
Wrap(x) == ((x + 2^(CountBits - 1)) % 2^CountBits) - 2^(CountBits - 1)

\* The loops come to entry e: the answer of a gateway is finished first.
Reaches(e) ==
  /\ at = NoEntry /\ e \in todo
  /\ e[1] # gateway => \A f \in todo : f[1] # gateway
  /\ gateway' = e[1]
  /\ found' = found \cup {e[2]}

AppendEntry(e) ==
  /\ call = "append"
  /\ Reaches(e)
  /\ todo' = todo \ {e}
  /\ ret' = [ret EXCEPT ![e[2]] = @ \o data[e]]
  /\ count' = [count EXCEPT ![e[2]] = Wrap(@ + Len(data[e]))]
  /\ UNCHANGED <<call, data, at, n, seen>>

AssignEntry(e) ==
  /\ call = "assign"
  /\ Reaches(e)
  /\ todo' = todo \ {e}
  /\ ret' = [ret EXCEPT ![e[2]] = data[e]]
  /\ UNCHANGED <<call, data, at, n, seen, count>>

\* dedupAppend is called for entry e.
DedupBegins(e) ==
  /\ call = "dedup"
  /\ Reaches(e)
  /\ at' = e /\ n' = 0
  /\ UNCHANGED <<call, data, todo, ret, seen, count>>

\* Mutated form: all keys share one set of the items seen.
SeenUnderAnyKey(k, x) == \E other \in Keys : x \in seen[other]

SeenUnder(k, x) == x \in seen[k]

\* ... and looks at its next item.
DedupItem ==
  /\ at # NoEntry /\ n < Len(data[at])
  /\ LET k == at[2]
         x == data[at][n + 1]
     IN  IF SeenUnder(k, x)
         THEN UNCHANGED <<seen, ret>>
         ELSE /\ seen' = [seen EXCEPT ![k] = @ \cup {x}]
              /\ ret' = [ret EXCEPT ![k] = @ \o <<x>>]
  /\ n' = n + 1
  /\ UNCHANGED <<call, data, todo, gateway, at, found, count>>

DedupReturns ==
  /\ at # NoEntry /\ n = Len(data[at])
  /\ at' = NoEntry /\ n' = 0 /\ todo' = todo \ {at}
  /\ UNCHANGED <<call, data, gateway, ret, found, seen, count>>

Next ==
  \/ \E e \in todo : AppendEntry(e) \/ AssignEntry(e) \/ DedupBegins(e)
  \/ DedupItem \/ DedupReturns

Spec == Init /\ [][Next]_vars

-----------------------------------------------------------------------------
(* The methods that only look at the answers.                              *)

\* Has; the second value of Get is the same question about a key.
Has(k, x) == \E e \in Of(k) : \E i \in DOMAIN data[e] : data[e][i] = x

\* Len of what is filed by connection: no map is made, and every place of an
\* answer counts.
Places(E) == UNION {{e} \X DOMAIN data[e] : e \in E}
LenSum(k) == Cardinality(Places(Of(k)))

\* Mutated form: customers are counted like connections.
LenNotDeduped(k) == LenSum(k)

\* Len of the customers: the size of the map of those seen.
LenDedup(k) == Cardinality(UNION {ItemsOf(data[e]) : e \in Of(k)})

-----------------------------------------------------------------------------
TypeOK ==
  /\ call \in Calls /\ data \in [DOMAIN data -> Answers]
  /\ DOMAIN data \subseteq Entries /\ todo \subseteq DOMAIN data
  /\ gateway \in Gateways /\ at \in todo \cup {NoEntry} /\ n \in 0..MaxItems
  /\ ret \in [Keys -> Seq(Items)] /\ found \subseteq Keys
  /\ seen \in [Keys -> SUBSET Items]
  /\ count \in [Keys -> -(2^(CountBits - 1)) .. 2^(CountBits - 1) - 1]

\* The items of key k that the loops have come to.
Met(k) ==
  (UNION {ItemsOf(data[e]) : e \in Of(k) \ todo})
    \cup (IF at # NoEntry /\ at[2] = k THEN {data[at][i] : i \in 1..n} ELSE {})

\* In whatever order the gateways and the keys come, the result holds every
\* item that was come to once, and none else, under the right key.
MergedExactly ==
  /\ \A k \in Keys : Distinct(ret[k]) /\ ItemsOf(ret[k]) = Met(k)
  /\ found = {e[2] : e \in (DOMAIN data \ todo) \cup ({at} \ {NoEntry})}

\* The methods that do not merge agree with the merged result: Has finds what
\* is in it, Len is its length, and Count, a 32 bit sum of what each gateway
\* counts, is its length as long as that fits, and congruent to it if not.
ReadersAgree ==
  todo = {} => \A k \in Keys :
    /\ \A x \in Items : Has(k, x) <=> x \in ItemsOf(ret[k])
    /\ Len(ret[k]) = IF call = "dedup" THEN LenDedup(k) ELSE LenSum(k)
    /\ call = "append" =>
         /\ (Len(ret[k]) - count[k]) % 2^CountBits = 0
         /\ Len(ret[k]) < 2^(CountBits - 1) => count[k] = Len(ret[k])
=============================================================================
