----------------------------- MODULE RetProofs -----------------------------
(***************************************************************************)
(* Proofs about Ret, for any number of gateways, keys and items, and       *)
(* answers of any length.                                                  *)
(***************************************************************************)
EXTENDS Ret, SequenceTheorems, FiniteSetTheorems, TLAPS

LEMMA AnswerIsSeq == \A s \in Answers : s \in Seq(Items)
BY DEF Answers

\* The items of two lists put together.
LEMMA ConcatItems ==
  ASSUME NEW s \in Seq(Items), NEW t \in Seq(Items)
  PROVE  /\ s \o t \in Seq(Items)
         /\ ItemsOf(s \o t) = ItemsOf(s) \cup ItemsOf(t)
         /\ Distinct(s) /\ Distinct(t) /\ ItemsOf(s) \cap ItemsOf(t) = {} =>
              Distinct(s \o t)
<1>1. /\ s \o t \in Seq(Items) /\ Len(s \o t) = Len(s) + Len(t)
      /\ Len(s) \in Nat /\ Len(t) \in Nat
      /\ DOMAIN s = 1..Len(s) /\ DOMAIN t = 1..Len(t)
      /\ DOMAIN (s \o t) = 1..Len(s) + Len(t)
  BY ConcatProperties, LenProperties
<1>2. /\ \A i \in 1..Len(s) : (s \o t)[i] = s[i]
      /\ \A i \in 1..Len(t) : (s \o t)[Len(s) + i] = t[i]
  BY <1>1, ConcatProperties
<1>3. \A i \in 1..Len(s) + Len(t) :
        i \in 1..Len(s) \/ \E j \in 1..Len(t) : i = Len(s) + j
  <2> SUFFICES ASSUME NEW i \in 1..Len(s) + Len(t), i \notin 1..Len(s)
               PROVE  i - Len(s) \in 1..Len(t) /\ i = Len(s) + (i - Len(s))
    OBVIOUS
  <2> QED BY <1>1
<1>4. ItemsOf(s \o t) = ItemsOf(s) \cup ItemsOf(t)
  <2>1. ASSUME NEW x \in ItemsOf(s \o t) PROVE x \in ItemsOf(s) \cup ItemsOf(t)
    BY <1>1, <1>2, <1>3, <2>1 DEF ItemsOf
  <2>2. ASSUME NEW x \in ItemsOf(s) PROVE x \in ItemsOf(s \o t)
    <3>1. PICK i \in 1..Len(s) : x = s[i] BY <1>1, <2>2 DEF ItemsOf
    <3>2. i \in 1..Len(s) + Len(t) BY <1>1
    <3> QED BY <1>1, <1>2, <3>1, <3>2 DEF ItemsOf
  <2>3. ASSUME NEW x \in ItemsOf(t) PROVE x \in ItemsOf(s \o t)
    <3>1. PICK i \in 1..Len(t) : x = t[i] BY <1>1, <2>3 DEF ItemsOf
    <3>2. Len(s) + i \in 1..Len(s) + Len(t) BY <1>1
    <3> QED BY <1>1, <1>2, <3>1, <3>2 DEF ItemsOf
  <2> QED BY <2>1, <2>2, <2>3
<1>5. ASSUME Distinct(s), Distinct(t), ItemsOf(s) \cap ItemsOf(t) = {}
      PROVE  Distinct(s \o t)
  <2> SUFFICES ASSUME NEW i \in 1..Len(s) + Len(t), NEW j \in 1..Len(s) + Len(t), i # j
               PROVE  (s \o t)[i] # (s \o t)[j]
    BY <1>1 DEF Distinct
  <2>1. \A k \in 1..Len(s), l \in 1..Len(t) : s[k] # t[l]
    BY <1>1, <1>5 DEF ItemsOf
  <2>2. CASE i \in 1..Len(s) /\ j \in 1..Len(s)
    BY <1>1, <1>2, <1>5, <2>2 DEF Distinct
  <2>3. CASE i \notin 1..Len(s) /\ j \notin 1..Len(s)
    <3> PICK k \in 1..Len(t), l \in 1..Len(t) : i = Len(s) + k /\ j = Len(s) + l
      BY <1>3, <2>3
    <3> QED BY <1>1, <1>2, <1>5 DEF Distinct
  <2>4. CASE i \in 1..Len(s) /\ j \notin 1..Len(s)
    <3> PICK l \in 1..Len(t) : j = Len(s) + l BY <1>3, <2>4
    <3> QED BY <1>2, <2>1, <2>4
  <2>5. CASE i \notin 1..Len(s) /\ j \in 1..Len(s)
    <3> PICK k \in 1..Len(t) : i = Len(s) + k BY <1>3, <2>5
    <3> QED BY <1>2, <2>1, <2>5
  <2> QED BY <2>2, <2>3, <2>4, <2>5
<1> QED BY <1>1, <1>4, <1>5

-----------------------------------------------------------------------------
\* Types, but for the counts.
Types ==
  /\ call \in Calls /\ data \in [DOMAIN data -> Answers]
  /\ DOMAIN data \subseteq Entries /\ todo \subseteq DOMAIN data
  /\ at \in todo \cup {NoEntry}
  /\ ret \in [Keys -> Seq(Items)] /\ seen \in [Keys -> SUBSET Items]

\* dedupAppend knows all items that are in the result, and is never past the
\* end of an answer.
Dedups ==
  /\ at # NoEntry => call = "dedup" /\ n \in 0..Len(data[at])
  /\ call = "dedup" => \A k \in Keys : seen[k] = ItemsOf(ret[k])

IInv == Types /\ Possible(call, data) /\ Dedups /\ MergedExactly

LEMMA EntryFacts ==
  ASSUME Types
  PROVE  /\ \A e \in DOMAIN data : e # NoEntry /\ e[2] \in Keys /\ data[e] \in Seq(Items)
         /\ \A e \in DOMAIN data, k \in Keys : e \in Of(k) <=> k = e[2]
<1>1. \A e \in Entries : e # NoEntry /\ e[2] \in Keys
  BY DEF Entries, NoEntry
<1> QED BY <1>1, AnswerIsSeq DEF Types, Of

LEMMA InitIInv == Init => IInv
<1> SUFFICES ASSUME Init PROVE IInv
  OBVIOUS
<1>1. <<>> \in Seq(Items) /\ ItemsOf(<<>>) = {} /\ Distinct(<<>>)
  BY EmptySeq DEF ItemsOf, Distinct
<1>2. PICK there \in SUBSET Entries : data \in [there -> Answers] BY DEF Init
<1>3. Types BY <1>1, <1>2 DEF Init, Types
<1>4. Dedups BY <1>1 DEF Init, Dedups
<1>5. \A k \in Keys : Met(k) = {} BY DEF Init, Met, Of
<1>6. MergedExactly BY <1>1, <1>5 DEF Init, MergedExactly
<1> QED BY <1>3, <1>4, <1>6 DEF Init, IInv

\* The entries merged, one more of which changes the items met of one key.
Past(k) == UNION {ItemsOf(data[e]) : e \in Of(k) \ todo}
Now(k) == IF at # NoEntry /\ at[2] = k THEN {data[at][i] : i \in 1..n} ELSE {}

LEMMA PastGrows ==
  ASSUME Types, NEW e \in todo, UNCHANGED data, todo' = todo \ {e}, NEW k \in Keys
  PROVE  Past(k)' = Past(k) \cup (IF k = e[2] THEN ItemsOf(data[e]) ELSE {})
<1>1. Of(k)' = Of(k) BY DEF Of
<1>2. e \in DOMAIN data BY DEF Types
<1>3. CASE k = e[2]
  <2>1. Of(k) \ todo' = (Of(k) \ todo) \cup {e} BY <1>2, <1>3, EntryFacts
  <2> QED BY <1>1, <1>3, <2>1 DEF Past, ItemsOf
<1>4. CASE k # e[2]
  <2>1. Of(k) \ todo' = Of(k) \ todo BY <1>2, <1>4, EntryFacts
  <2> QED BY <1>1, <1>4, <2>1 DEF Past, ItemsOf
<1> QED BY <1>3, <1>4

-----------------------------------------------------------------------------
LEMMA StepAppend ==
  ASSUME IInv, NEW e \in todo, AppendEntry(e)
  PROVE  IInv'
<1> USE DEF AppendEntry, Reaches
<1>0. Types /\ Possible(call, data) /\ Dedups /\ MergedExactly BY DEF IInv
<1>1. /\ e \in DOMAIN data /\ e[2] \in Keys /\ data[e] \in Seq(Items)
      /\ ret[e[2]] \in Seq(Items) /\ at = NoEntry
  BY <1>0, EntryFacts DEF Types
<1>2. ASSUME NEW k \in Keys
      PROVE  /\ Met(k)' = Met(k) \cup (IF k = e[2] THEN ItemsOf(data[e]) ELSE {})
             /\ Met(k) = Past(k)
  <2>1. Met(k) = Past(k) BY <1>1 DEF Met, Past
  <2>2. Met(k)' = Past(k)' BY <1>1 DEF Met, Past
  <2> QED BY <1>0, <2>1, <2>2, PastGrows
<1>3. Distinct(data[e]) /\ ItemsOf(data[e]) \cap Met(e[2]) = {}
  <2>1. ASSUME NEW f \in Of(e[2]) \ todo PROVE ItemsOf(data[e]) \cap ItemsOf(data[f]) = {}
    BY <1>0, <1>1, <2>1 DEF Of, Possible
  <2>2. Distinct(data[e]) BY <1>0, <1>1 DEF Possible
  <2>3. Met(e[2]) = Past(e[2]) BY <1>1, <1>2
  <2> QED BY <2>1, <2>2, <2>3 DEF Past
<1>4. /\ Distinct(ret[e[2]]) /\ ItemsOf(ret[e[2]]) = Met(e[2])
  BY <1>0, <1>1 DEF MergedExactly
<1>5. /\ ret[e[2]] \o data[e] \in Seq(Items)
      /\ ItemsOf(ret[e[2]] \o data[e]) = Met(e[2])'
      /\ Distinct(ret[e[2]] \o data[e])
  BY <1>1, <1>2, <1>3, <1>4, ConcatItems
<1>6. Types' BY <1>0, <1>1, <1>5 DEF Types
<1>7. Dedups' /\ Possible(call, data)' BY <1>0, <1>1 DEF Dedups
<1>8. MergedExactly'
  <2>1. ASSUME NEW k \in Keys PROVE Distinct(ret'[k]) /\ ItemsOf(ret'[k]) = Met(k)'
    <3>1. CASE k = e[2] BY <1>0, <1>5, <3>1 DEF Types
    <3>2. CASE k # e[2]
      BY <1>0, <1>2, <3>2 DEF Types, MergedExactly
    <3> QED BY <3>1, <3>2
  <2>2. found' = {f[2] : f \in (DOMAIN data \ todo') \cup ({at} \ {NoEntry})}
    BY <1>0, <1>1 DEF MergedExactly
  <2> QED BY <2>1, <2>2 DEF MergedExactly, Distinct, ItemsOf
<1> QED BY <1>6, <1>7, <1>8 DEF IInv

LEMMA StepAssign ==
  ASSUME IInv, NEW e \in todo, AssignEntry(e)
  PROVE  IInv'
<1> USE DEF AssignEntry, Reaches
<1>0. Types /\ Possible(call, data) /\ Dedups /\ MergedExactly BY DEF IInv
<1>1. /\ e \in DOMAIN data /\ e[2] \in Keys /\ data[e] \in Seq(Items) /\ at = NoEntry
  BY <1>0, EntryFacts DEF Types
<1>2. ASSUME NEW k \in Keys
      PROVE  Met(k)' = Met(k) \cup (IF k = e[2] THEN ItemsOf(data[e]) ELSE {})
  <2>1. Met(k) = Past(k) BY <1>1 DEF Met, Past
  <2>2. Met(k)' = Past(k)' BY <1>1 DEF Met, Past
  <2> QED BY <1>0, <2>1, <2>2, PastGrows
<1>3. Distinct(data[e]) /\ Met(e[2])' = ItemsOf(data[e])
  <2>1. Of(e[2]) \ todo = {} BY <1>0, <1>1 DEF Of, Possible
  <2>2. Met(e[2]) = {} BY <1>1, <2>1 DEF Met
  <2> QED BY <1>0, <1>1, <1>2, <2>2 DEF Possible
<1>4. Types' BY <1>0, <1>1 DEF Types
<1>5. Dedups' /\ Possible(call, data)' BY <1>0, <1>1 DEF Dedups
<1>6. MergedExactly'
  <2>1. ASSUME NEW k \in Keys PROVE Distinct(ret'[k]) /\ ItemsOf(ret'[k]) = Met(k)'
    <3>1. CASE k = e[2] BY <1>0, <1>3, <3>1 DEF Types
    <3>2. CASE k # e[2]
      BY <1>0, <1>2, <3>2 DEF Types, MergedExactly
    <3> QED BY <3>1, <3>2
  <2>2. found' = {f[2] : f \in (DOMAIN data \ todo') \cup ({at} \ {NoEntry})}
    BY <1>0, <1>1 DEF MergedExactly
  <2> QED BY <2>1, <2>2 DEF MergedExactly, Distinct, ItemsOf
<1> QED BY <1>4, <1>5, <1>6 DEF IInv

LEMMA StepBegins ==
  ASSUME IInv, NEW e \in todo, DedupBegins(e)
  PROVE  IInv'
<1> USE DEF DedupBegins, Reaches
<1>0. Types /\ Possible(call, data) /\ Dedups /\ MergedExactly BY DEF IInv
<1>1. /\ e \in DOMAIN data /\ e[2] \in Keys /\ data[e] \in Seq(Items) /\ at = NoEntry
  BY <1>0, EntryFacts DEF Types
<1>2. ASSUME NEW k \in Keys PROVE Met(k)' = Met(k)
  <2>1. Met(k) = Past(k) BY <1>1 DEF Met, Past
  <2>2. {data[e][i] : i \in 1..0} = {} OBVIOUS
  <2>3. Met(k)' = Past(k)' \cup {} BY <2>2 DEF Met, Past
  <2>4. Past(k)' = Past(k) BY DEF Past, Of, ItemsOf
  <2> QED BY <2>1, <2>3, <2>4
<1>3. Types' BY <1>0, <1>1 DEF Types
<1>4. Dedups' /\ Possible(call, data)' BY <1>0, <1>1, LenProperties DEF Dedups
<1>5. MergedExactly'
  <2>1. ASSUME NEW k \in Keys PROVE Distinct(ret'[k]) /\ ItemsOf(ret'[k]) = Met(k)'
    BY <1>0, <1>2 DEF MergedExactly
  <2>2. found' = {f[2] : f \in (DOMAIN data \ todo') \cup ({at'} \ {NoEntry})}
    BY <1>0, <1>1, EntryFacts DEF MergedExactly
  <2> QED BY <2>1, <2>2 DEF MergedExactly, Distinct, ItemsOf
<1> QED BY <1>3, <1>4, <1>5 DEF IInv

LEMMA StepItem ==
  ASSUME IInv, DedupItem
  PROVE  IInv'
<1> USE DEF DedupItem
<1> DEFINE k == at[2]
           x == data[at][n + 1]
<1>0. Types /\ Possible(call, data) /\ Dedups /\ MergedExactly BY DEF IInv
<1>1. /\ at \in DOMAIN data /\ k \in Keys /\ data[at] \in Seq(Items) /\ call = "dedup"
      /\ ret[k] \in Seq(Items) /\ seen[k] \in SUBSET Items
  BY <1>0, EntryFacts DEF Types, Dedups
<1>2. /\ Len(data[at]) \in Nat /\ n \in Nat /\ DOMAIN data[at] = 1..Len(data[at])
      /\ n' = n + 1 /\ n' \in 0..Len(data[at]) /\ n + 1 \in 1..Len(data[at])
      /\ 1..n + 1 = 1..n \cup {n + 1}
  BY <1>0, <1>1, LenProperties DEF Dedups
<1>3. x \in Items BY <1>1, <1>2, ElementOfSeq
<1>4. ASSUME NEW m \in Keys
      PROVE  Met(m)' = Met(m) \cup (IF m = k THEN {x} ELSE {})
  <2>1. Past(m)' = Past(m) BY DEF Past, Of, ItemsOf
  <2>2. Met(m) = Past(m) \cup Now(m) BY DEF Met, Past, Now
  <2>3. Met(m)' = Past(m)' \cup Now(m)' BY DEF Met, Past, Now
  <2>4. Now(m)' = Now(m) \cup (IF m = k THEN {x} ELSE {})
    BY <1>2 DEF Now
  <2> QED BY <2>1, <2>2, <2>3, <2>4
<1>5. /\ \A m \in Keys : /\ seen[m] = Met(m) /\ ItemsOf(ret[m]) = Met(m)
                        /\ Distinct(ret[m])
  BY <1>0, <1>1 DEF Dedups, MergedExactly
<1>6. found' = {f[2] : f \in (DOMAIN data \ todo') \cup ({at'} \ {NoEntry})}
  BY <1>0 DEF MergedExactly
<1>7. Possible(call, data)' BY <1>0
<1>8. CASE x \in seen[k]
  <2> UNCHANGED <<seen, ret>> BY <1>8 DEF SeenUnder
  <2>1. Types' /\ Dedups' BY <1>0, <1>1, <1>2 DEF Types, Dedups
  <2>2. ASSUME NEW m \in Keys PROVE Distinct(ret'[m]) /\ ItemsOf(ret'[m]) = Met(m)'
    <3>1. Met(m)' = Met(m)
      <4>1. CASE m = k
        <5>1. seen[m] = Met(m) BY <1>5
        <5>2. x \in Met(m) BY <1>8, <4>1, <5>1
        <5> QED BY <1>4, <5>2
      <4>2. CASE m # k BY <1>4, <4>2
      <4> QED BY <4>1, <4>2
    <3> QED BY <1>5, <3>1
  <2> QED BY <1>6, <1>7, <2>1, <2>2 DEF IInv, MergedExactly, Distinct, ItemsOf
<1>9. CASE x \notin seen[k]
  <2> DEFINE one == <<x>>
  <2>1. /\ seen' = [seen EXCEPT ![k] = @ \cup {x}]
        /\ ret' = [ret EXCEPT ![k] = @ \o one]
    BY <1>9 DEF SeenUnder
  <2>2. one \in Seq(Items) /\ ItemsOf(one) = {x} /\ Distinct(one)
    BY <1>3 DEF ItemsOf, Distinct
  <2>3. ItemsOf(ret[k]) \cap ItemsOf(one) = {} BY <1>1, <1>5, <1>9, <2>2
  <2> HIDE DEF one
  <2>4. /\ ret[k] \o one \in Seq(Items)
        /\ ItemsOf(ret[k] \o one) = ItemsOf(ret[k]) \cup {x}
        /\ Distinct(ret[k] \o one)
    BY <1>1, <1>5, <2>2, <2>3, ConcatItems
  <2>5. /\ ret' \in [Keys -> Seq(Items)] /\ ret'[k] = ret[k] \o one
        /\ \A m \in Keys \ {k} : ret'[m] = ret[m]
    BY <1>0, <1>1, <2>1, <2>4 DEF Types
  <2>6. /\ seen' \in [Keys -> SUBSET Items] /\ seen'[k] = seen[k] \cup {x}
        /\ \A m \in Keys \ {k} : seen'[m] = seen[m]
    BY <1>0, <1>1, <1>3, <2>1 DEF Types
  <2> HIDE DEF k, x
  <2>7. Types' BY <1>0, <2>5, <2>6 DEF Types
  <2>8. ASSUME NEW m \in Keys
        PROVE  /\ Distinct(ret'[m]) /\ ItemsOf(ret'[m]) = Met(m)'
               /\ seen'[m] = ItemsOf(ret'[m])
    <3>1. CASE m = k BY <1>4, <1>5, <2>4, <2>5, <2>6, <3>1
    <3>2. CASE m # k
      <4>1. ret'[m] = ret[m] /\ seen'[m] = seen[m] BY <2>5, <2>6, <3>2
      <4>2. Met(m)' = Met(m) BY <1>4, <3>2
      <4> QED BY <1>5, <4>1, <4>2
    <3> QED BY <3>1, <3>2
  <2>9. Dedups' BY <1>0, <1>1, <1>2, <2>8 DEF Dedups, ItemsOf
  <2> QED BY <1>6, <1>7, <2>7, <2>8, <2>9 DEF IInv, MergedExactly, Distinct, ItemsOf
<1> QED BY <1>8, <1>9

LEMMA StepReturns ==
  ASSUME IInv, DedupReturns
  PROVE  IInv'
<1> USE DEF DedupReturns
<1>0. Types /\ Possible(call, data) /\ Dedups /\ MergedExactly BY DEF IInv
<1>1. /\ at \in todo /\ at \in DOMAIN data /\ at # NoEntry /\ data[at] \in Seq(Items)
      /\ DOMAIN data[at] = 1..n
  BY <1>0, EntryFacts, LenProperties DEF Types
<1>2. ASSUME NEW k \in Keys PROVE Met(k)' = Met(k)
  <2>1. Met(k) = Past(k) \cup Now(k) BY DEF Met, Past, Now
  <2>2. Met(k)' = Past(k)' BY DEF Met, Past
  <2>3. Now(k) = IF k = at[2] THEN ItemsOf(data[at]) ELSE {}
    BY <1>1 DEF Now, ItemsOf
  <2> QED BY <1>0, <1>1, <2>1, <2>2, <2>3, PastGrows
<1>3. Types' BY <1>0, <1>1 DEF Types
<1>4. Dedups' /\ Possible(call, data)' BY <1>0 DEF Dedups, ItemsOf
<1>5. MergedExactly'
  <2>1. ASSUME NEW k \in Keys PROVE Distinct(ret'[k]) /\ ItemsOf(ret'[k]) = Met(k)'
    BY <1>0, <1>2 DEF MergedExactly
  <2>2. found' = {f[2] : f \in (DOMAIN data \ todo') \cup ({at'} \ {NoEntry})}
    BY <1>0, <1>1 DEF MergedExactly
  <2> QED BY <2>1, <2>2 DEF MergedExactly, Distinct, ItemsOf
<1> QED BY <1>3, <1>4, <1>5 DEF IInv

LEMMA Invariance == Spec => []IInv
<1>1. IInv /\ [Next]_vars => IInv'
  <2> SUFFICES ASSUME IInv, [Next]_vars PROVE IInv'
    OBVIOUS
  <2>1. ASSUME NEW e \in todo, AppendEntry(e) PROVE IInv' BY <2>1, StepAppend
  <2>2. ASSUME NEW e \in todo, AssignEntry(e) PROVE IInv' BY <2>2, StepAssign
  <2>3. ASSUME NEW e \in todo, DedupBegins(e) PROVE IInv' BY <2>3, StepBegins
  <2>4. CASE DedupItem BY <2>4, StepItem
  <2>5. CASE DedupReturns BY <2>5, StepReturns
  <2>6. CASE UNCHANGED vars
    <3> USE <2>6 DEF vars
    <3>1. Types' /\ Dedups' BY DEF IInv, Types, Dedups, ItemsOf
    <3>2. Possible(call, data)' BY DEF IInv
    <3>3. \A k \in Keys : Met(k)' = Met(k) BY DEF Met, Of, ItemsOf
    <3>4. MergedExactly' BY <3>3 DEF IInv, MergedExactly, Distinct, ItemsOf
    <3> QED BY <3>1, <3>2, <3>4 DEF IInv
  <2> QED BY <2>1, <2>2, <2>3, <2>4, <2>5, <2>6 DEF Next
<1> QED BY <1>1, InitIInv, PTL DEF Spec

-----------------------------------------------------------------------------
(* The sizes: what Len and Count return.                                   *)

\* The prover knows nothing of powers; that there are 2^b sets of b numbers
\* is a theorem of its library.
LEMMA PowerOfTwo ==
  ASSUME NEW b \in Nat
  PROVE  2^b \in Nat \ {0} /\ 2^(b + 1) = 2 * 2^b
<1> DEFINE with(T) == T \cup {b + 1}
           Old == SUBSET (1..b)
           New == {with(T) : T \in Old}
<1>1. /\ IsFiniteSet(1..b) /\ Cardinality(1..b) = b
      /\ IsFiniteSet(1..b + 1) /\ Cardinality(1..b + 1) = b + 1
  BY FS_Interval
<1>2. /\ IsFiniteSet(Old) /\ Cardinality(Old) = 2^b
      /\ Cardinality(SUBSET (1..b + 1)) = 2^(b + 1)
  BY <1>1, FS_SUBSET
<1>3. SUBSET (1..b + 1) = Old \cup New
  <2>1. 1..b + 1 = 1..b \cup {b + 1} OBVIOUS
  <2>2. ASSUME NEW T \in SUBSET (1..b + 1) PROVE T \in Old \cup New
    <3>1. CASE b + 1 \in T
      <4>1. T \ {b + 1} \in Old BY <2>1
      <4>2. T = with(T \ {b + 1}) BY <3>1
      <4> QED BY <4>1, <4>2
    <3>2. CASE b + 1 \notin T BY <2>1, <3>2
    <3> QED BY <3>1, <3>2
  <2>4. Old \cup New \subseteq SUBSET (1..b + 1)
    <3>1. ASSUME NEW U \in New PROVE U \in SUBSET (1..b + 1)
      <4>1. PICK T \in Old : U = T \cup {b + 1} OBVIOUS
      <4> QED BY <2>1, <4>1
    <3>2. ASSUME NEW T \in Old PROVE T \in SUBSET (1..b + 1) BY <2>1
    <3> HIDE DEF Old, New
    <3> QED BY <3>1, <3>2
  <2>5. SUBSET (1..b + 1) \subseteq Old \cup New BY <2>2
  <2> HIDE DEF Old, New
  <2> QED BY <2>4, <2>5
<1>4. Old \cap New = {}
  BY b + 1 \notin 1..b
<1>5. IsFiniteSet(New) /\ Cardinality(New) = Cardinality(Old)
  <2> DEFINE f == [T \in Old |-> with(T)]
  <2>1. f \in Bijection(Old, New)
    <3>1. f \in Surjection(Old, New) BY DEF Surjection
    <3>2. ASSUME NEW T \in Old, NEW U \in Old, f[T] = f[U] PROVE T = U
      <4>1. T \cup {b + 1} = U \cup {b + 1} BY <3>2
      <4>2. b + 1 \notin T /\ b + 1 \notin U OBVIOUS
      <4> QED BY <4>1, <4>2
    <3> QED BY <3>1, <3>2 DEF Bijection, Injection, IsInjective, Surjection
  <2>2. ExistsBijection(Old, New) BY <2>1 DEF ExistsBijection
  <2> QED BY <1>2, <2>2, FS_Bijection
<1> HIDE DEF Old, New
<1>6. Cardinality(Old \cup New) = Cardinality(Old) + Cardinality(New)
  <2>1. Cardinality(Old) \in Nat BY <1>2, FS_CardinalityType
  <2>2. Cardinality(Old \cap New) = 0 BY <1>4, FS_EmptySet
  <2>3. Cardinality(Old \cup New)
          = Cardinality(Old) + Cardinality(New) - Cardinality(Old \cap New)
    BY <1>2, <1>5, FS_Union
  <2> QED BY <1>5, <2>1, <2>2, <2>3
<1>7. Cardinality(Old) \in Nat \ {0}
  <2>1. {} \in Old BY DEF Old
  <2> QED BY <1>2, <2>1, FS_CardinalityType, FS_EmptySet
<1>8. 2^b = Cardinality(Old) BY <1>2
<1>9. 2^(b + 1) = Cardinality(Old) + Cardinality(Old)
  BY <1>2, <1>3, <1>5, <1>6
<1> HIDE <1>2, <1>3
<1>10. Cardinality(Old) + Cardinality(Old) = 2 * Cardinality(Old) BY <1>7
<1> QED BY <1>7, <1>8, <1>9, <1>10, Zenon

Half == 2^(CountBits - 1)

LEMMA HalfFacts == Half \in Nat \ {0} /\ 2^CountBits = 2 * Half
<1>1. CountBits - 1 \in Nat /\ (CountBits - 1) + 1 = CountBits BY RetAssumption
<1> QED BY <1>1, PowerOfTwo DEF Half

LEMMA DivisionFacts ==
  \A m \in Nat \ {0}, x \in Int :
    x % m \in 0 .. m - 1 /\ x = m * (x \div m) + (x % m) /\ x \div m \in Int
OBVIOUS

\* A wrapped sum is in range, and off by a multiple of 2^CountBits.
LEMMA WrapFacts ==
  ASSUME NEW x \in Int
  PROVE  /\ Wrap(x) \in -Half .. Half - 1
         /\ \E q \in Int : x = Wrap(x) + 2^CountBits * q
<1> DEFINE M == 2^CountBits
           y == x + Half
<1>1. Half \in Nat \ {0} /\ M = 2 * Half /\ M \in Nat \ {0} /\ y \in Int
  BY HalfFacts
<1>2. Wrap(x) = (y % M) - Half BY DEF Wrap, Half
<1> HIDE DEF M, y
<1>3. y % M \in 0 .. M - 1 /\ y = M * (y \div M) + (y % M) /\ y \div M \in Int
  BY <1>1, DivisionFacts
<1>4. Wrap(x) \in -Half .. Half - 1 BY <1>1, <1>2, <1>3
<1>5. x = Wrap(x) + M * (y \div M)
  <2> DEFINE p == M * (y \div M)
             r == y % M
  <2>1. x = y - Half BY <1>1 DEF y
  <2>2. p \in Int /\ r \in Int /\ y = p + r BY <1>1, <1>3
  <2>3. Wrap(x) = r - Half BY <1>2
  <2> HIDE DEF p, r
  <2>4. x = Wrap(x) + p BY <1>1, <2>1, <2>2, <2>3
  <2> QED BY <2>4 DEF p
<1> QED BY <1>3, <1>4, <1>5 DEF M

\* A list that repeats nothing is as long as it has items.
LEMMA DistinctLength ==
  ASSUME NEW s \in Seq(Items), Distinct(s)
  PROVE  Cardinality(ItemsOf(s)) = Len(s)
<1>1. Len(s) \in Nat /\ DOMAIN s = 1..Len(s) BY LenProperties
<1> DEFINE f == [i \in 1..Len(s) |-> s[i]]
<1>2. f \in Bijection(1..Len(s), ItemsOf(s))
  <2>1. f \in Surjection(1..Len(s), ItemsOf(s)) BY <1>1 DEF Surjection, ItemsOf
  <2>2. \A i, j \in 1..Len(s) : f[i] = f[j] => i = j BY <1>1 DEF Distinct
  <2> QED BY <2>1, <2>2 DEF Bijection, Injection, IsInjective, Surjection
<1>3. ExistsBijection(1..Len(s), ItemsOf(s)) BY <1>2 DEF ExistsBijection
<1> QED BY <1>1, <1>3, FS_CountingElements

\* The places of one entry.
LEMMA PlacesOfEntry ==
  ASSUME NEW e \in DOMAIN data, data[e] \in Seq(Items)
  PROVE  /\ IsFiniteSet({e} \X DOMAIN data[e])
         /\ Cardinality({e} \X DOMAIN data[e]) = Len(data[e])
<1> DEFINE m == Len(data[e])
<1>1. m \in Nat /\ DOMAIN data[e] = 1..m BY LenProperties
<1> HIDE DEF m
<1>2. IsFiniteSet(1..m) /\ Cardinality(1..m) = m BY <1>1, FS_Interval
<1>3. IsFiniteSet({e}) /\ Cardinality({e}) = 1 BY FS_Singleton
<1>4. /\ IsFiniteSet({e} \X (1..m))
      /\ Cardinality({e} \X (1..m)) = 1 * m
  BY <1>2, <1>3, FS_Product
<1>5. 1 * m = m BY <1>1
<1> QED BY <1>1, <1>4, <1>5, Zenon DEF m

\* One more entry adds its places.
LEMMA PlacesGrow ==
  ASSUME NEW E, NEW e \in DOMAIN data, data[e] \in Seq(Items), e \notin E,
         IsFiniteSet(Places(E))
  PROVE  /\ IsFiniteSet(Places(E \cup {e}))
         /\ Cardinality(Places(E \cup {e})) = Cardinality(Places(E)) + Len(data[e])
<1> DEFINE row == {e} \X DOMAIN data[e]
<1>1. Places(E \cup {e}) = Places(E) \cup row BY DEF Places
<1>2. Places(E) \cap row = {} BY DEF Places
<1>3. IsFiniteSet(row) /\ Cardinality(row) = Len(data[e]) BY PlacesOfEntry
<1> HIDE DEF row
<1>4. Cardinality(Places(E) \cap row) = 0 BY <1>2, FS_EmptySet
<1>5. /\ IsFiniteSet(Places(E) \cup row)
      /\ Cardinality(Places(E) \cup row)
           = Cardinality(Places(E)) + Cardinality(row) - Cardinality(Places(E) \cap row)
  BY <1>3, FS_Union
<1>6. Cardinality(Places(E)) \in Nat /\ Len(data[e]) \in Nat
  BY FS_CardinalityType, LenProperties
<1>7. Cardinality(Places(E) \cup row) = Cardinality(Places(E)) + Len(data[e])
  BY <1>3, <1>4, <1>5, <1>6
<1> QED BY <1>1, <1>5, <1>7, Zenon

\* The parts of TypeOK that IInv leaves out.
Ranges ==
  /\ gateway \in Gateways /\ found \subseteq Keys
  /\ at = NoEntry => n = 0
  /\ count \in [Keys -> -Half .. Half - 1]

\* What has been put under a key is as long as its answers so far, ...
Filled(k) == Places(Of(k) \ todo)
LengthIs(k) == IsFiniteSet(Filled(k)) /\ Len(ret[k]) = Cardinality(Filled(k))

\* ... and the count is congruent to that.
CountIs(k) == \E q \in Int : Len(ret[k]) = count[k] + 2^CountBits * q

Sizes ==
  /\ call # "dedup" => \A k \in Keys : LengthIs(k)
  /\ call = "append" => \A k \in Keys : CountIs(k)

LEMMA InitSizes == Init => Ranges /\ Sizes
<1> SUFFICES ASSUME Init PROVE Ranges /\ Sizes
  OBVIOUS
<1>1. 0 \in -Half .. Half - 1 /\ 2^CountBits * 0 = 0 BY HalfFacts
<1>2. Ranges BY <1>1 DEF Init, Ranges
<1>3. ASSUME NEW k \in Keys PROVE LengthIs(k) /\ CountIs(k)
  <2>1. Of(k) \ todo = {} BY DEF Init, Of
  <2>2. Places({}) = {} BY DEF Places
  <2>3. IsFiniteSet({}) /\ Cardinality({}) = 0 BY FS_EmptySet
  <2>4. ret[k] = <<>> /\ Len(ret[k]) = 0 /\ count[k] = 0 BY DEF Init
  <2>5. LengthIs(k) BY <2>1, <2>2, <2>3, <2>4 DEF LengthIs, Filled
  <2>6. Len(ret[k]) = count[k] + 2^CountBits * 0 BY <1>1, <2>4
  <2> QED BY <2>5, <2>6 DEF CountIs
<1> QED BY <1>2, <1>3 DEF Sizes

\* The count of a key after one more answer.
LEMMA CountFacts ==
  ASSUME Ranges, NEW k \in Keys, NEW s \in Seq(Items)
  PROVE  /\ count[k] \in Int /\ Len(s) \in Nat
         /\ Wrap(count[k] + Len(s)) \in -Half .. Half - 1
         /\ \E q \in Int :
              count[k] + Len(s) = Wrap(count[k] + Len(s)) + 2^CountBits * q
<1>1. count[k] \in Int /\ Len(s) \in Nat BY HalfFacts, LenProperties DEF Ranges
<1>2. count[k] + Len(s) \in Int BY <1>1
<1> QED BY <1>1, <1>2, WrapFacts

LEMMA StepRanges ==
  ASSUME IInv, Ranges, [Next]_vars
  PROVE  Ranges'
<1>0. Types BY DEF IInv
<1>1. ASSUME NEW e \in todo, Reaches(e)
      PROVE  gateway' \in Gateways /\ found' \subseteq Keys
  <2>1. e[1] \in Gateways /\ e[2] \in Keys BY <1>0 DEF Types, Entries
  <2> QED BY <1>1, <2>1 DEF Reaches, Ranges
<1>2. ASSUME NEW e \in todo, AppendEntry(e) PROVE Ranges'
  <2>1. /\ e[2] \in Keys /\ data[e] \in Seq(Items)
    BY <1>0, EntryFacts DEF Types
  <2>2. Wrap(count[e[2]] + Len(data[e])) \in -Half .. Half - 1
    BY <2>1, CountFacts
  <2>3. count' \in [Keys -> -Half .. Half - 1]
    BY <1>2, <2>1, <2>2 DEF AppendEntry, Ranges
  <2>4. at' = NoEntry /\ n' = 0 BY <1>2 DEF AppendEntry, Reaches, Ranges
  <2>5. Reaches(e) BY <1>2 DEF AppendEntry
  <2> QED BY <1>1, <2>3, <2>4, <2>5 DEF Ranges, Half
<1>3. ASSUME NEW e \in todo, AssignEntry(e) PROVE Ranges'
  <2>1. Reaches(e) /\ UNCHANGED <<at, n, count>> BY <1>3 DEF AssignEntry
  <2> QED BY <1>1, <2>1 DEF Ranges, Half
<1>4. ASSUME NEW e \in todo, DedupBegins(e) PROVE Ranges'
  <2>1. Reaches(e) /\ n' = 0 /\ UNCHANGED count BY <1>4 DEF DedupBegins
  <2> QED BY <1>1, <2>1 DEF Ranges, Half
<1>5. CASE DedupItem BY <1>5 DEF DedupItem, Ranges, Half
<1>6. CASE DedupReturns BY <1>6 DEF DedupReturns, Ranges, Half
<1>7. CASE UNCHANGED vars BY <1>7 DEF vars, Ranges, Half
<1> QED BY <1>2, <1>3, <1>4, <1>5, <1>6, <1>7 DEF Next

\* Entry e leaves todo.
LEMMA FilledGrows ==
  ASSUME Types, NEW e \in todo, UNCHANGED data, todo' = todo \ {e}, NEW k \in Keys
  PROVE  /\ k # e[2] => Filled(k)' = Filled(k)
         /\ k = e[2] /\ IsFiniteSet(Filled(k)) =>
              /\ IsFiniteSet(Filled(k)')
              /\ Cardinality(Filled(k)') = Cardinality(Filled(k)) + Len(data[e])
<1> DEFINE done == Of(k) \ todo
<1>1. e \in DOMAIN data /\ data[e] \in Seq(Items) /\ e \notin done
  BY EntryFacts DEF Types
<1>2. CASE k # e[2]
  <2>1. Of(k) \ todo' = done BY <1>1, <1>2, EntryFacts
  <2> QED BY <1>2, <2>1 DEF Filled, Places, Of
<1>3. ASSUME k = e[2], IsFiniteSet(Filled(k))
      PROVE  /\ IsFiniteSet(Filled(k)')
             /\ Cardinality(Filled(k)') = Cardinality(Filled(k)) + Len(data[e])
  <2>1. Of(k) \ todo' = done \cup {e} BY <1>1, <1>3, EntryFacts
  <2>2. Filled(k)' = Places(done \cup {e}) BY <2>1 DEF Filled, Places, Of
  <2>3. Filled(k) = Places(done) BY DEF Filled
  <2> HIDE DEF done
  <2> QED BY <1>1, <1>3, <2>2, <2>3, PlacesGrow
<1> QED BY <1>2, <1>3

\* The list of its key gets longer by the items of the entry, and no other
\* list changes.
LEMMA LengthGrows ==
  ASSUME IInv, Sizes, call # "dedup", NEW e \in todo, UNCHANGED data,
         todo' = todo \ {e}, NEW k \in Keys,
         k # e[2] => ret'[k] = ret[k],
         k = e[2] => Len(ret'[k]) = Len(ret[k]) + Len(data[e])
  PROVE  LengthIs(k)'
<1>1. Types /\ LengthIs(k) BY DEF IInv, Sizes
<1>2. CASE k # e[2] BY <1>1, <1>2, FilledGrows DEF LengthIs
<1>3. CASE k = e[2] BY <1>1, <1>3, FilledGrows DEF LengthIs
<1> QED BY <1>2, <1>3

LEMMA CongruenceAdds ==
  \A c, l, w, m, p, q \in Int :
    c + l = w + m * p => c + m * q + l = w + m * (p + q)
<1> SUFFICES ASSUME NEW c \in Int, NEW l \in Int, NEW w \in Int, NEW m \in Int,
                    NEW p \in Int, NEW q \in Int, c + l = w + m * p
             PROVE  c + m * q + l = w + m * (p + q)
  OBVIOUS
<1> DEFINE mp == m * p
           mq == m * q
<1>1. mp \in Int /\ mq \in Int /\ m * (p + q) = mp + mq OBVIOUS
<1> QED BY <1>1

LEMMA AppendSizes ==
  ASSUME IInv, Ranges, Sizes, NEW e \in todo, AppendEntry(e)
  PROVE  Sizes'
<1> USE DEF AppendEntry, Reaches
<1>0. Types BY DEF IInv
<1>1. /\ e \in DOMAIN data /\ e[2] \in Keys /\ data[e] \in Seq(Items)
      /\ ret[e[2]] \in Seq(Items) /\ call' = "append" /\ call = "append"
  BY <1>0, EntryFacts DEF Types
<1>2. /\ \A k \in Keys \ {e[2]} : ret'[k] = ret[k] /\ count'[k] = count[k]
      /\ ret'[e[2]] = ret[e[2]] \o data[e]
      /\ count'[e[2]] = Wrap(count[e[2]] + Len(data[e]))
  BY <1>0, <1>1 DEF Types, Ranges
<1>3. Len(ret'[e[2]]) = Len(ret[e[2]]) + Len(data[e])
  BY <1>1, <1>2, ConcatProperties
<1>4. ASSUME NEW k \in Keys PROVE LengthIs(k)'
  BY <1>1, <1>2, <1>3, LengthGrows
<1>5. ASSUME NEW k \in Keys PROVE CountIs(k)'
  <2>1. PICK q \in Int : Len(ret[k]) = count[k] + 2^CountBits * q
    BY <1>1 DEF Sizes, CountIs
  <2>2. CASE k # e[2] BY <1>2, <2>1, <2>2 DEF CountIs
  <2>3. CASE k = e[2]
    <3> DEFINE w == Wrap(count[k] + Len(data[e]))
               M == 2^CountBits
    <3>1. count[k] \in Int /\ Len(data[e]) \in Nat /\ w \in Int /\ M \in Int
      BY <1>1, CountFacts, HalfFacts
    <3>2. PICK p \in Int : count[k] + Len(data[e]) = w + M * p
      BY <1>1, CountFacts
    <3>3. Len(ret'[k]) = Len(ret[k]) + Len(data[e]) /\ count'[k] = w
      BY <1>2, <1>3, <2>3
    <3>4. Len(ret[k]) = count[k] + M * q BY <2>1
    <3> HIDE DEF w, M
    <3>5. Len(ret'[k]) = count[k] + M * q + Len(data[e]) BY <3>3, <3>4
    <3>6. Len(ret'[k]) = w + M * (p + q)
      <4> DEFINE l == Len(data[e])
                 c == count[k]
      <4>1. c \in Int /\ l \in Int /\ w \in Int /\ M \in Int BY <3>1
      <4>2. c + M * q + l = w + M * (p + q)
        <5>1. c + l = w + M * p BY <3>2
        <5> HIDE DEF c, l
        <5> QED BY <4>1, <5>1, CongruenceAdds
      <4> QED BY <3>5, <4>2, Zenon
    <3>7. p + q \in Int OBVIOUS
    <3> QED BY <3>3, <3>6, <3>7 DEF CountIs, M
  <2> QED BY <2>2, <2>3
<1> QED BY <1>4, <1>5 DEF Sizes

LEMMA AssignSizes ==
  ASSUME IInv, Sizes, NEW e \in todo, AssignEntry(e)
  PROVE  Sizes'
<1> USE DEF AssignEntry, Reaches
<1>0. Types /\ Possible(call, data) BY DEF IInv
<1>1. /\ e \in DOMAIN data /\ e[2] \in Keys /\ data[e] \in Seq(Items)
      /\ call' = "assign" /\ call = "assign"
  BY <1>0, EntryFacts DEF Types
<1>2. /\ \A k \in Keys \ {e[2]} : ret'[k] = ret[k]
      /\ ret'[e[2]] = data[e]
  BY <1>0, <1>1 DEF Types
<1>3. Len(ret[e[2]]) = 0 /\ Len(data[e]) \in Nat
  <2>1. Of(e[2]) \ todo = {} BY <1>0, <1>1 DEF Of, Possible
  <2>2. Filled(e[2]) = {} BY <2>1 DEF Filled, Places
  <2>3. LengthIs(e[2]) BY <1>1 DEF Sizes
  <2> QED BY <1>1, <2>2, <2>3, FS_EmptySet, LenProperties DEF LengthIs
<1>4. Len(ret'[e[2]]) = Len(ret[e[2]]) + Len(data[e]) BY <1>2, <1>3
<1>5. ASSUME NEW k \in Keys PROVE LengthIs(k)'
  BY <1>1, <1>2, <1>4, LengthGrows
<1> QED BY <1>1, <1>5 DEF Sizes

LEMMA StepSizes ==
  ASSUME IInv, Ranges, Sizes, [Next]_vars
  PROVE  Sizes'
<1>1. ASSUME NEW e \in todo, AppendEntry(e) PROVE Sizes' BY <1>1, AppendSizes
<1>2. ASSUME NEW e \in todo, AssignEntry(e) PROVE Sizes' BY <1>2, AssignSizes
<1>3. ASSUME NEW e \in todo, DedupBegins(e) PROVE Sizes'
  BY <1>3 DEF DedupBegins, Sizes
<1>4. ASSUME at # NoEntry, call' = call PROVE Sizes'
  BY <1>4 DEF IInv, Dedups, Sizes
<1>5. CASE DedupItem BY <1>4, <1>5 DEF DedupItem
<1>6. CASE DedupReturns BY <1>4, <1>6 DEF DedupReturns
<1>7. CASE UNCHANGED vars
  BY <1>7 DEF vars, Sizes, LengthIs, Filled, Places, Of, CountIs
<1> QED BY <1>1, <1>2, <1>3, <1>5, <1>6, <1>7 DEF Next

LEMMA SizesInvariance == Spec => [](IInv /\ Ranges /\ Sizes)
<1>1. Init => IInv /\ Ranges /\ Sizes BY InitIInv, InitSizes
<1>2. IInv /\ IInv' /\ Ranges /\ Sizes /\ [Next]_vars => Ranges' /\ Sizes'
  BY StepRanges, StepSizes
<1> QED BY <1>1, <1>2, Invariance, PTL DEF Spec

-----------------------------------------------------------------------------
\* Merging loses no item, repeats none and files none under a wrong key, for
\* any number of gateways, keys and items and answers of any length.
THEOREM MergesExactly == Spec => []MergedExactly
<1>1. IInv => MergedExactly BY DEF IInv
<1> QED BY <1>1, Invariance, PTL

\* At the end the items of a key are those of all answers under that key,
\* each once: what the result promises its caller.
THEOREM ResultIsUnion ==
  Spec => [](todo = {} =>
               \A k \in Keys : /\ Distinct(ret[k])
                               /\ ItemsOf(ret[k]) = UNION {ItemsOf(data[e]) : e \in Of(k)})
<1>1. ASSUME IInv, todo = {}
      PROVE  \A k \in Keys : /\ Distinct(ret[k])
                             /\ ItemsOf(ret[k]) = UNION {ItemsOf(data[e]) : e \in Of(k)}
  <2> TAKE k \in Keys
  <2>1. at = NoEntry BY <1>1 DEF IInv, Types
  <2>2. Of(k) \ todo = Of(k) BY <1>1
  <2>3. Met(k) = UNION {ItemsOf(data[e]) : e \in Of(k)} BY <2>1, <2>2 DEF Met
  <2> QED BY <1>1, <2>3 DEF IInv, MergedExactly
<1> QED BY <1>1, Invariance, PTL

\* Every count stays in the range of its width, and dedupAppend never looks
\* past the longest answer.
THEOREM TypeCorrect == Spec => []TypeOK
<1>1. ASSUME IInv, Ranges PROVE TypeOK
  <2>1. n \in 0..MaxItems
    <3>1. CASE at = NoEntry BY <1>1, <3>1, RetAssumption DEF Ranges
    <3>2. CASE at # NoEntry
      <4>1. n \in 0..Len(data[at]) /\ data[at] \in Answers
        BY <1>1, <3>2 DEF IInv, Types, Dedups
      <4>2. PICK m \in 0..MaxItems : data[at] \in [1..m -> Items]
        BY <4>1 DEF Answers
      <4>3. Len(data[at]) = m BY <4>2, RetAssumption
      <4> QED BY <4>1, <4>3, RetAssumption
    <3> QED BY <3>1, <3>2
  <2>2. count \in [Keys -> -(2^(CountBits - 1)) .. 2^(CountBits - 1) - 1]
    BY <1>1 DEF Ranges, Half
  <2> QED BY <1>1, <2>1, <2>2 DEF IInv, Types, Ranges, TypeOK
<1> QED BY <1>1, SizesInvariance, PTL

\* Has, Len and Count, which never merge, give the answer that merging would:
\* Has finds exactly the items of the result, Len is its length, and Count is
\* its length modulo 2^32 and the very number while that fits in an int32.
THEOREM ReadersAgreeWithMerge == Spec => []ReadersAgree
<1>1. ASSUME IInv, Ranges, Sizes, todo = {}, NEW k \in Keys
      PROVE  /\ \A x \in Items : Has(k, x) <=> x \in ItemsOf(ret[k])
             /\ Len(ret[k]) = IF call = "dedup" THEN LenDedup(k) ELSE LenSum(k)
             /\ call = "append" =>
                  /\ (Len(ret[k]) - count[k]) % 2^CountBits = 0
                  /\ Len(ret[k]) < 2^(CountBits - 1) => count[k] = Len(ret[k])
  <2>1. /\ Types /\ Distinct(ret[k]) /\ ItemsOf(ret[k]) = Met(k)
        /\ ret[k] \in Seq(Items)
    BY <1>1 DEF IInv, MergedExactly, Types
  <2>2. Of(k) \ todo = Of(k) /\ at = NoEntry BY <1>1, <2>1 DEF Types
  <2>3. ItemsOf(ret[k]) = UNION {ItemsOf(data[e]) : e \in Of(k)}
    BY <2>1, <2>2 DEF Met
  <2>4. \A x \in Items : Has(k, x) <=> x \in ItemsOf(ret[k])
    BY <2>3 DEF Has, ItemsOf
  <2>5. CASE call = "dedup"
    BY <2>1, <2>3, <2>4, <2>5, DistinctLength DEF LenDedup
  <2>6. CASE call # "dedup"
    <3>1. LengthIs(k) /\ Filled(k) = Places(Of(k))
      BY <1>1, <2>2, <2>6 DEF Sizes, Filled
    <3>2. Len(ret[k]) = LenSum(k) BY <3>1 DEF LengthIs, LenSum
    <3>3. ASSUME call = "append"
          PROVE  /\ (Len(ret[k]) - count[k]) % 2^CountBits = 0
                 /\ Len(ret[k]) < 2^(CountBits - 1) => count[k] = Len(ret[k])
      <4> DEFINE l == Len(ret[k])
                 c == count[k]
                 M == 2^CountBits
      <4>1. PICK q \in Int : l = c + M * q BY <1>1, <3>3 DEF Sizes, CountIs
      <4>2. /\ l \in Nat /\ Half \in Nat \ {0} /\ M = 2 * Half
            /\ c \in -Half .. Half - 1
        BY <1>1, <2>1, HalfFacts, LenProperties DEF Ranges
      <4> HIDE DEF l, c, M
      <4>3. (l - c) % M = 0
        <5>1. l - c = M * q BY <4>1, <4>2
        <5>2. M \in Nat \ {0} BY <4>2
        <5>3. (M * q) % M = 0 BY <5>2
        <5> QED BY <5>1, <5>3
      <4>4. ASSUME l < Half PROVE c = l
        <5>1. M * q = l - c /\ l - c < M /\ l - c > -M BY <4>1, <4>2, <4>4
        <5>2. q = 0 BY <4>2, <5>1
        <5> QED BY <4>1, <4>2, <5>2
      <4> QED BY <4>3, <4>4 DEF l, c, M, Half
    <3> QED BY <2>4, <2>6, <3>2, <3>3
  <2> QED BY <2>5, <2>6
<1>2. IInv /\ Ranges /\ Sizes => ReadersAgree BY <1>1 DEF ReadersAgree
<1> QED BY <1>2, SizesInvariance, PTL
=============================================================================
