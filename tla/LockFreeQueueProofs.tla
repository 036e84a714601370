------------------------ MODULE LockFreeQueueProofs -------------------------
(***************************************************************************)
(* Proofs about LockFreeQueue, for every pool of addresses, set of values  *)
(* and number of items: the types, the shape of the list, and from them    *)
(* memory safety, the counter, the absence of leaks and the refinement of  *)
(* Fifo.                                                                   *)
(***************************************************************************)
EXTENDS LockFreeQueue, FiniteSetTheorems, TLAPS

(* The invariant that is inductive: types and list shape.                  *)
QInv == TypeOK /\ ChainInv

LEMMA InitQInv == Init => QInv
  <1> SUFFICES ASSUME Init PROVE QInv
    OBVIOUS
  <1> USE QueueAssumption DEF Init
  <1>1. TypeOK
    BY DEF TypeOK, ProducerPc, ConsumerPc
  <1>2. ChainInv
    BY DEF ChainInv, Allocated, Owed
  <1> QED
    BY <1>1, <1>2 DEF QInv

(* The list in the order of allocation: where a node alive leads to, and    *)
(* what it carries.                                                         *)
LEMMA NodeFacts ==
  ASSUME QInv, NEW i \in Nat, freed <= i, i <= Allocated
  PROVE  /\ node[i] \in Addr /\ node[i] \in live
         /\ i < Allocated => next[node[i]] = node[i + 1] /\ node[i + 1] \in Addr
         /\ 0 < i /\ i <= Len(sent) => value[node[i]] = sent[i]
         /\ value[node[i]] \in Value
  <1> USE QueueAssumption DEF QInv
  <1>1. Allocated \in Nat /\ Allocated <= MaxItems /\ Len(sent) \in Nat /\ freed \in Nat
    BY DEF Allocated, Owed, TypeOK, ChainInv
  <1>2. i \in freed..Allocated /\ i \in 0..MaxItems
    BY <1>1
  <1>3. node[i] \in Addr /\ node[i] \in live /\ value[node[i]] \in Value
    BY <1>2 DEF TypeOK, ChainInv
  <1>4. ASSUME i < Allocated
        PROVE next[node[i]] = node[i + 1] /\ node[i + 1] \in Addr
    <2>1. i + 1 \in 0..MaxItems
      BY <1>1, <1>4
    <2> QED
      BY <1>2, <1>4, <2>1 DEF TypeOK, ChainInv
  <1>5. ASSUME 0 < i, i <= Len(sent) PROVE value[node[i]] = sent[i]
    <2>1. i \in freed..Len(sent)
      BY <1>1, <1>5
    <2> QED
      BY <1>5, <2>1 DEF ChainInv
  <1> QED
    BY <1>3, <1>4, <1>5

LEMMA LinkQInv == ASSUME QInv, NEW t \in Value, Link(t) PROVE QInv'
  <1> USE QueueAssumption DEF QInv, pointers
  <1> PICK n \in Addr \ live :
         /\ live' = live \cup {n}
         /\ value' = [value EXCEPT ![n] = t]
         /\ next' = [next EXCEPT ![n] = Null, ![last] = n]
         /\ node' = [node EXCEPT ![Len(sent) + 1] = n]
    BY DEF Link
  <1> DEFINE l == Len(sent)
  <1>1. TypeOK'
    BY DEF Link, TypeOK, ProducerPc, ConsumerPc
  <1>2. /\ ppc = "idle" /\ ppc' = "publish" /\ l \in Nat /\ l < MaxItems
        /\ sent' = sent /\ received' = received /\ freed' = freed
        /\ first' = first /\ divider' = divider /\ last' = last
        /\ cpc' = cpc /\ cnext' = cnext /\ result' = result
        /\ freed \in Nat /\ Len(received) \in Nat
        /\ freed <= Len(received) /\ Len(received) <= l
        /\ Allocated = l /\ Allocated' = l + 1
    BY DEF Link, TypeOK, ChainInv, Owed, Allocated
  <1>3. node'[l + 1] = n /\ \A i \in 0..l : node'[i] = node[i]
    BY <1>2 DEF TypeOK
  <1>4. \A i \in freed..l : node[i] \in live /\ node[i] # n
    BY <1>2 DEF ChainInv
  <1>5. live' = {node'[i] : i \in freed..(l + 1)}
    <2>1. live = {node[i] : i \in freed..l}
      BY <1>2 DEF ChainInv
    <2>2. \A x \in live' : \E i \in freed..(l + 1) : x = node'[i]
      BY <2>1, <1>2, <1>3
    <2>3. \A i \in freed..(l + 1) : node'[i] \in live'
      BY <2>1, <1>2, <1>3
    <2> QED
      BY <2>2, <2>3
  <1>6. \A i, j \in freed..(l + 1) : node'[i] = node'[j] => i = j
    <2> SUFFICES ASSUME NEW i \in freed..(l + 1), NEW j \in freed..(l + 1),
                        node'[i] = node'[j]
                 PROVE i = j
      OBVIOUS
    <2>1. CASE i <= l /\ j <= l
      BY <2>1, <1>2, <1>3 DEF ChainInv
    <2>2. CASE i = l + 1 \/ j = l + 1
      BY <2>2, <1>2, <1>3, <1>4
    <2> QED
      BY <2>1, <2>2, <1>2
  <1>7. \A i \in freed..(l + 1) :
          next'[node'[i]] = IF i < l + 1 THEN node'[i + 1] ELSE Null
    <2> SUFFICES ASSUME NEW i \in freed..(l + 1)
                 PROVE next'[node'[i]] = IF i < l + 1 THEN node'[i + 1] ELSE Null
      OBVIOUS
    <2>1. CASE i < l
      <3>1. node[i] # last /\ next[node[i]] = node[i + 1]
        BY <2>1, <1>2 DEF ChainInv
      <3>2. next'[node[i]] = next[node[i]]
        BY <3>1, <2>1, <1>2, <1>4 DEF TypeOK
      <3> QED
        BY <3>1, <3>2, <2>1, <1>2, <1>3
    <2>2. CASE i = l
      BY <2>2, <1>2, <1>3, <1>4 DEF ChainInv, TypeOK
    <2>3. CASE i = l + 1
      BY <2>3, <1>2, <1>3, <1>4 DEF ChainInv, TypeOK
    <2> QED
      BY <2>1, <2>2, <2>3, <1>2
  <1>8. \A i \in freed..l : i > 0 => value'[node'[i]] = sent[i]
    BY <1>2, <1>3, <1>4 DEF ChainInv, TypeOK
  <1>9. ChainInv'
    BY <1>2, <1>3, <1>5, <1>6, <1>7, <1>8 DEF ChainInv, TypeOK
  <1> QED
    BY <1>1, <1>9

LEMMA PublishQInv == ASSUME QInv, Publish PROVE QInv'
  <1> USE QueueAssumption DEF QInv, heap
  <1> DEFINE l == Len(sent)
  <1>1. /\ ppc = "publish" /\ ppc' = "count" /\ l \in Nat
        /\ received' = received /\ freed' = freed /\ node' = node
        /\ first' = first /\ divider' = divider
        /\ live' = live /\ next' = next /\ value' = value
        /\ cpc' = cpc /\ cnext' = cnext /\ result' = result /\ size' = size
        /\ freed \in Nat /\ Len(received) \in Nat
        /\ freed <= Len(received) /\ Len(received) <= l
        /\ Allocated = l + 1 /\ l + 1 <= MaxItems
    BY DEF Publish, TypeOK, ChainInv, Owed, Allocated
  <1>2. next[last] = node[l + 1] /\ last' = node[l + 1] /\ node[l + 1] \in Addr
    <2>1. next[node[l]] = node[l + 1] /\ node[l + 1] \in Addr
      BY <1>1, NodeFacts
    <2> QED
      BY <2>1 DEF Publish, ChainInv
  <1>3. sent' = Append(sent, value[node[l + 1]]) /\ value[node[l + 1]] \in Value
    BY <1>2 DEF Publish, TypeOK
  <1>4. /\ sent' \in Seq(Value) /\ Len(sent') = l + 1
        /\ sent'[l + 1] = value[node[l + 1]]
        /\ \A i \in 1..l : sent'[i] = sent[i]
    BY <1>3 DEF TypeOK
  <1>5. Allocated' = l + 1
    BY <1>1, <1>4 DEF Allocated, Owed
  <1>6. TypeOK'
    BY <1>1, <1>2, <1>4 DEF TypeOK, ProducerPc
  <1>7. \A i \in freed..(l + 1) : i > 0 => value[node[i]] = sent'[i]
    <2> SUFFICES ASSUME NEW i \in freed..(l + 1), i > 0
                 PROVE value[node[i]] = sent'[i]
      OBVIOUS
    <2>1. CASE i <= l
      BY <2>1, <1>1, <1>4 DEF ChainInv
    <2>2. CASE i = l + 1
      BY <2>2, <1>4
    <2> QED
      BY <2>1, <2>2, <1>1
  <1>8. /\ cpc = "copy" => cnext = node[Len(received) + 1]
        /\ cpc = "advance" => result = sent'[Len(received) + 1]
        /\ cpc \in {"load", "copy", "advance"} => Len(received) < l + 1
    BY <1>1, <1>4 DEF ChainInv
  <1>9. ChainInv'
    BY <1>1, <1>2, <1>4, <1>5, <1>7, <1>8 DEF ChainInv
  <1> QED
    BY <1>6, <1>9

LEMMA CountQInv == ASSUME QInv, Count \/ TestDivider PROVE QInv'
  <1> USE QueueAssumption DEF QInv, pointers, heap, history
  <1>1. /\ ppc \in {"count", "test"} /\ ppc' \in {"test", "free", "idle"}
        /\ UNCHANGED <<first, divider, last, live, next, value, cpc, cnext,
                       result, sent, received, node, freed>>
        /\ size' \in Int
        /\ ppc' = "free" => divider # first
    BY DEF Count, TestDivider, TypeOK
  <1>2. Allocated' = Allocated /\ Allocated = Len(sent)
    BY <1>1 DEF Allocated, Owed, TypeOK
  <1>3. TypeOK'
    BY <1>1 DEF TypeOK, ProducerPc
  <1>4. ppc' = "free" => freed < Len(received)
    BY <1>1, <1>2 DEF ChainInv, TypeOK
  <1>5. ChainInv'
    BY <1>1, <1>2, <1>4 DEF ChainInv
  <1> QED
    BY <1>3, <1>5

(* Deleting the oldest node, by produce() or by the destructor.             *)
LEMMA DeleteQInv == ASSUME QInv, FreeFirst \/ DestroyNode PROVE QInv'
  <1> USE QueueAssumption DEF QInv
  <1> DEFINE l == Len(sent)
  <1>1. /\ ppc \in {"free", "destroy"}
        /\ ppc' = IF ppc = "free" THEN "test" ELSE "destroy"
        /\ UNCHANGED <<divider, last, next, value, size, cpc, cnext, result,
                       sent, received, node>>
        /\ live' = live \ {first} /\ first' = next[first]
        /\ freed' = freed + 1
        /\ ppc = "destroy" => first # Null
    BY DEF FreeFirst, DestroyNode
  <1>2. /\ Allocated' = l /\ Allocated = l /\ l \in Nat /\ freed \in Nat
        /\ l <= MaxItems /\ Len(received) \in Nat /\ Len(received) <= l
    BY <1>1 DEF Allocated, Owed, TypeOK, ChainInv
  <1>3. freed <= l /\ first = node[freed] /\ (ppc = "free" => freed < Len(received))
    BY <1>1, <1>2 DEF ChainInv
  <1>4. first' = IF freed + 1 <= l THEN node[freed + 1] ELSE Null
    BY <1>1, <1>2, <1>3 DEF ChainInv
  <1>5. TypeOK'
    <2>1. first' \in Addr \cup (IF ppc' \in {"destroy", "gone"} THEN {Null} ELSE {})
      BY <1>1, <1>2, <1>3, <1>4 DEF TypeOK
    <2> QED
      BY <2>1, <1>1 DEF TypeOK, ProducerPc
  <1>6. live' = {node[i] : i \in (freed + 1)..l}
    <2>1. live = {node[i] : i \in freed..l}
      BY <1>2 DEF ChainInv
    <2>2. \A x \in live' : \E i \in (freed + 1)..l : x = node[i]
      BY <2>1, <1>1, <1>2, <1>3
    <2>3. \A i \in (freed + 1)..l : node[i] \in live /\ node[i] # first
      BY <2>1, <1>2, <1>3 DEF ChainInv
    <2> QED
      BY <2>2, <2>3, <1>1
  <1>7. ChainInv'
    BY <1>1, <1>2, <1>3, <1>4, <1>6 DEF ChainInv
  <1> QED
    BY <1>5, <1>7

LEMMA ConsumeQInv == ASSUME QInv, TestLast \/ LoadNext \/ CopyValue \/ Uncount
                     PROVE QInv'
  <1> USE QueueAssumption DEF QInv, pointers, heap, history
  <1>1. /\ UNCHANGED <<first, divider, last, live, next, value, ppc,
                       sent, received, node, freed>>
        /\ Allocated' = Allocated
    BY DEF TestLast, LoadNext, CopyValue, Uncount, Allocated
  <1>2. /\ Allocated \in Nat /\ Len(sent) \in Nat /\ Len(received) \in Nat
        /\ Len(sent) <= Allocated /\ freed \in Nat
        /\ Allocated <= MaxItems /\ Len(received) <= Len(sent)
    BY DEF Allocated, Owed, TypeOK, ChainInv
  <1>3. CASE TestLast
    <2>1. cpc' = "load" => Len(received) < Len(sent)
      BY <1>2, <1>3 DEF TestLast, ChainInv
    <2> QED
      BY <1>1, <1>2, <1>3, <2>1 DEF TestLast, TypeOK, ConsumerPc, ChainInv
  <1>4. CASE LoadNext
    <2>1. cnext' = node[Len(received) + 1] /\ cnext' \in Addr
      <3>1. ppc \notin {"destroy", "gone"} /\ freed <= Len(received)
             /\ Len(received) < Len(sent)
        BY <1>4 DEF LoadNext, ChainInv
      <3> QED
        <4>1. /\ next[node[Len(received)]] = node[Len(received) + 1]
              /\ node[Len(received) + 1] \in Addr
          BY <1>2, <3>1, NodeFacts
        <4> QED
          BY <1>4, <4>1 DEF LoadNext, ChainInv
    <2> QED
      BY <1>1, <1>2, <1>4, <2>1 DEF LoadNext, TypeOK, ConsumerPc, ChainInv
  <1>5. CASE CopyValue
    <2>1. ppc \notin {"destroy", "gone"} /\ freed <= Len(received)
      BY <1>5 DEF CopyValue, ChainInv
    <2>2. cnext = node[Len(received) + 1] /\ Len(received) < Len(sent)
      BY <1>5 DEF CopyValue, ChainInv
    <2>3. result' = sent[Len(received) + 1] /\ result' \in Value
      <3> DEFINE i == Len(received) + 1
      <3>1. i \in Nat /\ freed <= i /\ i <= Allocated /\ 0 < i /\ i <= Len(sent)
        BY <1>2, <2>1, <2>2
      <3>2. value[node[i]] = sent[i] /\ value[node[i]] \in Value
        BY <3>1, NodeFacts
      <3> QED
        BY <1>5, <2>2, <3>2 DEF CopyValue
    <2> QED
      BY <1>1, <1>2, <1>5, <2>2, <2>3 DEF CopyValue, TypeOK, ConsumerPc, ChainInv
  <1>6. CASE Uncount
    BY <1>1, <1>2, <1>6 DEF Uncount, TypeOK, ConsumerPc, ChainInv
  <1> QED
    BY <1>3, <1>4, <1>5, <1>6

LEMMA AdvanceQInv == ASSUME QInv, Advance PROVE QInv'
  <1> USE QueueAssumption DEF QInv, heap
  <1> DEFINE d == Len(received)
  <1>1. /\ UNCHANGED <<first, last, live, next, value, size, ppc, cnext, result,
                       sent, node, freed>>
        /\ Allocated' = Allocated /\ cpc = "advance" /\ cpc' = "uncount"
    BY DEF Advance, Allocated
  <1>2. /\ Allocated \in Nat /\ Len(sent) \in Nat /\ d \in Nat
        /\ Len(sent) <= Allocated /\ freed \in Nat /\ Allocated <= MaxItems
        /\ d < Len(sent) /\ freed <= d /\ ppc \notin {"destroy", "gone"}
    BY <1>1 DEF Allocated, Owed, TypeOK, ChainInv
  <1>3. divider' = node[d + 1] /\ node[d + 1] \in Addr
    <2>1. next[node[d]] = node[d + 1] /\ node[d + 1] \in Addr
      BY <1>2, NodeFacts
    <2> QED
      BY <2>1 DEF Advance, ChainInv
  <1>4. received' \in Seq(Value) /\ Len(received') = d + 1
    BY DEF Advance, TypeOK
  <1>5. TypeOK'
    BY <1>1, <1>2, <1>3, <1>4 DEF TypeOK, ConsumerPc
  <1>6. ChainInv'
    BY <1>1, <1>2, <1>3, <1>4 DEF ChainInv
  <1> QED
    BY <1>5, <1>6

LEMMA DestroyQInv == ASSUME QInv, BeginDestroy \/ EndDestroy PROVE QInv'
  <1> USE QueueAssumption DEF QInv, pointers, heap, history
  <1>1. /\ UNCHANGED <<first, divider, last, live, next, value, cpc, cnext,
                       result, sent, received, node, freed>>
        /\ ppc \in {"idle", "destroy"} /\ ppc' \in {"destroy", "gone"}
        /\ ppc' = "gone" => first = Null
        /\ cpc = "idle" /\ size' \in Int
    BY DEF BeginDestroy, EndDestroy, TypeOK, ChainInv
  <1>2. Allocated' = Allocated /\ Allocated = Len(sent) /\ Len(sent) \in Nat
    BY <1>1 DEF Allocated, Owed, TypeOK
  <1>3. TypeOK'
    BY <1>1 DEF TypeOK, ProducerPc
  <1>4. first = Null => freed = Allocated + 1
    BY <1>2 DEF ChainInv, TypeOK
  <1>5. ChainInv'
    BY <1>1, <1>2, <1>4 DEF ChainInv
  <1> QED
    BY <1>3, <1>5

LEMMA NextQInv == QInv /\ [Next]_vars => QInv'
  <1> SUFFICES ASSUME QInv, [Next]_vars PROVE QInv'
    OBVIOUS
  <1>1. CASE UNCHANGED vars
    BY <1>1 DEF QInv, TypeOK, ChainInv, Allocated, Owed, vars
  <1>2. CASE Next
    BY <1>2, LinkQInv, PublishQInv, CountQInv, DeleteQInv, ConsumeQInv,
       AdvanceQInv, DestroyQInv
       DEF Next, Produce, Consume, Destroy
  <1> QED
    BY <1>1, <1>2

(* The variables keep their types.                                          *)
THEOREM TypeCorrect == Spec => []TypeOK
  <1>1. QInv => TypeOK
    BY DEF QInv
  <1> QED
    BY InitQInv, NextQInv, <1>1, PTL DEF Spec

(* The list has the shape ChainInv describes, in every interleaving of the  *)
(* producer, the consumer and the destructor.                               *)
THEOREM ListShape == Spec => []ChainInv
  <1>1. QInv => ChainInv
    BY DEF QInv
  <1> QED
    BY InitQInv, NextQInv, <1>1, PTL DEF Spec

(* No thread dereferences a deleted node.                                   *)
THEOREM MemorySafe == Spec => []NoUseAfterFree
  <1>1. ASSUME QInv PROVE NoUseAfterFree
    <2> USE <1>1, QueueAssumption DEF QInv
    <2>1. /\ Len(sent) \in Nat /\ Len(received) \in Nat /\ freed \in Nat
          /\ Allocated \in Nat /\ Len(sent) <= Allocated
          /\ Len(received) <= Len(sent)
      BY DEF TypeOK, ChainInv, Allocated, Owed
    <2>2. ppc \in {"idle", "publish"} => last \in live
      <3>1. ppc \in {"idle", "publish"} => freed <= Len(received)
        BY DEF ChainInv
      <3> QED
        BY <2>1, <3>1, NodeFacts DEF ChainInv
    <2>3. ppc = "free" => first \in live
      <3>1. ppc = "free" => freed < Len(received)
        BY DEF ChainInv
      <3> QED
        BY <2>1, <3>1, NodeFacts DEF ChainInv
    <2>4. ppc = "destroy" /\ first # Null => first \in live
      <3>1. first # Null => freed <= Allocated /\ first = node[freed]
        BY DEF ChainInv
      <3> QED
        BY <2>1, <3>1, NodeFacts
    <2>5. ASSUME cpc \in {"load", "copy", "advance"}
          PROVE  freed <= Len(received) /\ Len(received) < Len(sent)
      BY <2>5 DEF ChainInv
    <2>6. cpc \in {"load", "advance"} => divider \in live
      BY <2>1, <2>5, NodeFacts DEF ChainInv
    <2>7. cpc = "copy" => cnext \in live
      <3>1. ASSUME cpc = "copy" PROVE node[Len(received) + 1] \in live
        BY <2>1, <2>5, <3>1, NodeFacts
      <3> QED
        BY <3>1 DEF ChainInv
    <2> QED
      BY <2>2, <2>3, <2>4, <2>6, <2>7 DEF NoUseAfterFree
  <1> QED
    BY InitQInv, NextQInv, <1>1, PTL DEF Spec

(* The threads never meet on a field of a node.                             *)
THEOREM NodeRaceFree == Spec => []NoNodeRace
  <1>1. ASSUME QInv PROVE NoNodeRace
    <2> USE <1>1, QueueAssumption DEF QInv
    <2>1. /\ Len(sent) \in Nat /\ Len(received) \in Nat /\ freed \in Nat
          /\ Allocated \in Nat /\ Len(sent) <= Allocated
          /\ Len(received) <= Len(sent)
      BY DEF TypeOK, ChainInv, Allocated, Owed
    <2>2. \A i, j \in freed..Allocated : node[i] = node[j] => i = j
      BY DEF ChainInv
    <2>3. cpc \in {"load", "advance"} /\ ppc = "idle" => divider # last
      BY <2>1, <2>2 DEF ChainInv
    <2>4. ppc = "free" => first # divider
      BY <2>1, <2>2 DEF ChainInv
    <2>5. ppc = "free" /\ cpc = "copy" => first # cnext
      BY <2>1, <2>2 DEF ChainInv
    <2> QED
      BY <2>3, <2>4, <2>5 DEF NoNodeRace
  <1> QED
    BY InitQInv, NextQInv, <1>1, PTL DEF Spec

(* _size is exact up to the updates in progress.                            *)
THEOREM CounterCorrect == Spec => []SizeAccurate
  <1>1. Init => SizeAccurate
    BY DEF Init, SizeAccurate, Owed
  <1>2. TypeOK /\ ChainInv /\ SizeAccurate /\ [Next]_vars => SizeAccurate'
    <2> SUFFICES ASSUME TypeOK, ChainInv, SizeAccurate, [Next]_vars
                 PROVE SizeAccurate'
      OBVIOUS
    <2> USE DEF SizeAccurate, Owed, pointers, heap, history
    <2>1. Len(sent) \in Nat /\ Len(received) \in Nat /\ size \in Int
          /\ (ppc \in {"destroy", "gone"} => cpc = "idle")
      BY DEF TypeOK, ChainInv
    <2>2. ASSUME NEW t \in Value, Link(t) PROVE SizeAccurate'
      BY <2>1, <2>2 DEF Link
    <2>3. CASE Publish
      <3>1. Len(sent') = Len(sent) + 1
        BY <2>3 DEF Publish, TypeOK
      <3> QED
        BY <2>1, <2>3, <3>1 DEF Publish
    <2>4. CASE Count \/ TestDivider \/ FreeFirst
      <3>1. sent' = sent /\ received' = received /\ cpc' = cpc
        BY <2>4 DEF Count, TestDivider, FreeFirst
      <3>2. CASE Count
        BY <2>1, <3>1, <3>2 DEF Count
      <3>3. CASE TestDivider \/ FreeFirst
        <4>1. size' = size /\ ppc # "count" /\ ppc' # "count" /\ ppc # "gone"
          BY <3>3 DEF TestDivider, FreeFirst
        <4> QED
          BY <2>1, <3>1, <4>1
      <3> QED
        BY <2>4, <3>2, <3>3
    <2>5. CASE TestLast \/ LoadNext \/ CopyValue \/ Uncount
      <3>1. sent' = sent /\ received' = received /\ ppc' = ppc
        BY <2>5 DEF TestLast, LoadNext, CopyValue, Uncount
      <3>2. CASE Uncount
        BY <2>1, <3>1, <3>2 DEF Uncount
      <3>3. CASE TestLast \/ LoadNext \/ CopyValue
        <4>1. size' = size /\ cpc # "uncount" /\ cpc' # "uncount"
          BY <3>3 DEF TestLast, LoadNext, CopyValue
        <4> QED
          BY <2>1, <3>1, <4>1
      <3> QED
        BY <2>5, <3>2, <3>3
    <2>6. CASE Advance
      <3>1. Len(received') = Len(received) + 1
        BY <2>6 DEF Advance, TypeOK
      <3> QED
        BY <2>1, <2>6, <3>1 DEF Advance
    <2>7. CASE BeginDestroy \/ DestroyNode \/ EndDestroy
      BY <2>1, <2>7 DEF BeginDestroy, DestroyNode, EndDestroy
    <2>8. CASE UNCHANGED vars
      BY <2>8 DEF vars
    <2> QED
      BY <2>2, <2>3, <2>4, <2>5, <2>6, <2>7, <2>8
         DEF Next, Produce, Consume, Destroy
  <1> QED
    BY <1>1, <1>2, TypeCorrect, ListShape, PTL DEF Spec

(* Removing a member of a set that counts a + 1 - f.                        *)
LEMMA DeleteCount ==
  ASSUME NEW S, IsFiniteSet(S), NEW x \in S, NEW a \in Nat, NEW f \in Nat,
         Cardinality(S) = a + 1 - f
  PROVE  /\ IsFiniteSet(S \ {x})
         /\ Cardinality(S \ {x}) = a + 1 - (f + 1)
  <1>1. IsFiniteSet(S \ {x}) /\ Cardinality(S \ {x}) = Cardinality(S) - 1
    BY FS_RemoveElement
  <1> QED
    BY <1>1

(* Nodes are deleted exactly once and none is left behind.                  *)
THEOREM LeakFree == Spec => []NoLeak
  <1> DEFINE Counted == /\ IsFiniteSet(live)
                        /\ Cardinality(live) = Allocated + 1 - freed
  <1>1. Init => Counted
    <2>1. IsFiniteSet({Dummy}) /\ Cardinality({Dummy}) = 1
      BY FS_Singleton
    <2>2. Init => live = {Dummy} /\ Allocated = 0 /\ freed = 0
      BY DEF Init, Allocated, Owed
    <2> QED
      BY <2>1, <2>2
  <1>2. QInv /\ Counted /\ [Next]_vars => Counted'
    <2> SUFFICES ASSUME QInv, Counted, [Next]_vars PROVE Counted'
      OBVIOUS
    <2>1. /\ Allocated \in Nat /\ freed \in Nat /\ Len(sent) \in Nat
          /\ Allocated = Len(sent) + (IF ppc = "publish" THEN 1 ELSE 0)
      BY DEF QInv, TypeOK, Allocated, Owed
    <2>2. ASSUME NEW t \in Value, Link(t) PROVE Counted'
      <3>1. PICK n \in Addr \ live : live' = live \cup {n}
        BY <2>2 DEF Link
      <3>2. Allocated' = Allocated + 1 /\ freed' = freed
        BY <2>1, <2>2 DEF Link, Allocated, Owed
      <3> QED
        BY <2>1, <3>1, <3>2, FS_AddElement
    <2>3. CASE FreeFirst \/ DestroyNode
      <3>1. /\ live' = live \ {first} /\ freed' = freed + 1
            /\ Allocated' = Allocated /\ Allocated = Len(sent)
        BY <2>1, <2>3 DEF FreeFirst, DestroyNode, Allocated, Owed
      <3>2. freed <= Allocated /\ first = node[freed]
        <4>1. CASE ppc = "free"
          BY <2>1, <3>1, <4>1 DEF QInv, TypeOK, ChainInv
        <4>2. CASE ppc = "destroy"
          BY <2>1, <2>3, <3>1, <4>2 DEF QInv, TypeOK, ChainInv, FreeFirst, DestroyNode
        <4> QED
          BY <4>1, <4>2, <2>3 DEF FreeFirst, DestroyNode
      <3>3. first \in live
        BY <2>1, <3>2, NodeFacts
      <3> QED
        <4>1. /\ IsFiniteSet(live \ {first})
              /\ Cardinality(live \ {first}) = Allocated + 1 - (freed + 1)
          BY <2>1, <3>3, DeleteCount
        <4> QED
          BY <3>1, <4>1, Zenon
    <2>4. CASE Publish
      <3>1. Len(sent') = Len(sent) + 1
        BY <2>4 DEF Publish, QInv, TypeOK
      <3>2. live' = live /\ freed' = freed /\ Allocated' = Allocated
        BY <2>1, <2>4, <3>1 DEF Publish, heap, Allocated, Owed
      <3> QED
        BY <3>2
    <2>5. CASE Count \/ TestDivider \/ Consume \/ BeginDestroy \/ EndDestroy
      <3>1. live' = live /\ freed' = freed /\ Allocated' = Allocated
        BY <2>5 DEF Count, TestDivider, Consume, BeginDestroy, EndDestroy, heap,
           TestLast, LoadNext, CopyValue, Advance, Uncount, history, Allocated, Owed
      <3> QED
        BY <3>1
    <2>6. CASE UNCHANGED vars
      BY <2>6 DEF vars, Allocated
    <2> QED
      BY <2>2, <2>3, <2>4, <2>5, <2>6 DEF Next, Produce, Destroy
  <1>3. QInv /\ Counted => NoLeak
    <2> SUFFICES ASSUME QInv, Counted PROVE NoLeak
      OBVIOUS
    <2>1. ppc = "gone" => Cardinality(live) = 0
      BY DEF QInv, TypeOK, ChainInv, Allocated, Owed
    <2>2. ppc = "gone" => live = {}
      BY <2>1, FS_EmptySet
    <2> QED
      <3>1. Len(sent) \in Nat /\ freed \in Nat
        BY DEF QInv, TypeOK
      <3>2. Cardinality(live) = Len(sent) + 1 + Owed(ppc = "publish") - freed
        BY <3>1 DEF Allocated, Owed
      <3> QED
        BY <2>2, <3>2 DEF NoLeak
  <1> HIDE DEF Counted
  <1> QED
    BY <1>1, <1>2, <1>3, InitQInv, NextQInv, PTL DEF Spec

(* The queue refines Fifo: stores to last are Enqueue steps, stores to      *)
(* divider are Dequeue steps that return the oldest value not yet returned, *)
(* and every other step of either thread is invisible.                      *)
THEOREM Refinement == Spec => ImplementsFifo
  <1>1. Init => F!Init
    BY DEF Init, F!Init
  <1>2. QInv /\ [Next]_vars => [F!Next]_(F!fifoVars)
    <2> SUFFICES ASSUME QInv, [Next]_vars PROVE [F!Next]_(F!fifoVars)
      OBVIOUS
    <2> USE DEF F!Next, F!fifoVars
    <2>1. CASE Publish
      <3>1. last \in Addr /\ next[last] \in Addr
        <4>1. /\ ppc = "publish" /\ Allocated = Len(sent) + 1 /\ Len(sent) \in Nat
              /\ freed <= Len(sent) /\ freed \in Nat /\ Len(received) \in Nat
          BY <2>1 DEF Publish, QInv, TypeOK, ChainInv, Allocated, Owed
        <4> QED
          BY <4>1, NodeFacts DEF QInv, ChainInv, TypeOK
      <3>2. value[next[last]] \in Value
        BY <3>1 DEF QInv, TypeOK
      <3>3. F!Enqueue(value[next[last]])
        BY <2>1 DEF Publish, F!Enqueue
      <3> QED
        BY <3>2, <3>3
    <2>2. CASE Advance
      <3>1. F!Dequeue
        BY <2>2 DEF Advance, QInv, ChainInv, F!Dequeue
      <3> QED
        BY <3>1
    <2>3. CASE Count \/ TestDivider \/ FreeFirst \/ \E t \in Value : Link(t)
      BY <2>3 DEF Count, TestDivider, FreeFirst, Link, history
    <2>4. CASE TestLast \/ LoadNext \/ CopyValue \/ Uncount
      BY <2>4 DEF TestLast, LoadNext, CopyValue, Uncount, history
    <2>5. CASE Destroy
      BY <2>5 DEF Destroy, BeginDestroy, DestroyNode, EndDestroy, history
    <2>6. CASE UNCHANGED vars
      BY <2>6 DEF vars
    <2> QED
      BY <2>1, <2>2, <2>3, <2>4, <2>5, <2>6 DEF Next, Produce, Consume
  <1> QED
    BY <1>1, <1>2, InitQInv, NextQInv, PTL DEF Spec, ImplementsFifo, F!Spec
=============================================================================
