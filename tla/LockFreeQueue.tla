--------------------------- MODULE LockFreeQueue ----------------------------
(***************************************************************************)
(* base/lock_free_queue.h: the linked list that carries messages from one  *)
(* producer thread to one consumer thread without a lock.  RtcWorker       *)
(* (_q_msg, fed by the RtcServer thread) and SignalingWorker (_q_conn, fed *)
(* by the SignalingServer thread) each own one.                            *)
(*                                                                         *)
(* Every access to a shared pointer or to a node of the heap is a step of  *)
(* its own.  first is only used by the producer, divider is written by the *)
(* consumer and read by the producer, last the other way round.  Steps are *)
(* interleaved: the pointers are aligned words, each thread publishes its  *)
(* stores in program order on the x86-64 targets of the build, and the     *)
(* atomic read-modify-write of _size stands between the store a thread     *)
(* publishes and the next pointer it reads, so no store is overtaken by a  *)
(* later load.  The header's own assumption, "pointer operations are       *)
(* atomic", is the same.                                                   *)
(*                                                                         *)
(* Node addresses come from the pool Addr and are reused after delete, so  *)
(* that a comparison of two pointers may meet a recycled address.          *)
(***************************************************************************)
EXTENDS Integers, Sequences, FiniteSets

CONSTANTS Addr,      \* addresses the allocator can return for a Node
          Value,     \* values of T
          Dummy,     \* the first node, allocated by the constructor
          Null,      \* nullptr
          MaxItems   \* bound: calls of produce

ASSUME QueueAssumption ==
  /\ Dummy \in Addr
  /\ Null \notin Addr
  /\ Value # {}
  /\ MaxItems \in Nat

VARIABLES
  first, divider, last,  \* the three pointers of the queue
  live,                  \* addresses of the nodes not deleted yet
  next, value,           \* the fields of the nodes
  size,                  \* _size
  ppc, cpc,              \* where the producer and the consumer are
  cnext, result,         \* consume()'s divider->next and *result
  sent, received,        \* history: values published, values returned
  node, freed            \* history: address of the i-th node allocated,
                         \* number of nodes deleted

pointers == <<first, divider, last>>
heap == <<live, next, value>>
history == <<sent, received, node, freed>>
vars == <<first, divider, last, live, next, value, size, ppc, cpc, cnext,
          result, sent, received, node, freed>>

ProducerPc == {"idle", "publish", "count", "test", "free", "destroy", "gone"}
ConsumerPc == {"idle", "load", "copy", "advance", "uncount"}

TypeOK ==
  /\ first \in Addr \cup (IF ppc \in {"destroy", "gone"} THEN {Null} ELSE {})
  /\ divider \in Addr
  /\ last \in Addr
  /\ live \subseteq Addr
  /\ next \in [Addr -> Addr \cup {Null}]
  /\ value \in [Addr -> Value]
  /\ size \in Int
  /\ ppc \in ProducerPc
  /\ cpc \in ConsumerPc
  /\ cnext \in Addr \cup {Null}
  /\ result \in Value
  /\ sent \in Seq(Value)
  /\ received \in Seq(Value)
  /\ node \in [0..MaxItems -> Addr]
  /\ freed \in Nat

-----------------------------------------------------------------------------
(* The constructor.  T() of the dummy and an uninitialised *result are any  *)
(* value: nothing may depend on them.                                       *)
Init ==
  /\ first = Dummy
  /\ divider = Dummy
  /\ last = Dummy
  /\ live = {Dummy}
  /\ next = [a \in Addr |-> Null]
  /\ \E t \in Value : value = [a \in Addr |-> t] /\ result = t
  /\ size = 0
  /\ ppc = "idle"
  /\ cpc = "idle"
  /\ cnext = Null
  /\ sent = << >>
  /\ received = << >>
  /\ node = [i \in 0..MaxItems |-> Dummy]
  /\ freed = 0

-----------------------------------------------------------------------------
(* produce(t)                                                               *)

(* last->next = new Node(t).  The new node is private until it is linked,   *)
(* so its construction and the store are one step.                          *)
Link(t) ==
  /\ ppc = "idle"
  /\ Len(sent) < MaxItems
  /\ \E n \in Addr \ live :
       /\ live' = live \cup {n}
       /\ value' = [value EXCEPT ![n] = t]
       /\ next' = [next EXCEPT ![n] = Null, ![last] = n]
       /\ node' = [node EXCEPT ![Len(sent) + 1] = n]
  /\ ppc' = "publish"
  /\ UNCHANGED <<pointers, size, cpc, cnext, result, sent, received, freed>>

(* last = last->next: the value is now visible to consume().                *)
Publish ==
  /\ ppc = "publish"
  /\ last' = next[last]
  /\ sent' = Append(sent, value[next[last]])
  /\ ppc' = "count"
  /\ UNCHANGED <<first, divider, heap, size, cpc, cnext, result,
                 received, node, freed>>

(* ++_size                                                                  *)
Count ==
  /\ ppc = "count"
  /\ size' = size + 1
  /\ ppc' = "test"
  /\ UNCHANGED <<pointers, heap, cpc, cnext, result, history>>

TestDivider_UpToLast ==
  /\ ppc = "test"
  /\ ppc' = IF last # first THEN "free" ELSE "idle"
  /\ UNCHANGED <<pointers, heap, size, cpc, cnext, result, history>>

(* while (divider != first): reads the pointer the consumer moves.          *)
TestDivider ==
  /\ ppc = "test"
  /\ ppc' = IF divider # first THEN "free" ELSE "idle"
  /\ UNCHANGED <<pointers, heap, size, cpc, cnext, result, history>>

FreeFirst_NoDelete ==
  /\ ppc = "free"
  /\ first' = next[first]
  /\ freed' = freed + 1
  /\ ppc' = "test"
  /\ UNCHANGED <<divider, last, heap, size, cpc, cnext, result,
                 sent, received, node>>

(* temp = first; first = first->next; delete temp                           *)
FreeFirst ==
  /\ ppc = "free"
  /\ first' = next[first]
  /\ live' = live \ {first}
  /\ freed' = freed + 1
  /\ ppc' = "test"
  /\ UNCHANGED <<divider, last, next, value, size, cpc, cnext, result,
                 sent, received, node>>

-----------------------------------------------------------------------------
(* consume(&result)                                                         *)

TestLast_NoGuard ==
  /\ cpc = "idle"
  /\ ppc \notin {"destroy", "gone"}
  /\ cpc' = "load"
  /\ UNCHANGED <<pointers, heap, size, ppc, cnext, result, history>>

(* if (divider != last), else return false: reads the pointer the producer  *)
(* moves.                                                                   *)
TestLast ==
  /\ cpc = "idle"
  /\ ppc \notin {"destroy", "gone"}
  /\ cpc' = IF divider # last THEN "load" ELSE "idle"
  /\ UNCHANGED <<pointers, heap, size, ppc, cnext, result, history>>

(* divider->next                                                            *)
LoadNext ==
  /\ cpc = "load"
  /\ cnext' = next[divider]
  /\ cpc' = "copy"
  /\ UNCHANGED <<pointers, heap, size, ppc, result, history>>

CopyValue_OwnNode ==
  /\ cpc = "copy"
  /\ result' = value[divider]
  /\ cpc' = "advance"
  /\ UNCHANGED <<pointers, heap, size, ppc, cnext, history>>

(* *result = divider->next->value                                           *)
CopyValue ==
  /\ cpc = "copy"
  /\ result' = value[cnext]
  /\ cpc' = "advance"
  /\ UNCHANGED <<pointers, heap, size, ppc, cnext, history>>

(* divider = divider->next: from here on the producer may free the node.    *)
Advance ==
  /\ cpc = "advance"
  /\ divider' = next[divider]
  /\ received' = Append(received, result)
  /\ cpc' = "uncount"
  /\ UNCHANGED <<first, last, heap, size, ppc, cnext, result,
                 sent, node, freed>>

Uncount_Forgotten ==
  /\ cpc = "uncount"
  /\ cpc' = "idle"
  /\ UNCHANGED <<pointers, heap, size, ppc, cnext, result, history>>

(* --_size; return true                                                     *)
Uncount ==
  /\ cpc = "uncount"
  /\ size' = size - 1
  /\ cpc' = "idle"
  /\ UNCHANGED <<pointers, heap, ppc, cnext, result, history>>

-----------------------------------------------------------------------------
(* ~LockFreeQueue: the owner deletes the queue once neither thread is in a  *)
(* call; one step per turn of the loop, and _size = 0 at its end.           *)
BeginDestroy ==
  /\ ppc = "idle"
  /\ cpc = "idle"
  /\ ppc' = "destroy"
  /\ UNCHANGED <<pointers, heap, size, cpc, cnext, result, history>>

DestroyNode ==
  /\ ppc = "destroy"
  /\ first # Null
  /\ first' = next[first]
  /\ live' = live \ {first}
  /\ freed' = freed + 1
  /\ UNCHANGED <<divider, last, next, value, size, ppc, cpc, cnext, result,
                 sent, received, node>>

EndDestroy ==
  /\ ppc = "destroy"
  /\ first = Null
  /\ size' = 0
  /\ ppc' = "gone"
  /\ UNCHANGED <<pointers, heap, cpc, cnext, result, history>>

-----------------------------------------------------------------------------
Produce == Publish \/ Count \/ TestDivider \/ FreeFirst
              \/ \E t \in Value : Link(t)

Consume == TestLast \/ LoadNext \/ CopyValue \/ Advance \/ Uncount

Destroy == BeginDestroy \/ DestroyNode \/ EndDestroy

Next == Produce \/ Consume \/ Destroy

Spec == Init /\ [][Next]_vars

-----------------------------------------------------------------------------
(* Properties                                                               *)

(* No thread is about to dereference a deleted node: produce() writes       *)
(* last->next and reads first->next, consume() reads divider->next (twice)  *)
(* and the value of the node after it, the destructor reads first->next.    *)
NoUseAfterFree ==
  /\ ppc \in {"idle", "publish"} => last \in live
  /\ ppc = "free" => first \in live
  /\ ppc = "destroy" /\ first # Null => first \in live
  /\ cpc \in {"load", "advance"} => divider \in live
  /\ cpc = "copy" => cnext \in live

(* The two threads never touch the same field of the same node: the next    *)
(* field produce() is about to store is not one consume() is about to read, *)
(* and the node produce() is about to delete is not one consume() is using. *)
NoNodeRace ==
  /\ cpc \in {"load", "advance"} /\ ppc = "idle" => divider # last
  /\ ppc = "free" => first # divider
  /\ ppc = "free" /\ cpc = "copy" => first # cnext

(* _size is the number of values a consumer could take, up to the update    *)
(* each thread still owes: empty() and size() may be off by one in either   *)
(* direction, and _size itself is at least -1.                              *)
Owed(b) == IF b THEN 1 ELSE 0

SizeAccurate ==
  ppc # "gone" =>
    size = Len(sent) - Len(received) - Owed(ppc = "count") + Owed(cpc = "uncount")

(* Every node allocated is deleted once, by the clean-up loop of produce()  *)
(* or by the destructor: the nodes alive are those allocated (the dummy, one *)
(* per value and the one being linked) less those deleted, and the           *)
(* destructor leaves none behind.                                            *)
NoLeak ==
  /\ Cardinality(live) = Len(sent) + 1 + Owed(ppc = "publish") - freed
  /\ ppc = "gone" => live = {}

(* The shape of the list, from which the safety properties follow.  With    *)
(* the nodes numbered in the order of their allocation (0 is the dummy, i   *)
(* carries the i-th value), the nodes alive are exactly the consecutive     *)
(* numbers freed..Allocated, at distinct addresses and linked in order;     *)
(* first is the oldest of them, divider the last one consumed, last the     *)
(* last one published; and what consume() has in hand is the next value.    *)
Allocated == Len(sent) + Owed(ppc = "publish")

ChainInv ==
  /\ Allocated <= MaxItems
  /\ freed <= Allocated + 1
  /\ Len(received) <= Len(sent)
  /\ ppc \notin {"destroy", "gone"} => freed <= Len(received)
  /\ ppc = "free" => freed < Len(received)
  /\ ppc \in {"destroy", "gone"} => cpc = "idle"
  /\ ppc = "gone" => freed = Allocated + 1
  /\ first = IF freed <= Allocated THEN node[freed] ELSE Null
  /\ divider = node[Len(received)]
  /\ last = node[Len(sent)]
  /\ live = {node[i] : i \in freed..Allocated}
  /\ \A i, j \in freed..Allocated : node[i] = node[j] => i = j
  /\ \A i \in freed..Allocated :
       next[node[i]] = IF i < Allocated THEN node[i + 1] ELSE Null
  /\ \A i \in freed..Len(sent) : i > 0 => value[node[i]] = sent[i]
  /\ cpc \in {"load", "copy", "advance"} => Len(received) < Len(sent)
  /\ cpc = "copy" => cnext = node[Len(received) + 1]
  /\ cpc = "advance" => result = sent[Len(received) + 1]

(* The queue implements Fifo: values come out in order, once each, as they  *)
(* were handed in; the linearisation points are the stores to last and to   *)
(* divider.                                                                 *)
F == INSTANCE Fifo WITH Value <- Value, sent <- sent, received <- received

ImplementsFifo == F!Spec

=============================================================================
