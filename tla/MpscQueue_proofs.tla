-------------------------- MODULE MpscQueue_proofs --------------------------
(***************************************************************************)
(* Proofs about MpscQueue, for any number of producers, items and node     *)
(* addresses.  The argument: the items in live nodes are the numbers from  *)
(* delivered to arrived, each in one node; links lead from one number to   *)
(* the next; and a node without a successor is the head or is held by the  *)
(* one producer that is about to link it.  So the node the consumer        *)
(* deletes, which has a successor, is held by nobody.                      *)
(***************************************************************************)
EXTENDS MpscQueue, FiniteSetTheorems, TLAPS

\* Each live node holds an item of its own; the ends hold the extreme ones.
Items ==
  /\ \A n \in live : data[n] >= delivered /\ data[n] <= arrived
  /\ \A m, n \in live : data[m] = data[n] => m = n
  /\ cpc # "destroyed" => /\ head_ \in live /\ data[head_] = arrived
                          /\ tail_ \in live /\ data[tail_] = delivered

\* A link leads to a live node with the next item.
Links ==
  \A n \in live : next_[n] # Null => next_[n] \in live /\ data[next_[n]] = data[n] + 1

\* A producer between its two steps owns its node and the missing link to it.
Owners ==
  /\ \A p \in Linking : /\ node[p] \in live /\ prevhead[p] \in live
                        /\ next_[prevhead[p]] = Null /\ prevhead[p] # head_
                        /\ data[node[p]] = data[prevhead[p]] + 1
  /\ \A p, q \in Linking : prevhead[p] = prevhead[q] => p = q

\* No link is missing but the head's and those.
MissingLinks ==
  /\ cpc # "destroyed" => next_[head_] = Null
  /\ \A n \in live : \/ n = head_ \/ next_[n] # Null
                     \/ \E p \in Linking : prevhead[p] = n

Consumer ==
  /\ cpc = "take" => next = next_[tail_] /\ next # Null
  /\ closing => Linking = {}
  /\ cpc = "destroyed" => closing

Count ==
  /\ IsFiniteSet(live)
  /\ cpc # "destroyed" => Cardinality(live) = arrived - delivered + 1
  /\ cpc = "destroyed" => live = {} /\ delivered = arrived

Shape == Items /\ Links /\ Owners /\ MissingLinks /\ Consumer
Inv == TypeOK /\ Shape /\ Count

-----------------------------------------------------------------------------
\* Init establishes the invariant: one stub, no item.
LEMMA InitInv == Init => Inv
<1> SUFFICES ASSUME Init PROVE Inv
  OBVIOUS
<1>1. Stub \in Nodes
  BY NodesAssumption DEF Stub, NodesAssumption
<1>2. TypeOK
  BY <1>1 DEF Init, TypeOK
<1>3. Linking = {}
  BY DEF Init, Linking
<1>4. Shape
  BY <1>1, <1>3 DEF Init, Shape, Items, Links, Owners, MissingLinks, Consumer
<1>5. Count
  <2>1. IsFiniteSet({Stub}) /\ Cardinality({Stub}) = 1
    BY FS_Singleton
  <2> QED BY <2>1 DEF Init, Count
<1> QED BY <1>2, <1>4, <1>5 DEF Inv

\* enqueue(), first step: the new node is the only one with the new item.
LEMMA ExchangeInv ==
  ASSUME Inv, NEW p \in Producers, Exchange(p)
  PROVE  Inv'
<1> USE NodesAssumption DEF NodesAssumption
<1>1. PICK n \in Nodes \ live :
        /\ live' = live \cup {n}
        /\ next_' = [next_ EXCEPT ![n] = Null]
        /\ data' = [data EXCEPT ![n] = arrived + 1]
        /\ node' = [node EXCEPT ![p] = n]
        /\ prevhead' = [prevhead EXCEPT ![p] = head_]
        /\ head_' = n
  BY DEF Exchange
<1>2. /\ ppc[p] = "idle" /\ ppc' = [ppc EXCEPT ![p] = "link"] /\ ~closing
      /\ arrived' = arrived + 1
      /\ UNCHANGED <<tail_, cpc, next, closing, delivered>>
  BY DEF Exchange, ConsumerVars
<1>3. TypeOK'
  BY <1>1, <1>2 DEF Inv, TypeOK
<1>4. /\ cpc # "destroyed" /\ p \notin Linking /\ Linking' = Linking \cup {p}
      /\ head_ \in live /\ tail_ \in live
      /\ \A m \in live : data'[m] = data[m] /\ next_'[m] = next_[m]
      /\ data'[n] = arrived + 1 /\ next_'[n] = Null
      /\ \A q \in Linking : node'[q] = node[q] /\ prevhead'[q] = prevhead[q]
      /\ node'[p] = n /\ prevhead'[p] = head_
  BY <1>1, <1>2 DEF Inv, TypeOK, Shape, Consumer, Items, Linking
<1>5. Items'
  BY <1>1, <1>2, <1>4 DEF Inv, TypeOK, Shape, Items
<1>6. Links'
  BY <1>1, <1>2, <1>4 DEF Inv, TypeOK, Shape, Items, Links
<1>7. Owners'
  BY <1>1, <1>2, <1>4 DEF Inv, TypeOK, Shape, Items, Owners, MissingLinks
<1>8. MissingLinks'
  BY <1>1, <1>2, <1>4 DEF Inv, Shape, MissingLinks
<1>9. Consumer'
  BY <1>1, <1>2, <1>4 DEF Inv, Shape, Consumer
<1>10. Count'
  <2>1. IsFiniteSet(live') /\ Cardinality(live') = Cardinality(live) + 1
    BY <1>1, FS_AddElement DEF Inv, Count
  <2> QED BY <1>2, <1>4, <2>1 DEF Inv, TypeOK, Count
<1> QED BY <1>3, <1>5, <1>6, <1>7, <1>8, <1>9, <1>10 DEF Inv, Shape

\* enqueue(), second step: the missing link is put in place.
LEMMA LinkInv ==
  ASSUME Inv, NEW p \in Producers, Link(p)
  PROVE  Inv'
<1> USE NodesAssumption DEF NodesAssumption
<1>1. /\ ppc[p] = "link" /\ ppc' = [ppc EXCEPT ![p] = "idle"]
      /\ next_' = [next_ EXCEPT ![prevhead[p]] = node[p]]
      /\ UNCHANGED <<head_, live, data, node, prevhead, arrived, tail_, cpc, next, closing, delivered>>
  BY DEF Link, ConsumerVars
<1>2. p \in Linking /\ Linking' = Linking \ {p}
  BY <1>1 DEF Inv, TypeOK, Linking
<1>3. /\ node[p] \in live /\ prevhead[p] \in live /\ prevhead[p] # head_
      /\ next_[prevhead[p]] = Null /\ data[node[p]] = data[prevhead[p]] + 1
  BY <1>2 DEF Inv, Shape, Owners
<1>4. TypeOK'
  BY <1>1, <1>3 DEF Inv, TypeOK
<1>5. Items' /\ Count'
  BY <1>1 DEF Inv, Shape, Items, Count
<1>6. Links'
  BY <1>1, <1>3 DEF Inv, TypeOK, Shape, Links
<1>7. Owners'
  BY <1>1, <1>2, <1>3 DEF Inv, TypeOK, Shape, Owners
<1>8. MissingLinks'
  BY <1>1, <1>2, <1>3 DEF Inv, TypeOK, Shape, MissingLinks
<1>9. Consumer'
  BY <1>1, <1>2, <1>3 DEF Inv, TypeOK, Shape, Consumer
<1> QED BY <1>4, <1>5, <1>6, <1>7, <1>8, <1>9 DEF Inv, Shape

\* dequeue() deletes the old tail: it has a successor, so no producer holds it,
\* and no link leads to it, since it has the least item.
LEMMA TakeInv ==
  ASSUME Inv, Take
  PROVE  Inv'
<1> USE NodesAssumption DEF NodesAssumption
<1>1. /\ cpc = "take" /\ cpc' = "idle" /\ next' = Null
      /\ delivered' = delivered + 1 /\ tail_' = next /\ live' = live \ {tail_}
      /\ UNCHANGED <<next_, closing, head_, data, ppc, node, prevhead, arrived>>
  BY DEF Take, ProducerVars
<1>2. /\ tail_ \in live /\ next = next_[tail_] /\ next # Null /\ next \in live
      /\ data[next] = delivered + 1 /\ data[tail_] = delivered /\ next # tail_
      /\ Linking' = Linking
  BY <1>1 DEF Inv, TypeOK, Shape, Consumer, Items, Links, Linking
<1>3. TypeOK'
  BY <1>1, <1>2 DEF Inv, TypeOK
<1>4. Items'
  <2>1. tail_ # head_
    BY <1>1, <1>2 DEF Inv, Shape, MissingLinks
  <2> QED BY <1>1, <1>2, <2>1 DEF Inv, TypeOK, Shape, Items
<1>5. Links'
  BY <1>1, <1>2 DEF Inv, TypeOK, Shape, Items, Links
<1>6. Owners'
  <2>1. \A p \in Linking : prevhead[p] # tail_ /\ node[p] # tail_
    BY <1>2 DEF Inv, TypeOK, Shape, Items, Owners
  <2> QED BY <1>1, <1>2, <2>1 DEF Inv, Shape, Owners
<1>7. MissingLinks'
  BY <1>1, <1>2 DEF Inv, Shape, MissingLinks
<1>8. Consumer'
  BY <1>1, <1>2 DEF Inv, Shape, Consumer
<1>9. Count'
  <2>1. IsFiniteSet(live') /\ Cardinality(live') = Cardinality(live) - 1
    BY <1>1, <1>2, FS_RemoveElement DEF Inv, Count
  <2> QED BY <1>1, <2>1 DEF Inv, TypeOK, Count
<1> QED BY <1>3, <1>4, <1>5, <1>6, <1>7, <1>8, <1>9 DEF Inv, Shape

\* The destructor finds the stub only: every other node would have a successor.
LEMMA DeleteFrontInv ==
  ASSUME Inv, DeleteFront
  PROVE  Inv'
<1>1. /\ closing /\ cpc = "idle" /\ next_[tail_] = Null
      /\ live' = live \ {head_} /\ cpc' = "destroyed"
      /\ UNCHANGED <<tail_, next_, next, closing, delivered, head_, data, ppc, node, prevhead, arrived>>
  BY DEF DeleteFront, Empty, ProducerVars
<1>2. Linking = {} /\ Linking' = {}
  BY <1>1 DEF Inv, Shape, Consumer, Linking
<1>3. tail_ = head_ /\ delivered = arrived
  BY <1>1, <1>2 DEF Inv, Shape, Items, MissingLinks
<1>4. live' = {}
  <2>1. \A n \in live : data[n] = data[head_]
    BY <1>1, <1>3 DEF Inv, TypeOK, Shape, Items
  <2> QED BY <1>1, <2>1 DEF Inv, Shape, Items
<1>5. TypeOK'
  BY <1>1 DEF Inv, TypeOK
<1>6. Shape'
  BY <1>1, <1>2, <1>4 DEF Inv, Shape, Items, Links, Owners, MissingLinks, Consumer
<1>7. Count'
  BY <1>1, <1>3, <1>4, FS_EmptySet DEF Count
<1> QED BY <1>5, <1>6, <1>7 DEF Inv

\* Every step keeps the invariant.
LEMMA NextInv == Inv /\ [Next]_vars => Inv'
<1> SUFFICES ASSUME Inv, [Next]_vars PROVE Inv'
  OBVIOUS
<1>1. ASSUME NEW p \in Producers, Exchange(p) PROVE Inv'
  BY <1>1, ExchangeInv
<1>2. ASSUME NEW p \in Producers, Link(p) PROVE Inv'
  BY <1>2, LinkInv
<1>3. CASE LoadNext
  <2>1. Linking' = Linking
    BY <1>3 DEF LoadNext, ProducerVars, Linking
  <2>2. TypeOK'
    BY <1>3 DEF LoadNext, Empty, ProducerVars, Inv, TypeOK
  <2>3. Shape'
    BY <1>3, <2>1 DEF LoadNext, Empty, ProducerVars, Inv, Shape, Items, Links, Owners,
                      MissingLinks, Consumer
  <2>4. Count'
    BY <1>3 DEF LoadNext, ProducerVars, Inv, Count
  <2> QED BY <2>2, <2>3, <2>4 DEF Inv
<1>4. CASE Take BY <1>4, TakeInv
<1>5. CASE StartDestructor
  <2>1. Linking' = {} /\ Linking = {}
    BY <1>5 DEF StartDestructor, ProducerVars, Linking
  <2>2. TypeOK'
    BY <1>5 DEF StartDestructor, ProducerVars, Inv, TypeOK
  <2>3. Shape'
    BY <1>5, <2>1 DEF StartDestructor, ProducerVars, Inv, Shape, Items, Links, Owners,
                      MissingLinks, Consumer
  <2>4. Count'
    BY <1>5 DEF StartDestructor, ProducerVars, Inv, Count
  <2> QED BY <2>2, <2>3, <2>4 DEF Inv
<1>6. CASE DeleteFront BY <1>6, DeleteFrontInv
<1>7. CASE UNCHANGED vars
  BY <1>7 DEF vars, Inv, TypeOK, Shape, Items, Links, Owners, MissingLinks, Consumer, Count, Linking
<1> QED BY <1>1, <1>2, <1>3, <1>4, <1>5, <1>6, <1>7 DEF Next, Dequeue

\* The invariant holds throughout.
LEMMA Invariant == Spec => []Inv
  BY InitInv, NextInv, PTL DEF Spec

-----------------------------------------------------------------------------
\* Every variable keeps its type: dequeue() dereferences no null pointer.
THEOREM TypeCorrect == Spec => []TypeOK
  BY Invariant, PTL DEF Inv

\* Nobody touches a deleted node, for any number of producers and although
\* addresses are used again.
THEOREM MemorySafe == Spec => []NoUseAfterFree
<1>1. Inv => NoUseAfterFree
  BY DEF Inv, TypeOK, Shape, Items, Links, Owners, Consumer, NoUseAfterFree
<1> QED BY <1>1, Invariant, PTL

\* Items come out in the order of the exchanges, none lost and none twice.
THEOREM Fifo == Spec => []FifoNoLoss
<1>1. Inv => FifoNoLoss
  BY DEF Inv, TypeOK, Shape, Items, Links, Consumer, FifoNoLoss
<1> QED BY <1>1, Invariant, PTL

\* The queue looks empty although it is not only while the producer of the
\* very next item is between its two steps.
THEOREM FalseEmpty == Spec => []EmptyOnlyBehindLink
<1>1. Inv => EmptyOnlyBehindLink
  BY DEF Inv, TypeOK, Shape, Items, Owners, MissingLinks, EmptyOnlyBehindLink, Empty
<1> QED BY <1>1, Invariant, PTL

\* One node per item not taken and the stub; none once the queue is destroyed.
THEOREM LeakFree == Spec => []NoLeak
<1>1. Inv => NoLeak
  BY DEF Inv, Count, NoLeak
<1> QED BY <1>1, Invariant, PTL
=============================================================================
