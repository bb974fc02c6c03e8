----------------------------- MODULE MpscQueue ------------------------------
(***************************************************************************)
(* xiao::MpscQueue, the linked queue of LockFreeQueue.h: producers swing   *)
(* head_ with an atomic exchange and then link the node they replaced to   *)
(* their own; the one consumer walks from tail_, a stub whose item has     *)
(* been taken already, and deletes the nodes it leaves behind.             *)
(*                                                                         *)
(* An item is the number of the exchange that brought it, so arrived and   *)
(* delivered say all about order.  Deleted nodes go back to the allocator  *)
(* and may come out again.  The release stores to next_ and the acquire    *)
(* loads of it publish the node's item; head_ is only exchanged and tail_  *)
(* is the consumer's own, so atomic steps on single variables lose no      *)
(* behaviour of the code.                                                  *)
(***************************************************************************)
EXTENDS Integers, FiniteSets

CONSTANTS
  Producers,
  Nodes,        \* addresses of BufferNodes
  Null,
  MaxItems      \* bound on the number of enqueues

ASSUME NodesAssumption == Null \notin Nodes /\ Nodes # {}
ASSUME MaxItemsAssumption == MaxItems \in Nat

VARIABLES
  head_, tail_,
  live,         \* allocated nodes
  next_,        \* of every node
  data,         \* the item dataPtr_ of a node points to
  ppc, node, prevhead,   \* the producers' program counter and locals
  cpc, next,    \* the consumer's
  closing,      \* whether the consumer is in ~MpscQueue()
  arrived, delivered

vars == <<head_, tail_, live, next_, data, ppc, node, prevhead, cpc, next,
          closing, arrived, delivered>>

Stub == CHOOSE n \in Nodes : TRUE

Init ==
  /\ head_ = Stub /\ tail_ = Stub
  /\ live = {Stub}
  /\ next_ = [n \in Nodes |-> Null]
  /\ data = [n \in Nodes |-> 0]
  /\ ppc = [p \in Producers |-> "idle"]
  /\ node = [p \in Producers |-> Null]
  /\ prevhead = [p \in Producers |-> Null]
  /\ cpc = "idle" /\ next = Null
  /\ closing = FALSE
  /\ arrived = 0 /\ delivered = 0

ConsumerVars == <<tail_, cpc, next, closing, delivered>>
ProducerVars == <<head_, data, ppc, node, prevhead, arrived>>

-----------------------------------------------------------------------------
(* enqueue() *)

\* new BufferNode and head_.exchange(node): the node is nobody else's before
\* the exchange, so allocating it needs no step of its own.
Exchange(p) ==
  /\ ~closing /\ ppc[p] = "idle" /\ arrived < MaxItems
  /\ \E n \in Nodes \ live :
       /\ live' = live \cup {n}
       /\ next_' = [next_ EXCEPT ![n] = Null]
       /\ data' = [data EXCEPT ![n] = arrived + 1]
       /\ node' = [node EXCEPT ![p] = n]
       /\ prevhead' = [prevhead EXCEPT ![p] = head_]
       /\ head_' = n
  /\ ppc' = [ppc EXCEPT ![p] = "link"]
  /\ arrived' = arrived + 1
  /\ UNCHANGED ConsumerVars

LinkNothing(p) ==
  /\ ppc[p] = "link"
  /\ ppc' = [ppc EXCEPT ![p] = "idle"]
  /\ UNCHANGED <<head_, live, next_, data, node, prevhead, arrived, ConsumerVars>>

\* prevhead->next_.store(node)
Link(p) ==
  /\ ppc[p] = "link"
  /\ next_' = [next_ EXCEPT ![prevhead[p]] = node[p]]
  /\ ppc' = [ppc EXCEPT ![p] = "idle"]
  /\ UNCHANGED <<head_, live, data, node, prevhead, arrived, ConsumerVars>>

-----------------------------------------------------------------------------
(* dequeue() and empty() *)

\* What empty() returns, and what makes dequeue() return false.
Empty == next_[tail_] = Null

LoadNext ==
  /\ cpc = "idle" /\ ~Empty
  /\ next' = next_[tail_]
  /\ cpc' = "take"
  /\ UNCHANGED <<tail_, live, next_, closing, delivered, ProducerVars>>

TakeAndKeep ==
  /\ cpc = "take"
  /\ delivered' = delivered + 1
  /\ tail_' = next
  /\ next' = Null /\ cpc' = "idle"
  /\ UNCHANGED <<live, next_, closing, ProducerVars>>

TakeAndDeleteNext ==
  /\ cpc = "take"
  /\ delivered' = delivered + 1
  /\ tail_' = next
  /\ live' = live \ {next}
  /\ next' = Null /\ cpc' = "idle"
  /\ UNCHANGED <<next_, closing, ProducerVars>>

TakeAndSkip ==
  /\ cpc = "take"
  /\ delivered' = delivered + 1
  /\ tail_' = IF next_[next] # Null THEN next_[next] ELSE next
  /\ live' = live \ {tail_}
  /\ next' = Null /\ cpc' = "idle"
  /\ UNCHANGED <<next_, closing, ProducerVars>>

\* Move the item out, delete it, advance tail_, delete the old tail.
Take ==
  /\ cpc = "take"
  /\ delivered' = delivered + 1
  /\ tail_' = next
  /\ live' = live \ {tail_}
  /\ next' = Null /\ cpc' = "idle"
  /\ UNCHANGED <<next_, closing, ProducerVars>>

Dequeue == LoadNext \/ Take

-----------------------------------------------------------------------------
(* ~MpscQueue(): no enqueue may be under way.  The loop is Dequeue until   *)
(* it returns false; then the remaining node goes.                         *)

StartDestructor ==
  /\ ~closing /\ cpc = "idle"
  /\ \A p \in Producers : ppc[p] = "idle"
  /\ closing' = TRUE
  /\ UNCHANGED <<tail_, live, next_, cpc, next, delivered, ProducerVars>>

DeleteFront ==
  /\ closing /\ cpc = "idle" /\ Empty
  /\ live' = live \ {head_}
  /\ cpc' = "destroyed"
  /\ UNCHANGED <<tail_, next_, next, closing, delivered, ProducerVars>>

Next ==
  \/ \E p \in Producers : Exchange(p) \/ Link(p)
  \/ Dequeue
  \/ StartDestructor \/ DeleteFront

Spec == Init /\ [][Next]_vars

\* A producer in enqueue() goes on and the consumer keeps polling.
Fairness == WF_vars(Dequeue) /\ \A p \in Producers : WF_vars(Link(p))
FairSpec == Spec /\ Fairness

-----------------------------------------------------------------------------
(* Properties *)

\* Every variable keeps its type; dequeue() never dereferences a null next.
TypeOK ==
  /\ head_ \in Nodes /\ tail_ \in Nodes
  /\ live \subseteq Nodes
  /\ next_ \in [Nodes -> Nodes \cup {Null}]
  /\ data \in [Nodes -> Nat]
  /\ ppc \in [Producers -> {"idle", "link"}]
  /\ node \in [Producers -> Nodes \cup {Null}]
  /\ prevhead \in [Producers -> Nodes \cup {Null}]
  /\ cpc \in {"idle", "take", "destroyed"}
  /\ next \in Nodes \cup {Null}
  /\ cpc = "take" => next \in Nodes
  /\ closing \in BOOLEAN
  /\ arrived \in Nat /\ delivered \in Nat

Linking == {p \in Producers : ppc[p] = "link"}

\* Nobody touches a deleted node: a producer between its exchange and its
\* store still owns a live predecessor, although the consumer deletes nodes
\* all the time and their addresses are used again.
NoUseAfterFree ==
  /\ cpc # "destroyed" => head_ \in live /\ tail_ \in live
  /\ cpc = "take" => next \in live
  /\ \A p \in Linking : node[p] \in live /\ prevhead[p] \in live

\* Items come out in the order of the exchanges: none lost, none twice.
FifoNoLoss == cpc = "take" => data[next] = delivered + 1

\* The queue looks empty to the consumer while an item is in it only as long
\* as the producer of the very next item is between its two steps.
EmptyOnlyBehindLink ==
  (cpc = "idle" /\ Empty /\ delivered < arrived) =>
    \E p \in Linking : prevhead[p] = tail_ /\ data[node[p]] = delivered + 1

\* Memory: one node per item not yet taken and the stub; the destructor
\* leaves nothing.
NoLeak ==
  /\ cpc # "destroyed" => Cardinality(live) = arrived - delivered + 1
  /\ cpc = "destroyed" => live = {} /\ delivered = arrived

\* "a lock-free multiple producers single consumer queue": an item whose
\* enqueue() has returned can be dequeued, whatever another producer does or
\* fails to do.
Unfinished == {data[node[p]] : p \in Linking}
CompletedIsVisible ==
  (cpc = "idle" /\ Empty) => \A i \in (delivered + 1)..arrived : i \in Unfinished

\* Every item is delivered, if no producer stops between its two steps.
Delivered == \A i \in 1..MaxItems : arrived >= i ~> delivered >= i
=============================================================================
