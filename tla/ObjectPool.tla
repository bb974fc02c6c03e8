----------------------------- MODULE ObjectPool -----------------------------
(***************************************************************************)
(* xiao::ObjectPool: objects are handed out as shared_ptrs whose deleter   *)
(* puts the object back into the pool, if the pool is still there.         *)
(*                                                                         *)
(* The pool and the objects are reference counted, so a thread "holds" one *)
(* or the other; the last one to let go runs the deleter.  The deleter may *)
(* run after the pool has gone, and may itself keep the pool for a moment. *)
(* The sections under mtx_ are one step each.                              *)
(***************************************************************************)
EXTENDS Integers, FiniteSets, SequencesExt

CONSTANTS
  Threads,
  Objects,      \* addresses of objects
  NoObject      \* the null pointer

ASSUME ObjectsAssumption == IsFiniteSet(Objects) /\ NoObject \notin Objects
ASSUME ThreadsAssumption == IsFiniteSet(Threads)

VARIABLES
  alive,        \* whether the pool has not been destroyed
  owners,       \* threads that hold a shared_ptr to the pool
  objs_,
  allocated,    \* objects made by new and not deleted
  holders,      \* the threads that hold a shared_ptr to an object
  pc, p,        \* where a thread is in getObject() or in a deleter; its pointer
  leaked,       \* objects that were in objs_ when the pool was destroyed
  peak          \* the most objects ever in demand at one time

vars == <<alive, owners, objs_, allocated, holders, pc, p, leaked, peak>>

Init ==
  /\ alive = TRUE
  /\ owners \in {{t} : t \in Threads}
  /\ objs_ = <<>> /\ allocated = {}
  /\ holders = [o \in Objects |-> {}]
  /\ pc = [t \in Threads |-> "idle"]
  /\ p = [t \in Threads |-> NoObject]
  /\ leaked = {} /\ peak = 0

At(places) == {t \in Threads : pc[t] \in places}
Pooled == ToSet(objs_)
Held == {o \in Objects : holders[o] # {}}
InHand == {p[t] : t \in Threads} \ {NoObject}
Demand == Cardinality(Held \cup InHand) + Cardinality(At({"new"}))

Go(t, from, to, obj) ==
  /\ pc[t] = from
  /\ pc' = [pc EXCEPT ![t] = to]
  /\ p' = [p EXCEPT ![t] = obj]

\* Every change of what is held or in hand may raise the demand.
Measure == peak' = IF Demand' > peak THEN Demand' ELSE peak

-----------------------------------------------------------------------------
(* getObject() *)

PopWithoutRemoving(t) ==
  /\ t \in owners
  /\ IF objs_ = <<>> THEN Go(t, "idle", "new", NoObject)
     ELSE Go(t, "idle", "wrap", Last(objs_))
  /\ UNCHANGED <<alive, owners, objs_, allocated, holders, leaked>>
  /\ Measure

PopNever(t) ==
  /\ t \in owners
  /\ Go(t, "idle", "new", NoObject)
  /\ UNCHANGED <<alive, owners, objs_, allocated, holders, leaked>>
  /\ Measure

\* Under mtx_: take the last object, if there is one.
Pop(t) ==
  /\ t \in owners
  /\ IF objs_ = <<>> THEN Go(t, "idle", "new", NoObject) /\ UNCHANGED objs_
     ELSE Go(t, "idle", "wrap", Last(objs_)) /\ objs_' = Front(objs_)
  /\ UNCHANGED <<alive, owners, allocated, holders, leaked>>
  /\ Measure

Allocate(t) ==
  /\ \E o \in Objects \ allocated :
       /\ Go(t, "new", "wrap", o)
       /\ allocated' = allocated \cup {o}
  /\ UNCHANGED <<alive, owners, objs_, holders, leaked>>
  /\ Measure

\* The shared_ptr with its deleter is made and returned.
Wrap(t) ==
  /\ Go(t, "wrap", "idle", NoObject)
  /\ holders' = [holders EXCEPT ![p[t]] = {t}]
  /\ UNCHANGED <<alive, owners, objs_, allocated, leaked>>
  /\ Measure

-----------------------------------------------------------------------------
(* The users: copying shared_ptrs to another thread, and dropping them.    *)

ShareObject(t, u, o) ==
  /\ pc[t] = "idle" /\ t \in holders[o]
  /\ holders' = [holders EXCEPT ![o] = @ \cup {u}]
  /\ UNCHANGED <<alive, owners, objs_, allocated, pc, p, leaked, peak>>

DropObject(t, o) ==
  /\ pc[t] = "idle" /\ t \in holders[o]
  /\ holders' = [holders EXCEPT ![o] = @ \ {t}]
  /\ IF holders[o] = {t} THEN Go(t, "idle", "release", o) ELSE UNCHANGED <<pc, p>>
  /\ UNCHANGED <<alive, owners, objs_, allocated, leaked>>
  /\ Measure

SharePool(t, u) ==
  /\ pc[t] = "idle" /\ t \in owners
  /\ owners' = owners \cup {u}
  /\ UNCHANGED <<alive, objs_, allocated, holders, pc, p, leaked, peak>>

\* The last reference goes: ~ObjectPool() destroys the vector, which does
\* not delete the objects it points to.
LetGo(keepers) ==
  IF keepers = {} THEN alive' = FALSE /\ objs_' = <<>> /\ leaked' = leaked \cup Pooled
  ELSE UNCHANGED <<alive, objs_, leaked>>

DropPool(t) ==
  /\ pc[t] = "idle" /\ t \in owners
  /\ owners' = owners \ {t}
  /\ LetGo(owners' \cup At({"push", "unlock"}))
  /\ UNCHANGED <<allocated, holders, pc, p, peak>>

-----------------------------------------------------------------------------
(* The deleter *)

LockWeakPtrUntested(t) ==
  /\ Go(t, "release", "push", p[t])
  /\ UNCHANGED <<alive, owners, objs_, allocated, holders, leaked, peak>>

\* weakPtr.lock() gives a reference of its own, or none.
LockWeakPtr(t) ==
  /\ Go(t, "release", IF alive THEN "push" ELSE "delete", p[t])
  /\ UNCHANGED <<alive, owners, objs_, allocated, holders, leaked, peak>>

PushBack(t) ==
  /\ Go(t, "push", "unlock", NoObject)
  /\ objs_' = Append(objs_, p[t])
  /\ UNCHANGED <<alive, owners, allocated, holders, leaked>>
  /\ Measure

\* self, the deleter's own reference, goes out of scope.
ReleaseSelf(t) ==
  /\ Go(t, "unlock", "idle", NoObject)
  /\ LetGo(owners \cup (At({"push", "unlock"}) \ {t}))
  /\ UNCHANGED <<owners, allocated, holders, peak>>

Delete(t) ==
  /\ Go(t, "delete", "idle", NoObject)
  /\ allocated' = allocated \ {p[t]}
  /\ UNCHANGED <<alive, owners, objs_, holders, leaked>>
  /\ Measure

Next == \E t \in Threads :
  \/ Pop(t) \/ Allocate(t) \/ Wrap(t)
  \/ \E o \in Objects : DropObject(t, o)
  \/ \E u \in Threads, o \in Objects : ShareObject(t, u, o)
  \/ \E u \in Threads : SharePool(t, u)
  \/ DropPool(t)
  \/ LockWeakPtr(t) \/ PushBack(t) \/ ReleaseSelf(t) \/ Delete(t)

Spec == Init /\ [][Next]_vars

-----------------------------------------------------------------------------
(* Properties *)

\* Every variable keeps its type, and a thread between the null test and the
\* end of getObject(), or in a deleter, has an object in hand.
TypeOK ==
  /\ alive \in BOOLEAN
  /\ owners \subseteq Threads
  /\ objs_ \in Seq(Objects)
  /\ allocated \subseteq Objects /\ leaked \subseteq Objects
  /\ holders \in [Objects -> SUBSET Threads]
  /\ pc \in [Threads -> {"idle", "new", "wrap", "release", "push", "unlock", "delete"}]
  /\ p \in [Threads -> Objects \cup {NoObject}]
  /\ \A t \in Threads : p[t] # NoObject <=> pc[t] \in {"wrap", "release", "push", "delete"}
  /\ peak \in Nat

\* An object is in one place only: once in the pool, in the hands of one
\* thread inside getObject() or a deleter, held by users, or leaked; and it is
\* allocated exactly if it is in one.  So no object is handed out twice, none
\* is deleted or put back while somebody uses it, none deleted twice.
OnePlace ==
  /\ allocated = Pooled \cup InHand \cup Held \cup leaked
  /\ Pooled \cap (InHand \cup Held \cup leaked) = {}
  /\ InHand \cap (Held \cup leaked) = {}
  /\ Held \cap leaked = {}
  /\ \A i, j \in DOMAIN objs_ : objs_[i] = objs_[j] => i = j
  /\ \A t, u \in Threads : p[t] = p[u] /\ p[t] # NoObject => t = u

\* Nobody works on a pool that is gone: whoever is in getObject() or past
\* weakPtr.lock() keeps it alive, whatever the other threads drop.
PoolOutlivesItsUse ==
  /\ alive <=> owners \cup At({"push", "unlock"}) # {}
  /\ At({"new", "wrap"}) \subseteq owners

\* The pool never has more objects than were in demand at one moment: what
\* comes back is handed out again before anything is allocated.
ReusesBeforeAllocating ==
  Cardinality(allocated) + Cardinality(At({"new"})) <= peak
=============================================================================
