---------------------------- MODULE QueueProofs -----------------------------
(***************************************************************************)
(* Proofs about Queue, for every set of items: its types however the       *)
(* threads interleave, and that it implements Fifo and that a cleanse is   *)
(* complete when the callers keep two rules that no code of the repository *)
(* enforces: calls exclude each other (Serial), and no cleanse falls       *)
(* between the handler's look at count and its pop (PromptPop).            *)
(***************************************************************************)
EXTENDS Queue, SequenceTheorems, FiniteSetTheorems, TLAPS

(***************************************************************************)
(* No access of queue.c breaks the types, in any interleaving.             *)
(***************************************************************************)
LEMMA TypeStep == TypeOK /\ [Next]_vars => TypeOK'
<1> SUFFICES ASSUME TypeOK, [Next]_vars PROVE TypeOK'
  OBVIOUS
<1> USE ItemsAssumption, SizeAssumption DEF TypeOK, array, locals, ledger, Go, PC
<1>1. ASSUME NEW t \in Threads, NEW e \in Items, Push(t, e) PROVE TypeOK'
  BY <1>1 DEF Push, Call
<1>2. ASSUME NEW t \in Threads, PushStep(t) PROVE TypeOK'
  <2>1. CASE Grow(t)
    <3>1. max' \in Nat \ {0} /\ max' = 2 * max
      BY <2>1 DEF Grow
    <3>2. data' \in [0 .. max' - 1 -> Items \cup {NULL}]
      BY <2>1, <3>1 DEF Grow
    <3> QED
      BY <2>1, <3>1, <3>2 DEF Grow
  <2>0. CASE Room(t)
    BY <2>0 DEF Room
  <2>2. CASE GrowFails(t)
    BY <2>2 DEF GrowFails
  <2>5. CASE Store(t)
    BY <2>5 DEF Store
  <2>3. CASE Bump(t)
    BY <2>3 DEF Bump, LoadCount
  <2>4. CASE Bumped(t)
    <3>1. count' \in Nat
      BY <2>4 DEF Bumped, Inc
    <3> QED
      BY <2>4, <3>1 DEF Bumped
  <2> QED
    BY <1>2, <2>0, <2>1, <2>2, <2>3, <2>4, <2>5 DEF PushStep
<1>3. ASSUME NEW t \in Threads, ShiftStep(t) PROVE TypeOK'
  <2>1. CASE Shift(t)
    <3>1. data[gap[t]] \in Items \cup {NULL}
      BY <2>1 DEF Shift
    <3>2. data' \in [0 .. max - 1 -> Items \cup {NULL}]
      BY <2>1, <3>1 DEF Shift
    <3>3. gap' \in [Threads -> Nat]
      BY <2>1 DEF Shift
    <3> QED
      BY <2>1, <3>2, <3>3 DEF Shift
  <2>2. CASE ShiftEnd(t)
    <3>1. pos' \in Nat
      BY <2>2 DEF ShiftEnd, Dec
    <3> QED
      BY <2>2, <3>1 DEF ShiftEnd
  <2>3. CASE Drop(t)
    BY <2>3 DEF Drop, LoadCount
  <2> QED
    BY <1>3, <2>1, <2>2, <2>3 DEF ShiftStep
<1>4. ASSUME NEW t \in Threads, CheckCount(t) \/ Front(t) \/ PopReturn(t) PROVE TypeOK'
  <2>1. CASE CheckCount(t)
    BY <2>1 DEF CheckCount
  <2>2. CASE Front(t)
    <3>1. data[0] \in Items \cup {NULL}
      OBVIOUS
    <3> QED
      BY <2>2, <3>1 DEF Front, Call
  <2>3. CASE PopReturn(t)
    BY <2>3 DEF PopReturn, Dec
  <2> QED
    BY <1>4, <2>1, <2>2, <2>3
<1>5. ASSUME NEW t \in Threads,
             Cleanse(t) \/ KeepItem(t) \/ DestroyItem(t) \/ NextItem(t) \/ CleanseReturn(t)
      PROVE TypeOK'
  <2>0. CASE Cleanse(t)
    BY <2>0 DEF Cleanse, Call
  <2>1. CASE CleanseReturn(t)
    BY <2>1 DEF CleanseReturn
  <2>2. CASE KeepItem(t)
    BY <2>2 DEF KeepItem, Inc
  <2>3. CASE DestroyItem(t)
    BY <2>3 DEF DestroyItem
  <2>4. CASE NextItem(t)
    BY <2>4 DEF NextItem, Dec, Inc
  <2> QED
    BY <1>5, <2>0, <2>1, <2>2, <2>3, <2>4
<1>6. CASE UNCHANGED vars
  BY <1>6 DEF vars
<1> QED
  BY <1>1, <1>2, <1>3, <1>4, <1>5, <1>6 DEF Next, User, Handler, Socket, Threads

(***************************************************************************)
(* The types hold in every state, with and without exclusion (every write  *)
(* to struct turntable_queue in queue.c).                                  *)
(***************************************************************************)
THEOREM QueueTypes == Spec => []TypeOK
<1>1. Init => TypeOK
  BY DEF Init, TypeOK, PC, Threads
<1> QED
  BY <1>1, TypeStep, PTL DEF Spec

-----------------------------------------------------------------------------
(***************************************************************************)
(* The inductive invariant of the serial queue: at most one call is in     *)
(* progress, where it is tells what it has done so far, and the handler    *)
(* that has seen an item still has one to pop.                             *)
(***************************************************************************)
Pushing == {"room", "store", "bump", "bumped"}
Popping == {"shift", "drop", "dropped"}

Bounds == count <= max /\ max < SizeMax

Exclusive == \A t, u \in Threads : Busy(t) /\ Busy(u) => t = u

Roles ==
  /\ pc["user"] \in {"idle"} \cup Pushing
  /\ pc["handler"] \in {"idle", "checked"} \cup Popping
  /\ pc["socket"] # "checked"
  /\ pc["handler"] = "checked" => ~Cleansing

PushProgress(t) ==
  /\ pc[t] \in Pushing => item[t] \in Items
  /\ pc[t] = "store" => count < max
  /\ pc[t] \in {"bump", "bumped"} => count < max /\ data[count] = item[t]
  /\ pc[t] = "bumped" => tmp[t] = count

ShiftProgress(t) ==
  /\ pc[t] = "checked" => count > 0
  /\ pc[t] = "shift" => 1 <= gap[t] /\ gap[t] <= count
  /\ pc[t] \in {"drop", "dropped"} => 1 <= count /\ gap[t] = count
  /\ pc[t] = "dropped" => tmp[t] = count

SerialInv ==
  /\ TypeOK /\ Bounds /\ Exclusive /\ Roles
  /\ \A t \in Threads : PushProgress(t) /\ ShiftProgress(t)

(***************************************************************************)
(* A call that begins finds no other, and a step of the call in progress   *)
(* keeps what is known of it (queue_push, queue_pop, queue_cleanse).       *)
(***************************************************************************)
LEMMA SerialStep == ASSUME Serial, PromptPop PROVE SerialInv /\ [Next]_vars => SerialInv'
<1> SUFFICES ASSUME Serial, PromptPop, SerialInv, [Next]_vars PROVE SerialInv'
  OBVIOUS
<1>1. TypeOK'
  BY TypeStep DEF SerialInv
<1> USE DEF Bounds, Exclusive, Roles, Pushing, Popping, Busy, Cleansing, array, locals, ledger, Go
<1>2. ASSUME NEW t \in Threads, NEW e \in Items, t # "handler", Push(t, e) PROVE SerialInv'
  BY <1>1, <1>2 DEF SerialInv, TypeOK, Push, Call, PushProgress, ShiftProgress
<1>3. ASSUME NEW t \in Threads, t # "handler", PushStep(t) PROVE SerialInv'
  <2>1. CASE Room(t)
    BY <1>1, <1>3, <2>1 DEF SerialInv, TypeOK, Room, Inc, PushProgress, ShiftProgress
  <2>2. CASE Grow(t)
    BY <1>1, <1>3, <2>2, SMTT(30) DEF SerialInv, TypeOK, Grow, Inc, PushProgress, ShiftProgress
  <2>3. CASE GrowFails(t)
    BY <1>1, <1>3, <2>3 DEF SerialInv, TypeOK, GrowFails, PushProgress, ShiftProgress
  <2>4. CASE Store(t)
    <3>1. data'[count] = item[t]
      BY <2>4 DEF SerialInv, TypeOK, Store
    <3>2. \A u \in Threads : u # t => pc'[u] \in {"idle", "checked"} /\ (pc'[u] = "checked" => count > 0)
      BY <2>4 DEF ShiftProgress, SerialInv, TypeOK, Store
    <3>3. pc'[t] = "bump" /\ count < max /\ item[t] \in Items
      BY <2>4 DEF SerialInv, TypeOK, Store, PushProgress
    <3>4. PushProgress(t)' /\ ShiftProgress(t)'
      BY <2>4, <3>1, <3>3 DEF Store, PushProgress, ShiftProgress
    <3>5. \A u \in Threads : PushProgress(u)' /\ ShiftProgress(u)'
      BY <2>4, <3>2, <3>4 DEF Store, PushProgress, ShiftProgress
    <3> QED
      BY <1>1, <1>3, <2>4, <3>2, <3>3, <3>5 DEF SerialInv, TypeOK, Store
  <2>5. CASE Bump(t)
    BY <1>1, <1>3, <2>5 DEF SerialInv, TypeOK, Bump, LoadCount, PushProgress, ShiftProgress
  <2>6. CASE Bumped(t)
    BY <1>1, <1>3, <2>6, SMTT(30) DEF SerialInv, TypeOK, Bumped, Inc, PushProgress, ShiftProgress
  <2> QED
    BY <1>3, <2>1, <2>2, <2>3, <2>4, <2>5, <2>6 DEF PushStep
<1>4. ASSUME NEW t \in Threads, t # "user", ShiftStep(t) PROVE SerialInv'
  <2>1. CASE Shift(t)
    BY <1>1, <1>4, <2>1, SMTT(30) DEF SerialInv, TypeOK, Shift, PushProgress, ShiftProgress
  <2>2. CASE ShiftEnd(t)
    BY <1>1, <1>4, <2>2 DEF SerialInv, TypeOK, ShiftEnd, PushProgress, ShiftProgress
  <2>3. CASE Drop(t)
    BY <1>1, <1>4, <2>3 DEF SerialInv, TypeOK, Drop, LoadCount, PushProgress, ShiftProgress
  <2> QED
    BY <1>4, <2>1, <2>2, <2>3 DEF ShiftStep
<1>5. CASE CheckCount("handler") \/ Front("handler") \/ PopReturn("handler")
  <2>1. CASE CheckCount("handler")
    BY <1>1, <2>1 DEF SerialInv, TypeOK, CheckCount, PushProgress, ShiftProgress
  <2>2. CASE Front("handler")
    BY <1>1, <2>2 DEF SerialInv, TypeOK, Front, Call, PushProgress, ShiftProgress
  <2>3. CASE PopReturn("handler")
    BY <1>1, <2>3 DEF SerialInv, TypeOK, PopReturn, Dec, Threads, PushProgress, ShiftProgress
  <2> QED
    BY <1>5, <2>1, <2>2, <2>3
<1>6. CASE \/ Cleanse("socket") \/ KeepItem("socket") \/ DestroyItem("socket")
           \/ NextItem("socket") \/ CleanseReturn("socket")
  <2>1. CASE Cleanse("socket")
    BY <1>1, <2>1 DEF SerialInv, TypeOK, Cleanse, Call, PushProgress, ShiftProgress
  <2>2. CASE KeepItem("socket")
    BY <1>1, <2>2 DEF SerialInv, TypeOK, KeepItem, PushProgress, ShiftProgress
  <2>3. CASE DestroyItem("socket")
    BY <1>1, <2>3 DEF SerialInv, TypeOK, DestroyItem, PushProgress, ShiftProgress
  <2>4. CASE NextItem("socket")
    BY <1>1, <2>4 DEF SerialInv, TypeOK, NextItem, Dec, Threads, PushProgress, ShiftProgress
  <2>5. CASE CleanseReturn("socket")
    BY <1>1, <2>5 DEF SerialInv, TypeOK, CleanseReturn, PushProgress, ShiftProgress
  <2> QED
    BY <1>6, <2>1, <2>2, <2>3, <2>4, <2>5
<1>7. CASE UNCHANGED vars
  BY <1>1, <1>7 DEF SerialInv, vars, PushProgress, ShiftProgress
<1>8. CASE User
  BY <1>2, <1>3, <1>8 DEF User, Threads
<1>9. CASE Handler
  BY <1>4, <1>5, <1>9 DEF Handler, Threads
<1>10. CASE Socket
  BY <1>2, <1>3, <1>4, <1>6, <1>10, ItemsAssumption DEF Socket, Threads
<1> QED
  BY <1>7, <1>8, <1>9, <1>10 DEF Next

(* The invariant holds of every behaviour of the serial queue. *)
LEMMA SerialQueue == ASSUME Serial, PromptPop PROVE Spec => []SerialInv
<1>1. Init => SerialInv
  BY SizeAssumption DEF Init, SerialInv, TypeOK, PC, Threads, Bounds, Exclusive, Roles, Pushing, Popping,
     PushProgress, ShiftProgress, Busy, Cleansing
<1> QED
  BY <1>1, SerialStep, PTL DEF Spec

-----------------------------------------------------------------------------
(* What Contents is, by what the call in progress is doing. *)
Plain == [k \in 1 .. count |-> data[k - 1]]
Elements == Items \cup {NULL}

(* While a removal shifts, the contents are the array around the gap. *)
LEMMA ContentsShifting ==
  ASSUME Exclusive, NEW t \in {"handler", "socket"}, Shifting(t)
  PROVE  Contents = Gapped(gap[t])
BY DEF Contents, Shifting, Exclusive, Busy, Threads

(* Otherwise they are the array. *)
LEMMA ContentsPlain ==
  ASSUME \A t \in {"handler", "socket"} : ~Shifting(t)
  PROVE  Contents = Plain
BY DEF Contents, Plain

(* The array, as a sequence. *)
LEMMA PlainSeq == TypeOK /\ Bounds => Plain \in Seq(Elements) /\ Len(Plain) = count
<1> SUFFICES ASSUME TypeOK, Bounds PROVE Plain \in Seq(Elements) /\ Len(Plain) = count
  OBVIOUS
<1>1. \A k \in 1 .. count : data[k - 1] \in Elements
  BY DEF TypeOK, Bounds, Elements
<1> QED
  BY <1>1 DEF TypeOK, Plain

(* The front of the queue is what a pop takes: the gap begins at the front. *)
LEMMA GappedTail ==
  ASSUME TypeOK, Bounds, count > 0
  PROVE  Plain # <<>> /\ Gapped(1) = Tail(Plain)
<1>1. Plain \in Seq(Elements) /\ Len(Plain) = count
  BY PlainSeq
<1>2. Plain # <<>>
  BY <1>1
<1>3. /\ Tail(Plain) \in Seq(Elements) /\ Len(Tail(Plain)) = count - 1
      /\ \A k \in 1 .. count - 1 : Tail(Plain)[k] = Plain[k + 1]
  BY <1>1, <1>2, HeadTailProperties
<1>4. \A k \in 1 .. count - 1 : Plain[k + 1] = data[k]
  BY DEF Plain, TypeOK
<1>5. Gapped(1) = [k \in 1 .. count - 1 |-> data[k]]
  BY DEF Gapped, TypeOK
<1>6. Tail(Plain) = [k \in 1 .. count - 1 |-> Tail(Plain)[k]]
  <2>1. Tail(Plain) \in [1 .. Len(Tail(Plain)) -> Elements]
    BY <1>3, LenProperties
  <2> QED
    BY <2>1, <1>3
<1> QED
  BY <1>2, <1>3, <1>4, <1>5, <1>6

(* A gap at the item removed by a cleanse leaves the others in their order. *)
LEMMA GappedRemoval ==
  ASSUME TypeOK, Bounds, NEW k \in 1 .. count
  PROVE  Gapped(k) = SubSeq(Plain, 1, k - 1) \o SubSeq(Plain, k + 1, Len(Plain))
<1>1. Plain \in Seq(Elements) /\ Len(Plain) = count
  BY PlainSeq
<1> DEFINE a == SubSeq(Plain, 1, k - 1)
           b == SubSeq(Plain, k + 1, count)
<1>2. /\ a \in Seq(Elements) /\ Len(a) = k - 1
      /\ \A i \in 1 .. k - 1 : a[i] = data[i - 1]
  BY <1>1 DEF TypeOK, Plain
<1>3. /\ b \in Seq(Elements) /\ Len(b) = count - k
      /\ \A i \in 1 .. count - k : b[i] = data[i + k - 1]
  BY <1>1 DEF TypeOK, Plain
<1> HIDE DEF a, b
<1>4. /\ a \o b \in Seq(Elements) /\ Len(a \o b) = Len(a) + Len(b)
      /\ \A i \in 1 .. Len(a) + Len(b) : (a \o b)[i] = IF i <= Len(a) THEN a[i] ELSE b[i - Len(a)]
  BY <1>2, <1>3, ConcatProperties
<1>5. Len(a) + Len(b) = count - 1
  BY <1>2, <1>3 DEF TypeOK
<1>6. \A i \in 1 .. count - 1 : (a \o b)[i] = IF i < k THEN data[i - 1] ELSE data[i]
  <2> TAKE i \in 1 .. count - 1
  <2>1. CASE i < k
    BY <1>2, <1>4, <1>5, <2>1 DEF TypeOK
  <2>2. CASE ~(i < k)
    <3>1. i - Len(a) \in 1 .. count - k /\ (i - Len(a)) + k - 1 = i
      BY <1>2, <2>2 DEF TypeOK
    <3>2. (a \o b)[i] = b[i - Len(a)]
      BY <1>2, <1>4, <1>5, <2>2 DEF TypeOK
    <3> QED
      BY <1>3, <2>2, <3>1, <3>2
  <2> QED
    BY <2>1, <2>2
<1>7. a \o b = [i \in 1 .. count - 1 |-> (a \o b)[i]]
  <2>1. a \o b \in [1 .. Len(a \o b) -> Elements]
    BY <1>4, LenProperties
  <2> QED
    BY <2>1, <1>4, <1>5
<1>8. a \o b = Gapped(k)
  BY <1>6, <1>7 DEF Gapped
<1> QED
  BY <1>1, <1>8 DEF a, b

-----------------------------------------------------------------------------
(***************************************************************************)
(* Every step of a serial call is a step of Fifo or leaves the contents    *)
(* alone: a push takes effect when count is stored, a pop and a removal    *)
(* when the gap is opened.                                                 *)
(***************************************************************************)
LEMMA PushIsPut ==
  ASSUME SerialInv, NEW t \in Threads, t # "handler", PushStep(t)
  PROVE  /\ ~Bumped(t) => Contents' = Contents
         /\ Bumped(t) => item[t] \in Items /\ Contents' = Append(Contents, item[t])
         /\ \A u \in {"handler", "socket"} : ~Shifting(u) /\ ~Shifting(u)'
<1> USE DEF Go, array, locals, ledger, Pushing
<1>1. \A u \in {"handler", "socket"} : ~Shifting(u) /\ ~Shifting(u)'
  BY DEF SerialInv, TypeOK, Exclusive, Busy, Shifting, PushStep, Room, Grow, GrowFails, Store, Bump, Bumped,
         LoadCount, Threads
<1>2. Contents = Plain /\ Contents' = Plain'
  BY <1>1, ContentsPlain DEF Contents, Plain
<1>3. count \in Nat /\ max \in Nat /\ count <= max
  BY DEF SerialInv, TypeOK, Bounds
<1>4. ASSUME Room(t) \/ GrowFails(t) \/ Bump(t) PROVE Contents' = Contents
  BY <1>2, <1>4 DEF Room, GrowFails, Bump, LoadCount, Plain
<1>5. ASSUME Grow(t) PROVE Contents' = Contents
  <2>1. \A k \in 0 .. count - 1 : data'[k] = data[k]
    BY <1>3, <1>5 DEF Grow
  <2>2. Plain' = Plain
    BY <1>3, <1>5, <2>1 DEF Grow, Plain
  <2> QED
    BY <1>2, <2>2
<1>6. ASSUME Store(t) PROVE Contents' = Contents
  <2>1. \A k \in 0 .. count - 1 : data'[k] = data[k]
    BY <1>3, <1>6 DEF Store, SerialInv, TypeOK
  <2>2. Plain' = Plain
    BY <1>3, <1>6, <2>1 DEF Store, Plain
  <2> QED
    BY <1>2, <2>2
<1>7. ASSUME Bumped(t) PROVE item[t] \in Items /\ Contents' = Append(Contents, item[t])
  <2>1. count' = count + 1 /\ data[count] = item[t] /\ item[t] \in Items
    BY <1>3, <1>7 DEF Bumped, Inc, SerialInv, Bounds, PushProgress
  <2>2. Plain \in Seq(Elements) /\ Len(Plain) = count
    BY PlainSeq DEF SerialInv
  <2>3. Append(Plain, item[t]) = [k \in 1 .. count + 1 |-> IF k <= count THEN Plain[k] ELSE item[t]]
    BY <1>3, <2>2
  <2>4. \A k \in 1 .. count + 1 : (IF k <= count THEN Plain[k] ELSE item[t]) = data[k - 1]
    BY <1>3, <2>1 DEF Plain
  <2>5. Plain' = [k \in 1 .. count + 1 |-> data[k - 1]]
    BY <1>7, <2>1 DEF Plain, Bumped
  <2>6. Plain' = Append(Plain, item[t])
    BY <2>3, <2>4, <2>5
  <2> QED
    BY <1>1, <1>2, <2>1, <2>6
<1>8. ~Bumped(t) => Contents' = Contents
  BY <1>4, <1>5, <1>6 DEF PushStep
<1> QED
  BY <1>1, <1>7, <1>8

(* A shift moves the gap and no item. *)
LEMMA ShiftKeepsContents ==
  ASSUME SerialInv, NEW t \in {"handler", "socket"},
         \/ ShiftStep(t)
         \/ t = "handler" /\ PopReturn("handler")
         \/ t = "socket" /\ NextItem("socket")
  PROVE  Contents' = Contents
<1> USE DEF Go, array, locals, ledger
<1>1. /\ count \in Nat /\ max \in Nat /\ count <= max /\ Shifting(t) /\ t \in Threads
      /\ pc[t] = "shift" => 1 <= gap[t] /\ gap[t] <= count
      /\ pc[t] \in {"drop", "dropped"} => 1 <= count /\ gap[t] = count
      /\ gap[t] \in Nat
  BY DEF SerialInv, TypeOK, Bounds, Shifting, ShiftStep, Shift, ShiftEnd, Drop, LoadCount, PopReturn,
         NextItem, ShiftProgress, Threads
<1>2. Contents = Gapped(gap[t])
  BY <1>1, ContentsShifting DEF SerialInv
<1>3. CASE ShiftStep(t)
  <2>1. Shifting(t)' /\ \A u \in {"handler", "socket"} : u # t => ~Shifting(u)'
    BY <1>3 DEF SerialInv, TypeOK, Exclusive, Busy, ShiftStep, Shift, ShiftEnd, Drop, LoadCount, Shifting, Threads
  <2>2. Contents' = Gapped(gap[t])'
    BY <2>1 DEF Contents
  <2>3. CASE Shift(t)
    <3>1. gap'[t] = gap[t] + 1 /\ count' = count
      BY <1>1, <2>3 DEF Shift, SerialInv, TypeOK
    <3>2. \A k \in 1 .. count - 1 :
             (IF k < gap[t] + 1 THEN data'[k - 1] ELSE data'[k]) = IF k < gap[t] THEN data[k - 1] ELSE data[k]
      BY <1>1, <2>3 DEF Shift, SerialInv, TypeOK
    <3>3. Gapped(gap[t])' = Gapped(gap[t])
      BY <3>1, <3>2 DEF Gapped
    <3> QED
      BY <1>2, <2>2, <3>3
  <2>4. CASE ShiftEnd(t) \/ Drop(t)
    BY <1>2, <2>2, <2>4 DEF ShiftEnd, Drop, LoadCount, Gapped
  <2> QED
    BY <1>3, <2>3, <2>4 DEF ShiftStep
<1>4. CASE ~ShiftStep(t)
  <2>1. /\ pc[t] = "dropped" /\ pc'[t] \in {"idle", "scan"} /\ pc' = [pc EXCEPT ![t] = pc'[t]]
        /\ count' = Dec(tmp[t]) /\ data' = data /\ gap' = gap
    BY <1>4 DEF PopReturn, NextItem, SerialInv, TypeOK, Threads
  <2>2. \A u \in {"handler", "socket"} : ~Shifting(u)'
    BY <1>1, <2>1 DEF SerialInv, TypeOK, Exclusive, Busy, Shifting, Threads
  <2>3. Contents' = Plain'
    BY <2>2 DEF Contents, Plain
  <2>4. gap[t] = count /\ count' = count - 1
    BY <1>1, <2>1 DEF SerialInv, ShiftProgress, Dec
  <2>5. Plain' = [k \in 1 .. count - 1 |-> data[k - 1]]
    BY <2>1, <2>4 DEF Plain
  <2>6. Gapped(count) = [k \in 1 .. count - 1 |-> data[k - 1]]
    BY <1>1 DEF Gapped
  <2> QED
    BY <1>2, <2>3, <2>4, <2>5, <2>6
<1> QED
  BY <1>3, <1>4

(* Reading the front takes it. *)
LEMMA PopIsTake ==
  ASSUME SerialInv, Front("handler")
  PROVE  /\ Contents # <<>> /\ Contents' = Tail(Contents) /\ item'["handler"] = Contents[1]
         /\ \A u \in {"handler", "socket"} : ~Shifting(u)
<1> USE DEF Go, array, locals, ledger
<1>1. \A u \in {"handler", "socket"} : ~Shifting(u)
  BY DEF SerialInv, TypeOK, Exclusive, Busy, Roles, Cleansing, Shifting, Front, Call, Threads
<1>2. Contents = Plain
  BY <1>1, ContentsPlain
<1>3. Shifting("handler")' /\ gap'["handler"] = 1 /\ data' = data /\ count' = count
  BY DEF SerialInv, TypeOK, Front, Call, Shifting, Threads
<1>4. Contents' = Gapped(1)
  BY <1>3 DEF Contents, Gapped
<1>5. TypeOK /\ Bounds /\ count > 0
  BY DEF SerialInv, ShiftProgress, Front, Call, Threads
<1>6. item'["handler"] = Plain[1]
  BY <1>5 DEF Front, Plain, TypeOK, Threads
<1> QED
  BY <1>1, <1>2, <1>4, <1>5, <1>6, GappedTail

(* Freeing an item of the client takes it out. *)
LEMMA DestroyIsTakeOut ==
  ASSUME SerialInv, DestroyItem("socket")
  PROVE  /\ pos + 1 \in 1 .. Len(Contents) /\ F!TakeOut(pos + 1) /\ Contents[pos + 1] = data[pos]
         /\ \A u \in {"handler", "socket"} : ~Shifting(u)
<1> USE DEF Go, array, locals, ledger
<1>1. \A u \in {"handler", "socket"} : ~Shifting(u)
  BY DEF SerialInv, TypeOK, Exclusive, Busy, Shifting, DestroyItem, Threads
<1>2. Contents = Plain
  BY <1>1, ContentsPlain
<1>3. /\ Shifting("socket")' /\ ~Shifting("handler")'
      /\ gap'["socket"] = pos + 1 /\ data' = data /\ count' = count
  BY DEF SerialInv, TypeOK, Exclusive, Busy, DestroyItem, Shifting, Threads
<1>4. Contents' = Gapped(pos + 1)
  BY <1>3 DEF Contents, Gapped
<1>5. TypeOK /\ Bounds /\ pos + 1 \in 1 .. count /\ data[pos] \in Remote
  BY DEF SerialInv, TypeOK, DestroyItem
<1>6. Gapped(pos + 1) = SubSeq(Plain, 1, (pos + 1) - 1) \o SubSeq(Plain, (pos + 1) + 1, Len(Plain))
  BY <1>5, GappedRemoval
<1>7. Len(Plain) = count /\ Plain[pos + 1] = data[pos]
  BY <1>5, PlainSeq DEF Plain, TypeOK
<1> QED
  BY <1>1, <1>2, <1>4, <1>5, <1>6, <1>7 DEF F!TakeOut

(* No other step changes the contents, but for the end of a push. *)
LEMMA OthersKeepContents ==
  ASSUME SerialInv,
         \/ \E t \in Threads, e \in Items : Push(t, e)
         \/ CheckCount("handler")
         \/ Cleanse("socket") \/ KeepItem("socket") \/ CleanseReturn("socket")
         \/ UNCHANGED vars
  PROVE  Contents' = Contents
<1> USE DEF Go, Call, array, locals, ledger
<1>1. data' = data /\ count' = count /\ gap' = gap
  BY DEF Push, CheckCount, Cleanse, KeepItem, CleanseReturn, vars
<1>2. \A u \in {"handler", "socket"} : Shifting(u)' <=> Shifting(u)
  BY DEF SerialInv, TypeOK, Push, CheckCount, Cleanse, KeepItem, CleanseReturn, vars, Shifting, Threads
<1> QED
  BY <1>1, <1>2 DEF Contents, Gapped

(***************************************************************************)
(* The array implements a FIFO for callers that keep the two rules: through *)
(* every growth, refused growth, shift and removal of queue.c the contents  *)
(* are a queue.                                                             *)
(***************************************************************************)
THEOREM QueueIsFifo == ASSUME Serial, PromptPop PROVE Spec => IsFifo
<1>1. Init => F!Init
  BY DEF Init, F!Init, Contents, Shifting, Threads
<1>2. SerialInv /\ [Next]_vars => [F!Next]_Contents
  <2> SUFFICES ASSUME SerialInv, [Next]_vars PROVE [F!Next]_Contents
    OBVIOUS
  <2>1. CASE User
    <3>1. CASE PushStep("user")
      BY <3>1, PushIsPut DEF Threads, F!Next, F!Put
    <3>2. CASE \E e \in Items \ Remote : Push("user", e)
      BY <3>2, OthersKeepContents DEF Threads
    <3> QED
      BY <2>1, <3>1, <3>2 DEF User
  <2>2. CASE Handler
    <3>1. CASE Front("handler")
      BY <3>1, PopIsTake DEF F!Next, F!Take
    <3>2. CASE ShiftStep("handler") \/ PopReturn("handler")
      BY <3>2, ShiftKeepsContents
    <3>3. CASE CheckCount("handler")
      BY <3>3, OthersKeepContents
    <3> QED
      BY <2>2, <3>1, <3>2, <3>3 DEF Handler
  <2>3. CASE Socket
    <3>1. CASE DestroyItem("socket")
      BY <3>1, DestroyIsTakeOut DEF F!Next
    <3>2. CASE ShiftStep("socket") \/ NextItem("socket")
      BY <3>2, ShiftKeepsContents
    <3>3. CASE PushStep("socket")
      BY <3>3, PushIsPut DEF Threads, F!Next, F!Put
    <3>4. CASE \/ \E e \in Remote : Push("socket", e)
               \/ Cleanse("socket") \/ KeepItem("socket") \/ CleanseReturn("socket")
      BY <3>4, OthersKeepContents, ItemsAssumption DEF Threads
    <3> QED
      BY <2>3, <3>1, <3>2, <3>3, <3>4 DEF Socket
  <2>4. CASE UNCHANGED vars
    BY <2>4, OthersKeepContents
  <2> QED
    BY <2>1, <2>2, <2>3, <2>4 DEF Next
<1> QED
  BY <1>1, <1>2, SerialQueue, PTL DEF Spec, IsFifo, F!Spec

-----------------------------------------------------------------------------
(***************************************************************************)
(* Behind i, queue_cleanse has left nothing of the client; while an item   *)
(* is taken out, i has stepped back and will step forward to the same      *)
(* place, also when the item was the first and i went round (size_t).      *)
(***************************************************************************)
Clean(n) == \A k \in 0 .. n - 1 : data[k] \notin Remote

SweepInv ==
  /\ pc["socket"] = "scan" => pos <= count /\ Clean(pos)
  /\ pc["socket"] = "shift" => pos < gap["socket"] /\ pos < count /\ Clean(pos)
  /\ pc["socket"] \in {"drop", "dropped"} => Inc(pos) < count /\ Clean(Inc(pos))

(* Every step keeps what the cleanse has seen. *)
LEMMA SweepStep == ASSUME Serial, PromptPop PROVE SerialInv /\ SweepInv /\ [Next]_vars => SweepInv'
<1> SUFFICES ASSUME Serial, PromptPop, SerialInv, SweepInv, [Next]_vars PROVE SweepInv'
  OBVIOUS
<1> USE DEF Go, Call, array, locals, ledger
<1>0. /\ count \in Nat /\ max \in Nat /\ count <= max /\ max < SizeMax /\ pos \in Nat
      /\ gap["socket"] \in Nat /\ SizeMax \in Nat \ {0, 1} /\ pc \in [Threads -> PC]
  BY SizeAssumption DEF SerialInv, TypeOK, Bounds, Threads
<1>1. ASSUME NEW t \in Threads, t # "socket", Busy(t) \/ Busy(t)',
             pc' = [pc EXCEPT ![t] = pc'[t]], ~Busy(t) => \A u \in Threads : ~Busy(u)
      PROVE SweepInv'
  <2>1. pc["socket"] = "idle" /\ pc'["socket"] = "idle"
    BY <1>0, <1>1 DEF SerialInv, Exclusive, Busy, Roles, Threads
  <2> QED
    BY <2>1 DEF SweepInv
<1>2. CASE User
  <2>1. ASSUME NEW e \in Items, Push("user", e) PROVE SweepInv'
    BY <1>0, <1>1, <2>1 DEF Push, Busy, Threads
  <2>2. CASE PushStep("user")
    BY <1>0, <1>1, <2>2 DEF PushStep, Room, Grow, GrowFails, Store, Bump, Bumped, LoadCount, Busy, Threads
  <2> QED
    BY <1>2, <2>1, <2>2 DEF User
<1>3. CASE Handler
  <2>1. CASE CheckCount("handler")
    BY <1>0, <2>1 DEF CheckCount, SweepInv, Clean, Inc, Threads
  <2>2. CASE ~CheckCount("handler")
    BY <1>0, <1>1, <1>3, <2>2 DEF Handler, Front, ShiftStep, Shift, ShiftEnd, Drop, LoadCount, PopReturn,
       Busy, Threads
  <2> QED
    BY <2>1, <2>2
<1>4. CASE Socket
  <2> USE DEF Threads
  <2>1. ASSUME NEW e \in Items, Push("socket", e) PROVE SweepInv'
    BY <1>0, <2>1 DEF Push, SweepInv
  <2>2. CASE PushStep("socket")
    BY <1>0, <2>2 DEF PushStep, Room, Grow, GrowFails, Store, Bump, Bumped, LoadCount, SweepInv
  <2>3. CASE Cleanse("socket") \/ CleanseReturn("socket")
    BY <1>0, <2>3 DEF Cleanse, CleanseReturn, SweepInv, Clean
  <2>4. CASE KeepItem("socket")
    <3>1. pos' = pos + 1 /\ pos < count /\ Clean(pos) /\ data[pos] \notin Remote
      BY <1>0, <2>4 DEF KeepItem, SweepInv, Inc
    <3>2. Clean(pos + 1)
      BY <1>0, <3>1 DEF Clean
    <3> QED
      BY <1>0, <2>4, <3>1, <3>2 DEF KeepItem, SweepInv, Clean
  <2>5. CASE DestroyItem("socket")
    BY <1>0, <2>5 DEF DestroyItem, SweepInv, Clean, SerialInv, TypeOK
  <2>6. CASE Shift("socket")
    <3>1. \A k \in 0 .. pos - 1 : data'[k] = data[k]
      BY <1>0, <2>6 DEF Shift, SweepInv, SerialInv, TypeOK
    <3>2. gap'["socket"] = gap["socket"] + 1
      BY <1>0, <2>6 DEF Shift, SerialInv, TypeOK
    <3> QED
      BY <1>0, <2>6, <3>1, <3>2 DEF Shift, SweepInv, Clean
  <2>7. CASE ShiftEnd("socket")
    <3>1. Inc(pos') = pos /\ pos < count /\ Clean(pos)
      BY <1>0, <2>7 DEF ShiftEnd, SweepInv, Inc, Dec
    <3> QED
      BY <1>0, <2>7, <3>1 DEF ShiftEnd, SweepInv, Clean, Inc
  <2>8. CASE Drop("socket")
    BY <1>0, <2>8 DEF Drop, LoadCount, SweepInv, Clean, Inc
  <2>9. CASE NextItem("socket")
    <3>1. count' = count - 1
      BY <1>0, <2>9 DEF NextItem, Dec, SerialInv, ShiftProgress
    <3>2. pos' = Inc(pos) /\ Inc(pos) < count /\ Clean(Inc(pos)) /\ Inc(pos) \in Nat
      BY <1>0, <2>9 DEF NextItem, SweepInv, Inc
    <3> QED
      BY <1>0, <2>9, <3>1, <3>2 DEF NextItem, SweepInv, Clean
  <2> QED
    BY <1>4, <2>1, <2>2, <2>3, <2>4, <2>5, <2>6, <2>7, <2>8, <2>9, ItemsAssumption DEF Socket, ShiftStep
<1>5. CASE UNCHANGED vars
  BY <1>5 DEF vars, SweepInv, Clean, Inc
<1> QED
  BY <1>2, <1>3, <1>4, <1>5 DEF Next

(***************************************************************************)
(* A cleanse leaves nothing its filter matches, when no other call on the  *)
(* queue runs beside it (Serial) and none of its removals falls between    *)
(* the handler's look and its pop (PromptPop); nothing in the code sees to *)
(* either (queue_cleanse).                                                 *)
(***************************************************************************)
THEOREM CleanseIsComplete == ASSUME Serial, PromptPop PROVE Spec => CleanseComplete
<1>1. Init => SweepInv
  BY DEF Init, SweepInv, Threads
<1>2. SerialInv /\ SweepInv /\ [Next]_vars
        => [CleanseReturn("socket") => \A k \in 0 .. count - 1 : data[k] \notin Remote]_vars
  <2> SUFFICES ASSUME SerialInv, SweepInv, CleanseReturn("socket")
               PROVE \A k \in 0 .. count - 1 : data[k] \notin Remote
    OBVIOUS
  <2>1. pos <= count /\ Clean(pos) /\ pos >= count /\ pos \in Nat /\ count \in Nat
    BY DEF SerialInv, TypeOK, SweepInv, CleanseReturn, Go
  <2>2. pos = count
    BY <2>1
  <2> QED
    BY <2>1, <2>2 DEF Clean
<1> QED
  BY <1>1, <1>2, SweepStep, SerialQueue, PTL DEF Spec, CleanseComplete
=============================================================================
