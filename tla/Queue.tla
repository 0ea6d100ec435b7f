------------------------------- MODULE Queue --------------------------------
(***************************************************************************)
(* The file queue as util/queue.c keeps it: an array, its capacity max and *)
(* the number of items count, changed by the three threads of a server.    *)
(* The user pushes local items (turntable_queue_file), the handler pops    *)
(* (audio_handler), the socket thread pushes remote items (parse_packet)   *)
(* and cleanses them when their client has gone (start_server).            *)
(*                                                                         *)
(* Nothing locks the queue.  Serial = FALSE lets the threads interleave at *)
(* every access to a shared word, as the code does; Serial = TRUE runs one *)
(* call of queue.c at a time, which is what queue.c is written for.  The   *)
(* handler looks at count before it calls queue_pop (audio.c:41-43), and   *)
(* the two are not one call: PromptPop = TRUE keeps a cleanse, which could *)
(* take the last item away, from falling between them.  A thread whose     *)
(* next access is outside the array stops: C says nothing of what follows. *)
(***************************************************************************)
EXTENDS Naturals, Sequences, FiniteSets

CONSTANTS
  Items,       \* the structs turntable_queue_data; each is pushed at most once
  Remote,      \* the items whose src is the client's name
  NULL,
  SizeMax,     \* SIZE_MAX
  CanFail,     \* whether realloc may return NULL
  Serial,      \* whether calls on the queue exclude each other
  PromptPop    \* whether no cleanse runs between the handler's look at count and its pop

ASSUME ItemsAssumption == Remote \subseteq Items /\ NULL \notin Items
ASSUME SizeAssumption == SizeMax \in Nat \ {0, 1}
ASSUME ModeAssumption == {CanFail, Serial, PromptPop} \subseteq BOOLEAN

VARIABLES
  data, max, count,   \* the fields of struct turntable_queue
  pc,                 \* where each thread is
  item,               \* the argument of a push, or what a pop will return
  gap,                \* the loop variable of the shifting loop of each thread
  tmp,                \* what a thread read of count, to write it back plus or minus one
  pos,                \* i of queue_cleanse
  fresh,              \* items not pushed yet
  gone                \* items popped, or destroyed by a cleanse

array == <<data, max, count>>
locals == <<item, gap, tmp, pos>>
ledger == <<fresh, gone>>
vars == <<array, pc, locals, ledger>>

Threads == {"user", "handler", "socket"}

Dec(n) == IF n = 0 THEN SizeMax ELSE n - 1
Inc(n) == IF n = SizeMax THEN 0 ELSE n + 1

Init ==
  /\ data = [k \in {0} |-> NULL]
  /\ max = 1
  /\ count = 0
  /\ pc = [t \in Threads |-> "idle"]
  /\ item = [t \in Threads |-> NULL]
  /\ gap = [t \in Threads |-> 0]
  /\ tmp = [t \in Threads |-> 0]
  /\ pos = 0
  /\ fresh = Items
  /\ gone = {}

Go(t, from, to) ==
  /\ pc[t] = from
  /\ pc' = [pc EXCEPT ![t] = to]

\* A handler that has only looked at count is in no call.
Busy(t) == pc[t] \notin {"idle", "checked"}

Cleansing == pc["socket"] \in {"scan", "shift", "drop", "dropped"}

Call(t, from, to) ==
  /\ Go(t, from, to)
  /\ Serial => \A u \in Threads : ~Busy(u)

-----------------------------------------------------------------------------
(* queue_push *)

Push(t, e) ==
  /\ Call(t, "idle", "room")
  /\ e \in fresh
  /\ fresh' = fresh \ {e}
  /\ item' = [item EXCEPT ![t] = e]
  /\ UNCHANGED <<array, gap, tmp, pos, gone>>

Room(t) ==
  /\ Go(t, "room", "store")
  /\ Inc(count) <= max
  /\ UNCHANGED <<array, locals, ledger>>

\* Slip: the capacity is doubled and the array is not.
GrowMaxOnly(t) ==
  /\ Go(t, "room", "store")
  /\ Inc(count) > max
  /\ max' = 2 * max
  /\ UNCHANGED <<data, count, locals, ledger>>

\* realloc, and the assignments of its result and of the new capacity.
Grow(t) ==
  /\ Go(t, "room", "store")
  /\ Inc(count) > max
  /\ 2 * max < SizeMax
  /\ data' = [k \in 0 .. 2 * max - 1 |-> IF k < max THEN data[k] ELSE NULL]
  /\ max' = 2 * max
  /\ UNCHANGED <<count, locals, ledger>>

\* The item is dropped: nothing holds it any more.
GrowFails(t) ==
  /\ Go(t, "room", "idle")
  /\ Inc(count) > max
  /\ CanFail \/ 2 * max >= SizeMax
  /\ UNCHANGED <<array, locals, ledger>>

Store(t) ==
  /\ Go(t, "store", "bump")
  /\ count < max
  /\ data' = [data EXCEPT ![count] = item[t]]
  /\ UNCHANGED <<max, count, locals, ledger>>

\* count++ and count-- are a load and a store.
LoadCount(t, from, to) ==
  /\ Go(t, from, to)
  /\ tmp' = [tmp EXCEPT ![t] = count]
  /\ UNCHANGED <<array, item, gap, pos, ledger>>

Bump(t) == LoadCount(t, "bump", "bumped")

Bumped(t) ==
  /\ Go(t, "bumped", "idle")
  /\ count' = Inc(tmp[t])
  /\ UNCHANGED <<data, max, locals, ledger>>

-----------------------------------------------------------------------------
(* queue_pop, by the handler *)

\* The handler's loop reads count, and calls only then.
CheckCount(t) ==
  /\ Go(t, "idle", "checked")
  /\ PromptPop => ~Cleansing
  /\ count > 0
  /\ UNCHANGED <<array, locals, ledger>>

\* The call, and queue_peek.
Front(t) ==
  /\ Call(t, "checked", "shift")
  /\ item' = [item EXCEPT ![t] = data[0]]
  /\ gap' = [gap EXCEPT ![t] = 1]
  /\ UNCHANGED <<array, tmp, pos, ledger>>

Shift(t) ==
  /\ pc[t] = "shift"
  /\ gap[t] < count /\ gap[t] < max
  /\ data' = [data EXCEPT ![gap[t] - 1] = data[gap[t]]]
  /\ gap' = [gap EXCEPT ![t] = gap[t] + 1]
  /\ UNCHANGED <<max, count, pc, item, tmp, pos, ledger>>

\* Slip: the loop ends one item early.
ShiftEndEarly(t) ==
  /\ Go(t, "shift", "drop")
  /\ gap[t] + 1 >= count
  /\ pos' = IF t = "socket" THEN Dec(pos) ELSE pos
  /\ UNCHANGED <<array, item, gap, tmp, ledger>>

\* Slip: queue_cleanse does not step back over the item it removed.
ShiftEndNoStepBack(t) ==
  /\ Go(t, "shift", "drop")
  /\ gap[t] >= count
  /\ UNCHANGED <<array, locals, ledger>>

ShiftEnd(t) ==
  /\ Go(t, "shift", "drop")
  /\ gap[t] >= count
  /\ pos' = IF t = "socket" THEN Dec(pos) ELSE pos
  /\ UNCHANGED <<array, item, gap, tmp, ledger>>

Drop(t) == LoadCount(t, "drop", "dropped")

PopReturn(t) ==
  /\ Go(t, "dropped", "idle")
  /\ count' = Dec(tmp[t])
  /\ gone' = gone \cup {item[t]}
  /\ UNCHANGED <<data, max, locals, fresh>>

-----------------------------------------------------------------------------
(* queue_cleanse, by the socket thread, with file_queue_cleanse for a client. *)

Cleanse(t) ==
  /\ Call(t, "idle", "scan")
  /\ PromptPop => pc["handler"] # "checked"
  /\ pos' = 0
  /\ UNCHANGED <<array, item, gap, tmp, ledger>>

KeepItem(t) ==
  /\ Go(t, "scan", "scan")
  /\ pos < count /\ pos < max
  /\ data[pos] \notin Remote
  /\ pos' = Inc(pos)
  /\ UNCHANGED <<array, item, gap, tmp, ledger>>

DestroyItem(t) ==
  /\ Go(t, "scan", "shift")
  /\ pos < count /\ pos < max
  /\ data[pos] \in Remote
  /\ gone' = gone \cup {data[pos]}
  /\ gap' = [gap EXCEPT ![t] = pos + 1]
  /\ UNCHANGED <<array, item, tmp, pos, fresh>>

NextItem(t) ==
  /\ Go(t, "dropped", "scan")
  /\ count' = Dec(tmp[t])
  /\ pos' = Inc(pos)
  /\ UNCHANGED <<data, max, item, gap, tmp, ledger>>

CleanseReturn(t) ==
  /\ Go(t, "scan", "idle")
  /\ pos >= count
  /\ UNCHANGED <<array, locals, ledger>>

-----------------------------------------------------------------------------
PushStep(t) == Room(t) \/ Grow(t) \/ GrowFails(t) \/ Store(t) \/ Bump(t) \/ Bumped(t)
ShiftStep(t) == Shift(t) \/ ShiftEnd(t) \/ Drop(t)

User == \/ \E e \in Items \ Remote : Push("user", e)
        \/ PushStep("user")

Handler == \/ CheckCount("handler") \/ Front("handler") \/ ShiftStep("handler")
           \/ PopReturn("handler")

Socket == \/ \E e \in Remote : Push("socket", e)
          \/ PushStep("socket")
          \/ Cleanse("socket") \/ KeepItem("socket") \/ DestroyItem("socket")
          \/ ShiftStep("socket") \/ NextItem("socket") \/ CleanseReturn("socket")

Next == User \/ Handler \/ Socket

Spec == Init /\ [][Next]_vars

-----------------------------------------------------------------------------
(* Every variable has its type, and the array is as long as max says. *)
PC == {"idle", "room", "store", "bump", "bumped", "checked", "shift", "drop", "dropped", "scan"}

TypeOK ==
  /\ max \in Nat \ {0}
  /\ data \in [0 .. max - 1 -> Items \cup {NULL}]
  /\ count \in Nat
  /\ pc \in [Threads -> PC]
  /\ item \in [Threads -> Items \cup {NULL}]
  /\ gap \in [Threads -> Nat]
  /\ tmp \in [Threads -> Nat]
  /\ pos \in Nat
  /\ fresh \subseteq Items
  /\ gone \subseteq Items \cup {NULL}

(***************************************************************************)
(* What the array holds: while an item is being taken out, the gap it left *)
(* moves to the end of the array (the loops of queue_pop and of            *)
(* queue_cleanse), and only then is count lowered.                         *)
(***************************************************************************)
Shifting(t) == pc[t] \in {"shift", "drop", "dropped"}

Gapped(g) == [k \in 1 .. count - 1 |-> IF k < g THEN data[k - 1] ELSE data[k]]

Contents ==
  IF Shifting("handler") THEN Gapped(gap["handler"])
  ELSE IF Shifting("socket") THEN Gapped(gap["socket"])
  ELSE [k \in 1 .. count |-> data[k - 1]]

F == INSTANCE Fifo WITH q <- Contents

(***************************************************************************)
(* Called one at a time, the operations of queue.c are those of a FIFO:    *)
(* through every growth, shift and removal nothing is reordered.           *)
(***************************************************************************)
IsFifo == F!Spec

(***************************************************************************)
(* When queue_cleanse returns, nothing the client sent is left: removing   *)
(* neighbours, and the first item (i-- below zero), included.              *)
(***************************************************************************)
CleanseComplete ==
  [][CleanseReturn("socket") => \A k \in 0 .. count - 1 : data[k] \notin Remote]_vars
=============================================================================
