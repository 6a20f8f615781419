---------------------------- MODULE CleanupStack ----------------------------
(***************************************************************************)
(* src/util/cru_cleanup.c on top of src/util/cru_vec.c: the commands of a  *)
(* cleanup stack as they lie in memory, each body before its header, in a  *)
(* vector that grows and, once it has grown, keeps what was popped.        *)
(*                                                                         *)
(* Memory is counted in units of four bytes: a header (an enum) takes one, *)
(* each argument (a pointer or a Vulkan handle) takes two.                 *)
(***************************************************************************)
EXTENDS Integers, Sequences, FiniteSetsExt

(* CRU_VEC_INIT_CAPACITY is 16 bytes.                                       *)
InitCapacity == 4

(* The number of arguments of each kind of command that the setup uses: the *)
(* fields of struct cmd_free, cmd_vk_instance, cmd_debug_cb, cmd_cru_image, *)
(* and of those of the Vulkan objects.                                      *)
NumArgs == [free |-> 1, cru_image |-> 1, vk_instance |-> 2, vk_device |-> 2,
            vk_object |-> 2, debug_cb |-> 3, vk_pooled |-> 3]
Kind == DOMAIN NumArgs

(* A command: its kind and the object on which it is run.                   *)
Command(kind, object) == [kind |-> kind, object |-> object]

Garbage == [kind |-> "garbage", object |-> "garbage"]

BodySize(kind) == 2 * NumArgs[kind]

(* What lies in one unit of memory.                                         *)
Header(c) == [part |-> 0, of |-> [kind |-> c.kind, object |-> "none"]]
Body(c) == [i \in 1 .. BodySize(c.kind) |-> [part |-> i, of |-> c]]
Unset == [part |-> -1, of |-> Garbage]

-----------------------------------------------------------------------------
(* cru_vec: the first len of the cap units of data are in use.              *)
EmptyVec == [len |-> 0, cap |-> 0, data |-> <<>>]

(* A command is at most seven units long, and then two doublings do.        *)
Doubled(cap) == {Max({cap, InitCapacity}) * p : p \in {1, 2, 4, 8}}

(* MUTANT: the new capacity is one doubling short.                          *)
GrownCapacityShort(cap, num) ==
    Max({cap, InitCapacity} \cup {c \in Doubled(cap) : c < cap + num})

(* __cru_vec_grow_capacity(): num is what the vector shall hold, although   *)
(* the parameter is the number of elements to add.                          *)
GrownCapacity(cap, num) == Min({c \in Doubled(cap) : c >= cap + num})

(* __cru_vec_push(), and the assignments to the new elements.               *)
VecPush(v, units) ==
    LET len == v.len + Len(units)
        cap == IF v.cap < len THEN GrownCapacity(v.cap, len) ELSE v.cap
    IN  [len |-> len, cap |-> cap,
         data |-> [i \in 1 .. cap |->
                     IF i \in v.len + 1 .. len THEN units[i - v.len]
                     ELSE IF i <= v.cap THEN v.data[i] ELSE Unset]]

(* __cru_vec_pop(): more than there is would abort().                       *)
VecPop(v, num) == [v EXCEPT !.len = @ - num]

-----------------------------------------------------------------------------
(* cru_cleanup_push_command().                                              *)
PushCommand(v, c) == VecPush(VecPush(v, Body(c)), <<Header(c)>>)

(* cru_cleanup_pop_impl() on a stack that is not empty: the header tells    *)
(* how long the body is.  Both pointers lead into popped memory.            *)
TopSize(v) == BodySize(v.data[v.len].of.kind)
PopCommand(v) == VecPop(VecPop(v, 1), TopSize(v))

(* MUTANT: the start of the vector is taken for the command popped off it.  *)
PoppedObjectAtStart(v) == v.data[1].of.object

(* The command that was popped lies where the vector now ends.              *)
PoppedObject(v) == v.data[PopCommand(v).len + 1].of.object

-----------------------------------------------------------------------------
(* The layout that cru_cleanup.c describes: bodies in full, each followed   *)
(* by the header that tells its size, and nothing beyond the capacity.      *)
Headers(v) == {h \in 1 .. v.len : v.data[h].part = 0}
CommandAt(v, h) == v.data[h - 1].of
Below(v, h) == h - 1 - BodySize(v.data[h].of.kind)

WellFormed(v) ==
    /\ v.len <= v.cap /\ Len(v.data) = v.cap
    /\ v.len > 0 => v.data[v.len].part = 0
    /\ \A h \in Headers(v) :
          /\ Below(v, h) >= 0
          /\ Below(v, h) > 0 => v.data[Below(v, h)].part = 0
          /\ CommandAt(v, h).kind = v.data[h].of.kind
          /\ \A i \in 1 .. BodySize(v.data[h].of.kind) :
                v.data[Below(v, h) + i] = [part |-> i, of |-> CommandAt(v, h)]

(* The commands on a stack, in the order in which they were pushed, and the *)
(* objects on which they will be run.                                       *)
Commands(v) ==
    LET upto[h \in Headers(v) \cup {0}] ==
            IF h = 0 THEN <<>> ELSE Append(upto[Below(v, h)], CommandAt(v, h))
    IN  upto[v.len]

OnStack(v) == {CommandAt(v, h).object : h \in Headers(v)}
=============================================================================
