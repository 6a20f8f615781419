-------------------------- MODULE TestSetupProofs --------------------------
(***************************************************************************)
(* Proofs about TestSetup and the cleanup stacks it is built on: whatever  *)
(* step of setup fails, and whatever the start function makes on whichever *)
(* thread, all of it is undone, in an order in which nothing outlives what *)
(* it was made from.                                                       *)
(***************************************************************************)
EXTENDS TestSetup, FiniteSetTheorems, FunctionTheorems, WellFoundedInduction, TLAPS

-----------------------------------------------------------------------------
(* Memory.                                                                  *)

Name == SetupObject \cup ActualObject \cup Range(CmdPoolOf) \cup {s.object : s \in UserObjects}
Cmd == [kind: Kind, object: Name]
Unit == [part: Int, of: [kind: Kind \cup {"garbage"}, object: Name \cup {"none", "garbage"}]]
Vec == [len: Nat, cap: Nat, data: Seq(Unit)]

(* Two doublings are enough for what one command adds.                      *)
LEMMA Grows ==
    ASSUME NEW cap \in Nat, NEW num \in Nat, num <= cap + 7
    PROVE  GrownCapacity(cap, num) \in Nat /\ GrownCapacity(cap, num) >= num
<1> DEFINE m == Max({cap, InitCapacity})
           S == {c \in Doubled(cap) : c >= cap + num}
<1>1. m \in Nat /\ m >= cap /\ m >= 4
  <2>1. \E x \in {cap, 4} : \A y \in {cap, 4} : x >= y
    OBVIOUS
  <2> QED
    BY <2>1 DEF Max, InitCapacity
<1>2. Doubled(cap) = {m, m * 2, m * 4, m * 8}
  BY <1>1 DEF Doubled
<1> HIDE DEF m
<1>3. S \subseteq Nat /\ m * 4 \in S
  BY <1>1, <1>2
<1>4. \E x \in S : \A y \in S : x =< y
  <2>1. S \subseteq {m, m * 2, m * 4, m * 8}
    BY <1>2
  <2> HIDE DEF S
  <2>2. m < m * 2 /\ m * 2 < m * 4 /\ m * 4 < m * 8
    BY <1>1
  <2>3. CASE m \in S
    BY <2>1, <2>2, <2>3, <1>1
  <2>4. CASE m \notin S /\ m * 2 \in S
    BY <2>1, <2>2, <2>4, <1>1
  <2>5. CASE m \notin S /\ m * 2 \notin S
    BY <2>1, <2>2, <2>5, <1>1, <1>3
  <2> QED
    BY <2>3, <2>4, <2>5
<1>5. GrownCapacity(cap, num) \in S
  BY <1>4 DEF GrownCapacity, Min
<1> QED
  BY <1>3, <1>5

(* Pushing leaves what is there and adds the units behind it.               *)
LEMMA Pushing ==
    ASSUME NEW v \in Vec, v.len <= v.cap, Len(v.data) = v.cap,
           NEW n \in Nat, NEW units \in [1 .. n -> Unit], v.len + n <= v.cap + 7
    PROVE  /\ VecPush(v, units) \in Vec
           /\ VecPush(v, units).len = v.len + n
           /\ VecPush(v, units).len <= VecPush(v, units).cap
           /\ Len(VecPush(v, units).data) = VecPush(v, units).cap
           /\ VecPush(v, units).cap >= v.cap
           /\ \A i \in 1 .. v.len : VecPush(v, units).data[i] = v.data[i]
           /\ \A i \in 1 .. n : VecPush(v, units).data[v.len + i] = units[i]
<1> DEFINE len == v.len + n
           cap == IF v.cap < len THEN GrownCapacity(v.cap, len) ELSE v.cap
           data == [i \in 1 .. cap |->
                     IF i \in v.len + 1 .. len THEN units[i - v.len]
                     ELSE IF i <= v.cap THEN v.data[i] ELSE Unset]
<1>1. v.len \in Nat /\ v.cap \in Nat /\ v.data \in Seq(Unit)
  BY DEF Vec
<1>2. units \in Seq(Unit) /\ Len(units) = n
  OBVIOUS
<1>3. cap \in Nat /\ len <= cap /\ v.cap <= cap
  <2>1. len \in Nat /\ len <= v.cap + 7
    BY <1>1
  <2>2. CASE v.cap < len
    <3>1. GrownCapacity(v.cap, len) \in Nat /\ GrownCapacity(v.cap, len) >= len
      BY <1>1, <2>1, Grows
    <3> QED
      BY <1>1, <2>1, <2>2, <3>1
  <2>3. CASE ~(v.cap < len)
    BY <1>1, <2>1, <2>3
  <2> QED
    BY <2>2, <2>3
<1>4. VecPush(v, units) = [len |-> len, cap |-> cap, data |-> data]
  BY <1>2 DEF VecPush
<1> HIDE DEF cap
<1>5. Unset \in Unit
  <2>1. Garbage \in [kind: Kind \cup {"garbage"}, object: Name \cup {"none", "garbage"}]
    BY DEF Garbage
  <2>2. Unset = [part |-> -1, of |-> Garbage]
    BY DEF Unset
  <2>3. -1 \in Int
    OBVIOUS
  <2> HIDE DEF Garbage
  <2> DEFINE minus == -1
  <2> HIDE DEF minus
  <2> QED
    BY <2>1, <2>2, <2>3 DEF Unit
<1>6. \A i \in 1 .. cap : data[i] \in Unit
  BY <1>1, <1>2, <1>3, <1>5
<1>7. data \in Seq(Unit) /\ Len(data) = cap
  BY <1>3, <1>6
<1>8. \A i \in 1 .. v.len : data[i] = v.data[i]
  BY <1>1, <1>3
<1>9. \A i \in 1 .. n : data[v.len + i] = units[i]
  BY <1>1, <1>3
<1> HIDE DEF data, len
<1>10. VecPush(v, units) \in Vec
  BY <1>4, <1>7, <1>3, <1>1 DEF Vec, len
<1> QED
  BY <1>4, <1>3, <1>7, <1>8, <1>9, <1>10 DEF len

(* The number of units of a body.                                           *)
LEMMA Sizes == \A kind \in Kind : BodySize(kind) \in {2, 4, 6}
BY DEF Kind, NumArgs, BodySize

(* What PushCommand does to memory.                                         *)
LEMMA PushingACommand ==
    ASSUME NEW v \in Vec, v.len <= v.cap, Len(v.data) = v.cap, NEW c \in Cmd
    PROVE  LET x == PushCommand(v, c)
               b == BodySize(c.kind)
           IN  /\ x \in Vec /\ x.len = v.len + b + 1
               /\ x.len <= x.cap /\ Len(x.data) = x.cap
               /\ \A i \in 1 .. v.len : x.data[i] = v.data[i]
               /\ \A i \in 1 .. b : x.data[v.len + i] = [part |-> i, of |-> c]
               /\ x.data[x.len] = Header(c)
<1> DEFINE b == BodySize(c.kind)
           w == VecPush(v, Body(c))
           x == PushCommand(v, c)
           one == <<Header(c)>>
<1>1. c.kind \in Kind /\ c.object \in Name /\ b \in {2, 4, 6} /\ v.len \in Nat /\ v.cap \in Nat
  BY Sizes DEF Cmd, Vec
<1>2. Body(c) \in [1 .. b -> Unit] /\ \A i \in 1 .. b : Body(c)[i] = [part |-> i, of |-> c]
  <2>1. c \in [kind: Kind \cup {"garbage"}, object: Name \cup {"none", "garbage"}]
    BY DEF Cmd
  <2>2. ASSUME NEW i \in 1 .. b PROVE [part |-> i, of |-> c] \in Unit
    BY <2>1, <2>2, <1>1 DEF Unit
  <2> QED
    BY <2>2 DEF Body
<1>3. one \in [1 .. 1 -> Unit] /\ one[1] = Header(c)
  <2>1. [kind |-> c.kind, object |-> "none"] \in
            [kind: Kind \cup {"garbage"}, object: Name \cup {"none", "garbage"}]
    BY <1>1
  <2>2. Header(c) \in Unit
    BY <2>1 DEF Header, Unit
  <2> HIDE DEF one
  <2> QED
    BY <2>2 DEF one
<1> HIDE DEF b, one
<1>4. /\ w \in Vec /\ w.len = v.len + b /\ w.len <= w.cap /\ Len(w.data) = w.cap
      /\ \A i \in 1 .. v.len : w.data[i] = v.data[i]
      /\ \A i \in 1 .. b : w.data[v.len + i] = Body(c)[i]
  <2>1. b \in Nat /\ v.len + b <= v.cap + 7
    BY <1>1
  <2> QED
    BY <2>1, <1>2, Pushing
<1> HIDE DEF w
<1>5. x = VecPush(w, one)
  BY DEF PushCommand, w, one
<1> HIDE DEF x
<1>6. /\ x \in Vec /\ x.len = w.len + 1 /\ x.len <= x.cap /\ Len(x.data) = x.cap
      /\ \A i \in 1 .. w.len : x.data[i] = w.data[i]
      /\ \A i \in 1 .. 1 : x.data[w.len + i] = one[i]
  <2>1. w.len \in Nat /\ w.cap \in Nat /\ w.len + 1 <= w.cap + 7
    BY <1>4 DEF Vec
  <2> DEFINE k == 1
  <2>2. k \in Nat /\ one \in [1 .. k -> Unit] /\ w.len + k <= w.cap + 7
    BY <2>1, <1>3
  <2>3. k = 1
    OBVIOUS
  <2> HIDE DEF k
  <2>4. /\ x \in Vec /\ x.len = w.len + k /\ x.len <= x.cap /\ Len(x.data) = x.cap
        /\ \A i \in 1 .. w.len : x.data[i] = w.data[i]
        /\ \A i \in 1 .. k : x.data[w.len + i] = one[i]
    BY <2>2, <1>4, <1>5, Pushing
  <2> QED
    BY <2>3, <2>4
<1>7. \A i \in 1 .. v.len : x.data[i] = v.data[i]
  BY <1>1, <1>4, <1>6
<1>8. \A i \in 1 .. b : x.data[v.len + i] = [part |-> i, of |-> c]
  <2> TAKE i \in 1 .. b
  <2>1. v.len + i \in 1 .. w.len
    BY <1>1, <1>4
  <2> QED
    BY <2>1, <1>2, <1>4, <1>6
<1>9. x.data[x.len] = Header(c)
  BY <1>3, <1>6
<1> QED
  BY <1>1, <1>4, <1>6, <1>7, <1>8, <1>9 DEF x, b

-----------------------------------------------------------------------------
(* A stack that holds commands and nothing else, and that can be decoded    *)
(* from its bottom to its top.                                              *)
Tells(v, upto) ==
    /\ upto[0] = <<>>
    /\ \A h \in Headers(v) : upto[h] = Append(upto[Below(v, h)], CommandAt(v, h))
Decodable(v) == \E upto \in [Headers(v) \cup {0} -> Seq(Cmd)] : Tells(v, upto)

Coded(v) ==
    /\ v \in Vec /\ WellFormed(v) /\ Decodable(v)
    /\ \A h \in Headers(v) : v.data[h].of.kind \in Kind /\ CommandAt(v, h) \in Cmd

(* Every header of a stack has a body below it, and below that is the       *)
(* bottom or another header.                                                *)
LEMMA HeaderPlaces ==
    ASSUME NEW v, Coded(v)
    PROVE  /\ v.len \in Nat /\ v.len <= v.cap /\ Len(v.data) = v.cap
           /\ v.len > 0 => v.len \in Headers(v)
           /\ \A h \in Headers(v) :
                 /\ h \in Nat /\ h <= v.len /\ h - 1 \in 1 .. v.len
                 /\ Below(v, h) \in Headers(v) \cup {0} /\ Below(v, h) \in Nat
                 /\ Below(v, h) < h
                 /\ Below(v, h) = h - 1 - BodySize(v.data[h].of.kind)
                 /\ BodySize(v.data[h].of.kind) \in {2, 4, 6}
                 /\ CommandAt(v, h).kind = v.data[h].of.kind
                 /\ \A i \in 1 .. BodySize(v.data[h].of.kind) :
                       v.data[Below(v, h) + i] = [part |-> i, of |-> CommandAt(v, h)]
<1>1. v.len \in Nat /\ v.cap \in Nat /\ WellFormed(v)
  BY DEF Coded, Vec
<1>2. ASSUME NEW h \in Headers(v)
      PROVE  /\ h \in Nat /\ h <= v.len /\ h - 1 \in 1 .. v.len
             /\ Below(v, h) \in Headers(v) \cup {0} /\ Below(v, h) \in Nat
             /\ Below(v, h) < h
             /\ BodySize(v.data[h].of.kind) \in {2, 4, 6}
  <2> DEFINE b == BodySize(v.data[h].of.kind)
  <2>1. h \in 1 .. v.len /\ b \in {2, 4, 6}
    BY <1>2, Sizes DEF Coded, Headers
  <2>2. Below(v, h) = h - 1 - b /\ Below(v, h) >= 0
    BY <1>1 DEF Below, WellFormed
  <2>3. Below(v, h) > 0 => v.data[Below(v, h)].part = 0
    BY <1>1 DEF WellFormed
  <2> HIDE DEF b
  <2>4. Below(v, h) \in Nat /\ Below(v, h) < h
    BY <2>1, <2>2
  <2>5. Below(v, h) > 0 => Below(v, h) \in 1 .. v.len
    BY <1>1, <2>1, <2>4
  <2>6. Below(v, h) \in Headers(v) \cup {0}
    BY <2>3, <2>4, <2>5 DEF Headers
  <2>7. h - 1 \in 1 .. v.len
    BY <1>1, <2>1, <2>2, <2>4
  <2> QED
    BY <1>1, <2>1, <2>4, <2>6, <2>7 DEF b
<1>3. v.len > 0 => v.len \in Headers(v)
  BY <1>1 DEF WellFormed, Headers
<1>4. \A h \in Headers(v) :
         /\ Below(v, h) = h - 1 - BodySize(v.data[h].of.kind)
         /\ CommandAt(v, h).kind = v.data[h].of.kind
         /\ \A i \in 1 .. BodySize(v.data[h].of.kind) :
               v.data[Below(v, h) + i] = [part |-> i, of |-> CommandAt(v, h)]
  BY <1>1 DEF WellFormed, Below
<1> QED
  BY <1>1, <1>2, <1>3, <1>4 DEF WellFormed

(* There is one way to decode a stack.                                      *)
LEMMA OneDecoding ==
    ASSUME NEW v, Coded(v), NEW a, NEW b, Tells(v, a), Tells(v, b)
    PROVE  \A h \in Headers(v) \cup {0} : a[h] = b[h]
<1> DEFINE Wrong == {h \in Headers(v) : a[h] # b[h]}
<1>1. SUFFICES ASSUME Wrong # {} PROVE FALSE
  BY DEF Tells
<1>2. Wrong \subseteq Nat
  BY HeaderPlaces
<1>3. PICK h \in Wrong : \A g \in Wrong : ~(<<g, h>> \in OpToRel(<, Nat))
  BY <1>1, <1>2, NatLessThanWellFounded, WFMin
<1>4. h \in Headers(v) /\ Below(v, h) \in Headers(v) \cup {0} /\ Below(v, h) \in Nat
      /\ Below(v, h) < h /\ h \in Nat
  BY HeaderPlaces
<1>5. Below(v, h) \notin Wrong
  <2>1. <<Below(v, h), h>> \in OpToRel(<, Nat)
    BY <1>4 DEF OpToRel
  <2> QED
    BY <2>1, <1>3
<1>6. a[Below(v, h)] = b[Below(v, h)]
  BY <1>4, <1>5 DEF Tells
<1> QED
  BY <1>3, <1>4, <1>6 DEF Tells

(* Commands decodes the stack.                                              *)
LEMMA Decoding ==
    ASSUME NEW v, Coded(v), NEW upto \in [Headers(v) \cup {0} -> Seq(Cmd)], Tells(v, upto)
    PROVE  Commands(v) = upto[v.len] /\ Commands(v) \in Seq(Cmd)
<1> DEFINE Eq(f) == f = [h \in Headers(v) \cup {0} |->
                           IF h = 0 THEN <<>> ELSE Append(f[Below(v, h)], CommandAt(v, h))]
           dec == CHOOSE f : Eq(f)
<1>1. \A h \in Headers(v) : h # 0 /\ Below(v, h) \in Headers(v) \cup {0}
  BY HeaderPlaces
<1>2. Eq(upto)
  BY <1>1 DEF Tells
<1>3. Eq(dec)
  BY <1>2
<1>4. Commands(v) = dec[v.len]
  BY DEF Commands
<1> HIDE DEF dec
<1>5. Tells(v, dec)
  BY <1>1, <1>3 DEF Tells
<1>6. v.len \in Headers(v) \cup {0}
  BY HeaderPlaces
<1> QED
  BY <1>4, <1>5, <1>6, OneDecoding

(* Pushing a command adds it at the end.                                    *)
Adds(v, x, c) ==
    /\ Coded(x) /\ x.len \in Nat /\ x.len > v.len
    /\ Headers(x) = Headers(v) \cup {x.len}
    /\ \A h \in Headers(v) : CommandAt(x, h) = CommandAt(v, h)
    /\ CommandAt(x, x.len) = c
    /\ Commands(x) = Append(Commands(v), c)

(* cru_cleanup_push_command() adds its command at the end of the decoded    *)
(* sequence, whether or not the vector grows.                               *)
LEMMA PushAdds ==
    ASSUME NEW v, Coded(v), NEW c \in Cmd
    PROVE  Adds(v, PushCommand(v, c), c)
<1> DEFINE x == PushCommand(v, c)
           b == BodySize(c.kind)
<1>1. v.len \in Nat /\ v.len <= v.cap /\ Len(v.data) = v.cap /\ v \in Vec
  BY HeaderPlaces DEF Coded
<1>2. c.kind \in Kind /\ b \in {2, 4, 6}
  BY Sizes DEF Cmd
<1>3. /\ x \in Vec /\ x.len = v.len + b + 1
      /\ x.len <= x.cap /\ Len(x.data) = x.cap
      /\ \A i \in 1 .. v.len : x.data[i] = v.data[i]
      /\ \A i \in 1 .. b : x.data[v.len + i] = [part |-> i, of |-> c]
      /\ x.data[x.len] = Header(c)
  BY <1>1, PushingACommand
<1> HIDE DEF x, b
<1>4. x.data[x.len].part = 0 /\ x.data[x.len].of.kind = c.kind
  BY <1>3 DEF Header
<1>5. x.len \in Nat /\ x.len > v.len
  BY <1>1, <1>2, <1>3
<1>6. Headers(x) = Headers(v) \cup {x.len}
  <2>1. ASSUME NEW h \in 1 .. x.len PROVE x.data[h].part = 0 <=> h \in Headers(v) \cup {x.len}
    <3>1. CASE h <= v.len
      BY <1>1, <1>3, <1>5, <2>1, <3>1 DEF Headers
    <3>2. CASE h > v.len /\ h < x.len
      <4> DEFINE i == h - v.len
      <4>1. i \in 1 .. b /\ h = v.len + i
        BY <1>1, <1>2, <1>3, <1>5, <3>2
      <4> HIDE DEF i
      <4>2. x.data[h] = [part |-> i, of |-> c]
        BY <1>3, <4>1
      <4>3. i # 0 /\ x.data[h].part = i
        BY <1>2, <4>1, <4>2
      <4>4. h \notin Headers(v) \cup {x.len}
        BY <1>1, <1>5, <3>2 DEF Headers
      <4> QED
        BY <4>3, <4>4
    <3>3. CASE h = x.len
      BY <1>4, <3>3
    <3> QED
      BY <1>1, <1>5, <2>1, <3>1, <3>2, <3>3
  <2>2. Headers(v) \cup {x.len} \subseteq 1 .. x.len
    BY <1>1, <1>2, <1>5 DEF Headers
  <2> QED
    BY <2>1, <2>2 DEF Headers
<1>7. ASSUME NEW h \in Headers(v)
      PROVE  CommandAt(x, h) = CommandAt(v, h) /\ x.data[h] = v.data[h] /\ Below(x, h) = Below(v, h)
  <2>1. h - 1 \in 1 .. v.len /\ h \in 1 .. v.len
    BY HeaderPlaces DEF Headers
  <2>2. x.data[h] = v.data[h]
    BY <1>3, <2>1
  <2> QED
    BY <1>3, <2>1, <2>2 DEF CommandAt, Below
<1>8. CommandAt(x, x.len) = c /\ Below(x, x.len) = v.len
  <2>1. x.data[x.len - 1] = [part |-> b, of |-> c]
    <3>1. b \in 1 .. b /\ x.len - 1 = v.len + b
      BY <1>1, <1>2, <1>3
    <3> QED
      BY <1>3, <3>1
  <2>2. Below(x, x.len) = x.len - 1 - b
    BY <1>4 DEF Below, b
  <2> QED
    BY <1>1, <1>2, <1>3, <2>1, <2>2 DEF CommandAt
<1>9. WellFormed(x)
  <2>1. x.len > 0 => x.data[x.len].part = 0
    BY <1>4
  <2>2. ASSUME NEW h \in Headers(v)
        PROVE  /\ Below(x, h) >= 0
               /\ Below(x, h) > 0 => x.data[Below(x, h)].part = 0
               /\ CommandAt(x, h).kind = x.data[h].of.kind
               /\ \A i \in 1 .. BodySize(x.data[h].of.kind) :
                     x.data[Below(x, h) + i] = [part |-> i, of |-> CommandAt(x, h)]
    <3> DEFINE k == Below(v, h)
               s == BodySize(v.data[h].of.kind)
    <3>1. /\ h \in Nat /\ h <= v.len /\ k \in Headers(v) \cup {0} /\ k \in Nat /\ k < h
          /\ k = h - 1 - s /\ s \in {2, 4, 6} /\ CommandAt(v, h).kind = v.data[h].of.kind
          /\ \A i \in 1 .. s : v.data[k + i] = [part |-> i, of |-> CommandAt(v, h)]
      BY HeaderPlaces
    <3>2. CommandAt(x, h) = CommandAt(v, h) /\ x.data[h] = v.data[h] /\ Below(x, h) = k
      BY <1>7
    <3>3. k > 0 => x.data[k].part = 0
      <4> HAVE k > 0
      <4>1. k \in Headers(v) /\ k \in 1 .. v.len /\ v.data[k].part = 0
        BY <3>1 DEF Headers
      <4> QED
        BY <4>1, <1>3
    <3> HIDE DEF k, s
    <3>4. ASSUME NEW i \in 1 .. s
          PROVE  x.data[k + i] = [part |-> i, of |-> CommandAt(v, h)]
      <4>1. k + i \in 1 .. v.len
        BY <1>1, <3>1
      <4> QED
        BY <4>1, <1>3, <3>1
    <3> QED
      BY <3>1, <3>2, <3>3, <3>4 DEF s
  <2>3. /\ Below(x, x.len) >= 0
        /\ Below(x, x.len) > 0 => x.data[Below(x, x.len)].part = 0
        /\ CommandAt(x, x.len).kind = x.data[x.len].of.kind
        /\ \A i \in 1 .. BodySize(x.data[x.len].of.kind) :
              x.data[Below(x, x.len) + i] = [part |-> i, of |-> CommandAt(x, x.len)]
    <3>1. v.len > 0 => x.data[v.len].part = 0
      <4> HAVE v.len > 0
      <4>1. v.len \in Headers(v) /\ v.len \in 1 .. v.len
        BY <1>1, HeaderPlaces
      <4> QED
        BY <4>1, <1>3 DEF Headers
    <3> QED
      BY <1>1, <1>3, <1>4, <1>8, <3>1 DEF b
  <2>4. \A h \in Headers(x) :
           /\ Below(x, h) >= 0
           /\ Below(x, h) > 0 => x.data[Below(x, h)].part = 0
           /\ CommandAt(x, h).kind = x.data[h].of.kind
           /\ \A i \in 1 .. BodySize(x.data[h].of.kind) :
                 x.data[Below(x, h) + i] = [part |-> i, of |-> CommandAt(x, h)]
    BY <1>6, <2>2, <2>3
  <2> QED
    BY <1>3, <2>1, <2>4 DEF WellFormed
<1>10. PICK upto \in [Headers(v) \cup {0} -> Seq(Cmd)] : Tells(v, upto)
  BY DEF Coded, Decodable
<1> DEFINE more == [h \in Headers(x) \cup {0} |->
                       IF h = x.len THEN Append(upto[v.len], c) ELSE upto[h]]
<1>11. \A h \in Headers(v) \cup {0} : h # x.len
  <2>1. \A h \in Headers(v) : h \in Nat /\ h <= v.len
    BY HeaderPlaces
  <2> QED
    BY <1>1, <1>5, <2>1
<1>12. v.len \in Headers(v) \cup {0}
  BY HeaderPlaces
<1>13. more \in [Headers(x) \cup {0} -> Seq(Cmd)]
  BY <1>6, <1>10, <1>12
<1>14. /\ \A h \in Headers(v) \cup {0} : more[h] = upto[h]
       /\ more[x.len] = Append(upto[v.len], c)
  BY <1>6, <1>11
<1> HIDE DEF more
<1>15. Tells(x, more)
  <2>1. more[0] = <<>>
    BY <1>10, <1>14 DEF Tells
  <2>2. ASSUME NEW h \in Headers(v)
        PROVE  more[h] = Append(more[Below(x, h)], CommandAt(x, h))
    <3>1. Below(v, h) \in Headers(v) \cup {0}
      BY HeaderPlaces
    <3>2. upto[h] = Append(upto[Below(v, h)], CommandAt(v, h))
      BY <1>10 DEF Tells
    <3> QED
      BY <1>7, <1>14, <3>1, <3>2
  <2>3. more[x.len] = Append(more[Below(x, x.len)], CommandAt(x, x.len))
    BY <1>8, <1>12, <1>14
  <2> QED
    BY <1>6, <2>1, <2>2, <2>3 DEF Tells
<1>16. Coded(x)
  <2>1. \A h \in Headers(x) : x.data[h].of.kind \in Kind /\ CommandAt(x, h) \in Cmd
    BY <1>2, <1>4, <1>6, <1>7, <1>8 DEF Coded
  <2>2. Decodable(x)
    BY <1>13, <1>15 DEF Decodable
  <2> QED
    BY <1>3, <1>9, <2>1, <2>2 DEF Coded
<1>17. Commands(x) = Append(Commands(v), c)
  <2>1. Commands(v) = upto[v.len]
    BY <1>10, Decoding
  <2>2. Commands(x) = more[x.len]
    BY <1>13, <1>15, <1>16, Decoding
  <2> QED
    BY <2>1, <2>2, <1>14
<1> QED
  BY <1>5, <1>6, <1>7, <1>8, <1>16, <1>17 DEF Adds, x

(* Popping takes the last one off, and finds the object it is run on.       *)
Removes(v, y) ==
    /\ Coded(y) /\ y.len \in Nat /\ v.len \in Headers(v)
    /\ Headers(y) = Headers(v) \ {v.len}
    /\ \A h \in Headers(y) : CommandAt(y, h) = CommandAt(v, h)
    /\ Commands(v) = Append(Commands(y), CommandAt(v, v.len))
    /\ Commands(y) \in Seq(Cmd)
    /\ PoppedObject(v) = CommandAt(v, v.len).object

(* cru_cleanup_pop_impl() takes the last command off, and what it runs is   *)
(* the object that was pushed with it.                                      *)
LEMMA PopRemoves ==
    ASSUME NEW v, Coded(v), v.len > 0
    PROVE  Removes(v, PopCommand(v))
<1> DEFINE y == PopCommand(v)
           b == BodySize(v.data[v.len].of.kind)
           k == Below(v, v.len)
<1>1. v.len \in Nat /\ v.len <= v.cap /\ Len(v.data) = v.cap /\ v \in Vec /\ v.len \in Headers(v)
  BY HeaderPlaces DEF Coded
<1>2. /\ k \in Headers(v) \cup {0} /\ k \in Nat /\ k < v.len
      /\ k = v.len - 1 - b /\ b \in {2, 4, 6}
      /\ CommandAt(v, v.len).kind = v.data[v.len].of.kind
      /\ \A i \in 1 .. b : v.data[k + i] = [part |-> i, of |-> CommandAt(v, v.len)]
  BY <1>1, HeaderPlaces
<1>3. y \in Vec /\ y.len = k /\ y.cap = v.cap /\ y.data = v.data
  <2>1. v = [len |-> v.len, cap |-> v.cap, data |-> v.data] /\ v.cap \in Nat /\ v.data \in Seq(Unit)
    BY <1>1 DEF Vec
  <2>2. VecPop(v, 1) = [len |-> v.len - 1, cap |-> v.cap, data |-> v.data]
    BY <2>1 DEF VecPop
  <2> DEFINE w == VecPop(v, 1)
  <2>4. y = [w EXCEPT !.len = @ - b]
    BY DEF PopCommand, VecPop, TopSize
  <2> HIDE DEF w, y, b
  <2>3. y = [len |-> v.len - 1 - b, cap |-> v.cap, data |-> v.data]
    BY <2>2, <2>4 DEF w
  <2> HIDE DEF y, k
  <2> QED
    BY <1>2, <2>1, <2>3 DEF Vec
<1> HIDE DEF y, b, k
<1>4. Headers(y) = Headers(v) \ {v.len}
  <2>1. ASSUME NEW h \in Headers(v), h # v.len PROVE h <= k
    <3>2. h \in Nat /\ h <= v.len
      BY HeaderPlaces
    <3>1. SUFFICES ASSUME h > k PROVE FALSE
      BY <1>2, <3>2
    <3> DEFINE i == h - k
    <3>3. i \in Int /\ i >= 1 /\ i <= b /\ b \in Int /\ h = k + i
      <4>1. h < v.len
        BY <1>1, <2>1, <3>2
      <4>2. b \in Int /\ v.len = k + 1 + b
        BY <1>1, <1>2
      <4>3. k \in Int /\ h \in Int /\ v.len \in Int
        BY <1>1, <1>2, <3>2
      <4> HIDE DEF k, b
      <4> QED
        BY <4>1, <4>2, <4>3, <3>1
    <3> HIDE DEF i
    <3>5. i \in 1 .. b
      BY <3>3
    <3>4. v.data[h] = [part |-> i, of |-> CommandAt(v, v.len)]
      BY <1>2, <3>3, <3>5
    <3> QED
      BY <3>3, <3>4 DEF Headers
  <2> QED
    BY <1>1, <1>2, <1>3, <2>1 DEF Headers
<1>5. \A h \in Headers(y) : CommandAt(y, h) = CommandAt(v, h) /\ Below(y, h) = Below(v, h)
  BY <1>3 DEF CommandAt, Below
<1>6. WellFormed(y)
  <2>1. k > 0 => v.data[k].part = 0
    BY <1>2 DEF Headers
  <2>2. \A h \in Headers(y) :
           /\ Below(y, h) >= 0
           /\ Below(y, h) > 0 => y.data[Below(y, h)].part = 0
           /\ CommandAt(y, h).kind = y.data[h].of.kind
           /\ \A i \in 1 .. BodySize(y.data[h].of.kind) :
                 y.data[Below(y, h) + i] = [part |-> i, of |-> CommandAt(y, h)]
    BY <1>3, <1>4, <1>5 DEF Coded, WellFormed
  <2>3. y.len <= y.cap /\ Len(y.data) = y.cap
    BY <1>1, <1>2, <1>3 DEF Vec
  <2> QED
    BY <1>3, <2>1, <2>2, <2>3 DEF WellFormed
<1>7. PICK upto \in [Headers(v) \cup {0} -> Seq(Cmd)] : Tells(v, upto)
  BY DEF Coded, Decodable
<1> DEFINE less == [h \in Headers(y) \cup {0} |-> upto[h]]
<1>8. less \in [Headers(y) \cup {0} -> Seq(Cmd)] /\ \A h \in Headers(y) \cup {0} : less[h] = upto[h]
  BY <1>4, <1>7
<1> HIDE DEF less
<1>9. Tells(y, less)
  <2>1. ASSUME NEW h \in Headers(y)
        PROVE  less[h] = Append(less[Below(y, h)], CommandAt(y, h))
    <3>1. h \in Headers(v) /\ h \in Nat /\ h <= k
      BY <1>3, <1>4, <2>1, HeaderPlaces DEF Headers
    <3>2. Below(v, h) \in Headers(v) \cup {0} /\ Below(v, h) < h /\ Below(v, h) \in Nat
      BY <3>1, HeaderPlaces
    <3>3. Below(v, h) \in Headers(y) \cup {0}
      BY <1>1, <1>2, <1>4, <3>1, <3>2
    <3>4. upto[h] = Append(upto[Below(v, h)], CommandAt(v, h))
      BY <1>7, <3>1 DEF Tells
    <3> QED
      BY <1>5, <1>8, <2>1, <3>3, <3>4
  <2> QED
    BY <1>7, <1>8, <2>1 DEF Tells
<1>10. Coded(y)
  BY <1>3, <1>4, <1>5, <1>6, <1>8, <1>9 DEF Coded, Decodable
<1>11. Commands(v) = Append(Commands(y), CommandAt(v, v.len)) /\ Commands(y) \in Seq(Cmd)
  <2>1. Commands(v) = upto[v.len]
    BY <1>7, Decoding
  <2>2. Commands(y) = less[y.len] /\ Commands(y) \in Seq(Cmd)
    BY <1>8, <1>9, <1>10, Decoding
  <2>3. k \in Headers(y) \cup {0}
    BY <1>1, <1>2, <1>4
  <2>4. upto[v.len] = Append(upto[k], CommandAt(v, v.len))
    BY <1>1, <1>7 DEF Tells, k
  <2> QED
    BY <1>3, <1>8, <2>1, <2>2, <2>3, <2>4
<1>12. PoppedObject(v) = CommandAt(v, v.len).object
  <2>1. v.data[k + 1] = [part |-> 1, of |-> CommandAt(v, v.len)]
    BY <1>2
  <2> QED
    BY <1>3, <2>1 DEF PoppedObject, y
<1> QED
  BY <1>1, <1>2, <1>3, <1>4, <1>5, <1>10, <1>11, <1>12 DEF Removes, y

(* The stack that cru_vec_init() leaves is the empty sequence.              *)
LEMMA EmptyIsCoded == Coded(EmptyVec) /\ Commands(EmptyVec) = <<>> /\ Headers(EmptyVec) = {}
<1>1. EmptyVec \in Vec /\ EmptyVec.len = 0 /\ EmptyVec.cap = 0 /\ EmptyVec.data = <<>>
  BY DEF EmptyVec, Vec
<1>2. Headers(EmptyVec) = {}
  BY <1>1 DEF Headers
<1>3. WellFormed(EmptyVec)
  BY <1>1, <1>2 DEF WellFormed
<1> DEFINE upto == [h \in {0} |-> <<>>]
<1>4. upto \in [Headers(EmptyVec) \cup {0} -> Seq(Cmd)] /\ Tells(EmptyVec, upto) /\ upto[0] = <<>>
  BY <1>2 DEF Tells
<1>5. Coded(EmptyVec)
  BY <1>1, <1>2, <1>3, <1>4 DEF Coded, Decodable
<1> QED
  BY <1>1, <1>2, <1>4, <1>5, Decoding

-----------------------------------------------------------------------------
(* The steps of setup and their order.                                      *)

(* The place of a step among all those that setup may take; arrays that it  *)
(* frees itself have none.                                                  *)
Place ==
    [ref_image |-> 1, ref_stencil_image |-> 2, instance_extension_props |-> 3,
     instance |-> 4, debug_callback |-> 5, phys_dev |-> 6, queue_family_props |-> 7,
     choose_queue |-> 8, device_extension_props |-> 9, features |-> 10, device |-> 11,
     descriptor_pool |-> 12, color_image |-> 13, color_mem |-> 14,
     color_image_view |-> 15, color_pass |-> 16, ds_image |-> 17, ds_mem |-> 18,
     depthstencil_image_view |-> 19, color_depth_pass |-> 20, framebuffer |-> 21,
     queue |-> 22, queue_family |-> 23, get_queues |-> 24, pipeline_cache |-> 25,
     cmd_pool |-> 26]

Pools == Len(CmdPoolOf)
Rank(s) ==
    IF s.do = "create"
    THEN IF s.object \in SetupObject THEN Place[s.object]
         ELSE 26 + CHOOSE f \in 1 .. Pools : CmdPoolOf[f] = s.object
    ELSE IF s.do = "memory" THEN Place[s.object]
    ELSE IF s.do = "fill_cmd_pools" THEN 27 + Pools
    ELSE IF s.do = "cmd_buffer" THEN 28 + Pools
    ELSE IF s.do = "begin_cmd_buffer" THEN 29 + Pools
    ELSE Place[s.do]

Created == (SetupObject \ {"cmd_buffer"}) \cup {CmdPoolOf[f] : f \in 1 .. Pools}
Looks == {"phys_dev", "choose_queue", "features", "get_queues", "fill_cmd_pools",
          "cmd_buffer", "begin_cmd_buffer"}
SetupStep ==
    [do: {"create"}, object: Created, kind: Kind, needs: {{}, {"instance"}, {"device"}}]
    \cup [do: {"malloc"}, object: {"ext_names", "qci", "priorities"}]
    \cup [do: {"memory"}, object: ImageMemory]
    \cup [do: Looks, object: {"none"}]

(* What a step may need has an earlier place.                               *)
Fits(s, lo, hi) ==
    s.do # "malloc" =>
        /\ Rank(s) \in Int /\ lo <= Rank(s) /\ Rank(s) <= hi
        /\ s.do = "create" /\ "instance" \in s.needs => 4 < Rank(s)
        /\ s.do = "create" /\ "device" \in s.needs => 11 < Rank(s)

(* After an array is allocated comes another one, or the step that ends in  *)
(* freeing it.                                                              *)
Holds(s) == s.do \in {"malloc", "features"}
Frees(s) == s.do = "create" /\ s.object \in {"instance", "device"}

Ordered(steps, lo, hi) ==
    /\ steps \in Seq(SetupStep)
    /\ \A i \in 1 .. Len(steps) : Fits(steps[i], lo, hi)
    /\ \A i, j \in 1 .. Len(steps) :
          i < j /\ steps[i].do # "malloc" /\ steps[j].do # "malloc" =>
              Rank(steps[i]) < Rank(steps[j])
    /\ \A i \in 1 .. Len(steps) :
          Holds(steps[i]) => /\ i + 1 \in 1 .. Len(steps)
                             /\ Holds(steps[i + 1]) \/ Frees(steps[i + 1])

Occurs(s, steps) == \E i \in 1 .. Len(steps) : steps[i] = s

(* Two ordered parts of setup are ordered together if the second is in      *)
(* later places.                                                            *)
LEMMA Joins ==
    ASSUME NEW a, NEW b, NEW lo \in Int, NEW mid \in Int, NEW next \in Int, NEW hi \in Int,
           Ordered(a, lo, mid), Ordered(b, next, hi), lo <= next, mid < next, mid <= hi
    PROVE  Ordered(a \o b, lo, hi)
<1> DEFINE c == a \o b
           la == Len(a)
           lb == Len(b)
<1>1. a \in Seq(SetupStep) /\ b \in Seq(SetupStep) /\ la \in Nat /\ lb \in Nat
  BY DEF Ordered
<1>2. c \in Seq(SetupStep) /\ Len(c) = la + lb
  BY <1>1
<1>3. \A i \in 1 .. la : i \in 1 .. Len(c) /\ c[i] = a[i]
  BY <1>1
<1>4. \A i \in 1 .. lb : la + i \in 1 .. Len(c) /\ c[la + i] = b[i]
  BY <1>1
<1>5. \A i \in 1 .. Len(c) : i \in 1 .. la \/ (i - la \in 1 .. lb /\ i = la + (i - la) /\ c[i] = b[i - la])
  BY <1>1, <1>2
<1>6. /\ \A i \in 1 .. la : Fits(a[i], lo, mid)
      /\ \A i \in 1 .. lb : Fits(b[i], next, hi)
  BY DEF Ordered
<1> HIDE DEF c, la, lb
<1>7. \A i \in 1 .. Len(c) : Fits(c[i], lo, hi)
  BY <1>3, <1>5, <1>6 DEF Fits
<1>8. ASSUME NEW i \in 1 .. Len(c), NEW j \in 1 .. Len(c), i < j,
             c[i].do # "malloc", c[j].do # "malloc"
      PROVE  Rank(c[i]) < Rank(c[j])
  <2>1. CASE i \in 1 .. la /\ j \in 1 .. la
    BY <1>3, <1>8, <2>1 DEF Ordered, la
  <2>2. CASE i \in 1 .. la /\ j \notin 1 .. la
    <3>1. Fits(c[i], lo, mid) /\ Fits(c[j], next, hi)
      BY <1>3, <1>5, <1>6, <1>8, <2>2
    <3> QED
      BY <1>8, <3>1 DEF Fits
  <2>3. CASE i \notin 1 .. la /\ j \notin 1 .. la
    <3>1. i - la \in 1 .. lb /\ j - la \in 1 .. lb /\ c[i] = b[i - la] /\ c[j] = b[j - la]
          /\ i - la < j - la
      BY <1>1, <1>2, <1>5, <1>8, <2>3
    <3> QED
      BY <1>8, <3>1 DEF Ordered, lb
  <2>4. CASE i \notin 1 .. la /\ j \in 1 .. la
    BY <1>1, <1>2, <1>8, <2>4
  <2> QED
    BY <2>1, <2>2, <2>3, <2>4
<1>9. ASSUME NEW i \in 1 .. Len(c), Holds(c[i])
      PROVE  i + 1 \in 1 .. Len(c) /\ (Holds(c[i + 1]) \/ Frees(c[i + 1]))
  <2>1. CASE i \in 1 .. la
    <3>1. i + 1 \in 1 .. la /\ (Holds(a[i + 1]) \/ Frees(a[i + 1]))
      BY <1>3, <1>9, <2>1 DEF Ordered, la
    <3> QED
      BY <3>1, <1>3
  <2>2. CASE i \notin 1 .. la
    <3> DEFINE k == i - la
    <3>1. k \in 1 .. lb /\ i = la + k /\ c[i] = b[k]
      BY <1>5, <2>2
    <3>2. k + 1 \in 1 .. lb /\ (Holds(b[k + 1]) \/ Frees(b[k + 1]))
      BY <1>9, <3>1 DEF Ordered, lb
    <3>3. i + 1 = la + (k + 1)
      BY <1>1, <1>2, <3>1
    <3> HIDE DEF k
    <3> QED
      BY <1>4, <3>2, <3>3
  <2> QED
    BY <2>1, <2>2
<1>10. Ordered(c, lo, hi)
  BY <1>2, <1>7, <1>8, <1>9 DEF Ordered
<1> QED
  BY <1>10 DEF c

(* What occurs in a part occurs in the whole.                               *)
LEMMA OccursInPart ==
    ASSUME NEW a, NEW b, NEW lo, NEW mid, NEW next, NEW hi, Ordered(a, lo, mid), Ordered(b, next, hi)
    PROVE  \A s : Occurs(s, a) \/ Occurs(s, b) => Occurs(s, a \o b)
<1>1. a \in Seq(SetupStep) /\ b \in Seq(SetupStep)
  BY DEF Ordered
<1>2. \A i \in 1 .. Len(a) : i \in 1 .. Len(a \o b) /\ (a \o b)[i] = a[i]
  BY <1>1
<1>3. \A i \in 1 .. Len(b) : Len(a) + i \in 1 .. Len(a \o b) /\ (a \o b)[Len(a) + i] = b[i]
  BY <1>1
<1> QED
  BY <1>2, <1>3 DEF Occurs

(* A part that is left out is ordered.                                      *)
LEMMA NoSteps == \A lo, hi \in Int : Ordered(<<>>, lo, hi)
BY DEF Ordered

(* So is a part that is there under a condition only.                       *)
LEMMA Conditional ==
    ASSUME NEW cond \in BOOLEAN, NEW steps, NEW lo \in Int, NEW hi \in Int, Ordered(steps, lo, hi)
    PROVE  /\ Ordered(When(cond, steps), lo, hi)
           /\ cond => When(cond, steps) = steps
BY NoSteps DEF When

(* The parts that t_setup_vulkan() and what it calls consist of, each in    *)
(* its places.                                                              *)
LEMMA PartsOfSetup ==
    /\ Ordered(<<Create("ref_image", "cru_image", {})>>, 1, 1)
    /\ Ordered(<<Create("ref_stencil_image", "cru_image", {})>>, 2, 2)
    /\ Ordered(<<Create("instance_extension_props", "free", {}), Malloc("ext_names"),
                 Create("instance", "vk_instance", {})>>, 3, 4)
    /\ Ordered(<<Create("debug_callback", "debug_cb", {"instance"})>>, 5, 5)
    /\ Ordered(<<Do("phys_dev"), Create("queue_family_props", "free", {}), Do("choose_queue"),
                 Create("device_extension_props", "free", {}),
                 Malloc("ext_names"), Malloc("qci"), Malloc("priorities"), Do("features"),
                 Create("device", "vk_device", {"instance"}), OnDevice("descriptor_pool")>>, 6, 12)
    /\ Ordered(<<OnDevice("color_image"), Memory("color_mem"),
                 OnDevice("color_image_view"), OnDevice("color_pass")>>, 13, 16)
    /\ Ordered(<<OnDevice("ds_image"), Memory("ds_mem"),
                 OnDevice("depthstencil_image_view"), OnDevice("color_depth_pass")>>, 17, 20)
    /\ Ordered(<<OnDevice("framebuffer")>>, 21, 21)
    /\ Ordered(<<Create("queue", "free", {}), Create("queue_family", "free", {}),
                 Do("get_queues"), OnDevice("pipeline_cache"), Create("cmd_pool", "free", {})>>,
               22, 26)
    /\ Ordered(<<Do("fill_cmd_pools"), Do("cmd_buffer"), Do("begin_cmd_buffer")>>,
               27 + Pools, 29 + Pools)
<1>1. Pools \in Nat
  BY NameAssumption DEF Pools
<1>2. ASSUME NEW o \in SetupObject, NEW k, NEW n
      PROVE  Rank(Create(o, k, n)) = Place[o] /\ Create(o, k, n).do = "create"
             /\ Create(o, k, n).needs = n /\ Create(o, k, n).object = o
  BY DEF Rank, Create
<1>3. ASSUME NEW o \in SetupObject \ {"cmd_buffer"}, NEW k \in Kind,
             NEW n \in {{}, {"instance"}, {"device"}}
      PROVE  Create(o, k, n) \in SetupStep
  BY DEF SetupStep, Create, Created
<1>4. ASSUME NEW s, s \in SetupStep, NEW lo \in Int, NEW hi \in Int, Fits(s, lo, hi), ~Holds(s)
      PROVE  Ordered(<<s>>, lo, hi)
  BY <1>4 DEF Ordered, Fits
<1> DEFINE Known == SetupObject \ {"cmd_buffer"}
<1>5. ASSUME NEW o \in Known, NEW k \in Kind, NEW n \in {{}, {"instance"}, {"device"}},
             n = {"instance"} => Place[o] > 4, n = {"device"} => Place[o] > 11, Place[o] \in Int
      PROVE  /\ Create(o, k, n) \in SetupStep /\ Rank(Create(o, k, n)) = Place[o]
             /\ Fits(Create(o, k, n), Place[o], Place[o])
             /\ Create(o, k, n).do = "create" /\ Create(o, k, n).object = o
  <2>1. n = {} \/ n = {"instance"} \/ n = {"device"}
    BY <1>5
  <2>2. "instance" \in n => n = {"instance"}
    BY <2>1
  <2>3. "device" \in n => n = {"device"}
    BY <2>1
  <2> DEFINE x == Create(o, k, n)
  <2>4. x.do = "create" /\ x.needs = n /\ x.object = o /\ Rank(x) = Place[o]
    BY <1>2
  <2>5. x \in SetupStep
    BY <1>3
  <2> HIDE DEF x
  <2>6. Fits(x, Place[o], Place[o])
    BY <1>5, <2>2, <2>3, <2>4 DEF Fits
  <2> QED
    BY <2>4, <2>5, <2>6 DEF x
<1>6. ASSUME NEW o \in Known, Place[o] > 11, Place[o] \in Int
      PROVE  /\ OnDevice(o) \in SetupStep /\ Rank(OnDevice(o)) = Place[o]
             /\ Fits(OnDevice(o), Place[o], Place[o]) /\ OnDevice(o).do = "create"
  BY <1>5, <1>6 DEF OnDevice, Kind, NumArgs
<1>7. Ordered(<<Create("ref_image", "cru_image", {})>>, 1, 1)
  BY <1>5, <1>4 DEF SetupObject, Place, Fits, Holds, Kind, NumArgs
<1>8. Ordered(<<Create("ref_stencil_image", "cru_image", {})>>, 2, 2)
  BY <1>5, <1>4 DEF SetupObject, Place, Fits, Holds, Kind, NumArgs
<1>9. Ordered(<<Create("debug_callback", "debug_cb", {"instance"})>>, 5, 5)
  BY <1>5, <1>4 DEF SetupObject, Place, Fits, Holds, Kind, NumArgs
<1>10. Ordered(<<OnDevice("framebuffer")>>, 21, 21)
  BY <1>6, <1>4 DEF SetupObject, Place, Fits, Holds, Kind, NumArgs
<1>11. /\ Memory("color_mem") \in SetupStep /\ ~Holds(Memory("color_mem"))
       /\ Rank(Memory("color_mem")) = 14 /\ Fits(Memory("color_mem"), 14, 14)
       /\ Memory("ds_mem") \in SetupStep /\ ~Holds(Memory("ds_mem"))
       /\ Rank(Memory("ds_mem")) = 18 /\ Fits(Memory("ds_mem"), 18, 18)
  <2>1. ASSUME NEW o \in ImageMemory
        PROVE  /\ Memory(o) \in SetupStep /\ ~Holds(Memory(o)) /\ Rank(Memory(o)) = Place[o]
               /\ Memory(o).do = "memory"
    BY DEF Memory, SetupStep, Holds, Rank
  <2>2. Place["color_mem"] = 14 /\ Place["ds_mem"] = 18
    BY DEF Place
  <2> QED
    BY <2>1, <2>2 DEF Fits, ImageMemory
<1>12. Ordered(<<OnDevice("color_image"), Memory("color_mem"),
                 OnDevice("color_image_view"), OnDevice("color_pass")>>, 13, 16)
  <2> DEFINE a == OnDevice("color_image")
             b == Memory("color_mem")
             c == OnDevice("color_image_view")
             d == OnDevice("color_pass")
  <2>1. /\ a \in SetupStep /\ ~Holds(a) /\ Rank(a) = 13 /\ Fits(a, 13, 13)
        /\ c \in SetupStep /\ ~Holds(c) /\ Rank(c) = 15 /\ Fits(c, 15, 15)
        /\ d \in SetupStep /\ ~Holds(d) /\ Rank(d) = 16 /\ Fits(d, 16, 16)
    BY <1>6 DEF SetupObject, Place, Holds
  <2>2. b \in SetupStep /\ ~Holds(b) /\ Rank(b) = 14 /\ Fits(b, 14, 14)
    BY <1>11
  <2> HIDE DEF a, b, c, d
  <2> DEFINE steps == <<a, b, c, d>>
  <2>8. /\ steps \in Seq(SetupStep) /\ Len(steps) = 4
        /\ steps[1] = a
        /\ steps[2] = b
        /\ steps[3] = c
        /\ steps[4] = d
    BY <2>1, <2>2
  <2> HIDE DEF steps
  <2>9. Ordered(steps, 13, 16)
    BY <2>8, <2>1, <2>2 DEF Ordered, Fits
  <2> QED
    BY <2>9 DEF steps, a, b, c, d
<1>13. Ordered(<<OnDevice("ds_image"), Memory("ds_mem"),
                 OnDevice("depthstencil_image_view"), OnDevice("color_depth_pass")>>, 17, 20)
  <2> DEFINE a == OnDevice("ds_image")
             b == Memory("ds_mem")
             c == OnDevice("depthstencil_image_view")
             d == OnDevice("color_depth_pass")
  <2>1. /\ a \in SetupStep /\ ~Holds(a) /\ Rank(a) = 17 /\ Fits(a, 17, 17)
        /\ c \in SetupStep /\ ~Holds(c) /\ Rank(c) = 19 /\ Fits(c, 19, 19)
        /\ d \in SetupStep /\ ~Holds(d) /\ Rank(d) = 20 /\ Fits(d, 20, 20)
    BY <1>6 DEF SetupObject, Place, Holds
  <2>2. b \in SetupStep /\ ~Holds(b) /\ Rank(b) = 18 /\ Fits(b, 18, 18)
    BY <1>11
  <2> HIDE DEF a, b, c, d
  <2> DEFINE steps == <<a, b, c, d>>
  <2>8. /\ steps \in Seq(SetupStep) /\ Len(steps) = 4
        /\ steps[1] = a
        /\ steps[2] = b
        /\ steps[3] = c
        /\ steps[4] = d
    BY <2>1, <2>2
  <2> HIDE DEF steps
  <2>9. Ordered(steps, 17, 20)
    BY <2>8, <2>1, <2>2 DEF Ordered, Fits
  <2> QED
    BY <2>9 DEF steps, a, b, c, d
<1>14. Ordered(<<Create("queue", "free", {}), Create("queue_family", "free", {}),
                 Do("get_queues"), OnDevice("pipeline_cache"), Create("cmd_pool", "free", {})>>,
               22, 26)
  <2> DEFINE a == Create("queue", "free", {})
             b == Create("queue_family", "free", {})
             c == Do("get_queues")
             d == OnDevice("pipeline_cache")
             e == Create("cmd_pool", "free", {})
  <2>1. /\ a \in SetupStep /\ ~Holds(a) /\ Rank(a) = 22 /\ Fits(a, 22, 22)
        /\ b \in SetupStep /\ ~Holds(b) /\ Rank(b) = 23 /\ Fits(b, 23, 23)
        /\ e \in SetupStep /\ ~Holds(e) /\ Rank(e) = 26 /\ Fits(e, 26, 26)
    BY <1>5 DEF SetupObject, Place, Holds, Kind, NumArgs
  <2>2. d \in SetupStep /\ ~Holds(d) /\ Rank(d) = 25 /\ Fits(d, 25, 25)
    BY <1>6 DEF SetupObject, Place, Holds
  <2>3. c \in SetupStep /\ ~Holds(c) /\ Rank(c) = 24 /\ Fits(c, 24, 24)
    BY DEF Do, SetupStep, Looks, Holds, Rank, Place, Fits
  <2> HIDE DEF a, b, c, d, e
  <2> DEFINE steps == <<a, b, c, d, e>>
  <2>8. /\ steps \in Seq(SetupStep) /\ Len(steps) = 5
        /\ steps[1] = a
        /\ steps[2] = b
        /\ steps[3] = c
        /\ steps[4] = d
        /\ steps[5] = e
    BY <2>1, <2>2, <2>3
  <2> HIDE DEF steps
  <2>9. Ordered(steps, 22, 26)
    BY <2>8, <2>1, <2>2, <2>3 DEF Ordered, Fits
  <2> QED
    BY <2>9 DEF steps, a, b, c, d, e
<1>15. Ordered(<<Do("fill_cmd_pools"), Do("cmd_buffer"), Do("begin_cmd_buffer")>>,
               27 + Pools, 29 + Pools)
  <2> DEFINE a == Do("fill_cmd_pools")
             b == Do("cmd_buffer")
             c == Do("begin_cmd_buffer")
  <2>1. /\ a \in SetupStep /\ ~Holds(a) /\ Rank(a) = 27 + Pools /\ Fits(a, 27 + Pools, 27 + Pools)
        /\ b \in SetupStep /\ ~Holds(b) /\ Rank(b) = 28 + Pools /\ Fits(b, 28 + Pools, 28 + Pools)
        /\ c \in SetupStep /\ ~Holds(c) /\ Rank(c) = 29 + Pools /\ Fits(c, 29 + Pools, 29 + Pools)
    BY <1>1 DEF Do, SetupStep, Looks, Holds, Rank, Fits
  <2> HIDE DEF a, b, c
  <2> DEFINE steps == <<a, b, c>>
  <2>8. /\ steps \in Seq(SetupStep) /\ Len(steps) = 3
        /\ steps[1] = a
        /\ steps[2] = b
        /\ steps[3] = c
    BY <2>1
  <2> HIDE DEF steps
  <2>9. Ordered(steps, 27 + Pools, 29 + Pools)
    BY <2>8, <2>1, <1>1 DEF Ordered, Fits
  <2> QED
    BY <2>9 DEF steps, a, b, c
<1>16. ASSUME NEW o \in {"ext_names", "qci", "priorities"}
       PROVE  /\ Malloc(o) \in SetupStep /\ Holds(Malloc(o)) /\ Malloc(o).do = "malloc"
              /\ \A lo, hi : Fits(Malloc(o), lo, hi)
  BY DEF Malloc, SetupStep, Holds, Fits
<1>17. Ordered(<<Create("instance_extension_props", "free", {}), Malloc("ext_names"),
                 Create("instance", "vk_instance", {})>>, 3, 4)
  <2> DEFINE a == Create("instance_extension_props", "free", {})
             b == Malloc("ext_names")
             c == Create("instance", "vk_instance", {})
  <2>1. /\ a \in SetupStep /\ ~Holds(a) /\ Rank(a) = 3 /\ Fits(a, 3, 4) /\ a.do # "malloc"
        /\ c \in SetupStep /\ ~Holds(c) /\ Rank(c) = 4 /\ Fits(c, 3, 4) /\ c.do # "malloc"
        /\ Frees(c)
    BY <1>5 DEF SetupObject, Place, Holds, Kind, NumArgs, Frees, Fits
  <2>2. b \in SetupStep /\ Holds(b) /\ Fits(b, 3, 4) /\ b.do = "malloc"
    BY <1>16
  <2> HIDE DEF a, b, c
  <2> DEFINE steps == <<a, b, c>>
  <2>8. /\ steps \in Seq(SetupStep) /\ Len(steps) = 3
        /\ steps[1] = a
        /\ steps[2] = b
        /\ steps[3] = c
    BY <2>1, <2>2
  <2> HIDE DEF steps
  <2>9. Ordered(steps, 3, 4)
    BY <2>8, <2>1, <2>2 DEF Ordered
  <2> QED
    BY <2>9 DEF steps, a, b, c
<1>18. Ordered(<<Do("phys_dev"), Create("queue_family_props", "free", {}), Do("choose_queue"),
                 Create("device_extension_props", "free", {}),
                 Malloc("ext_names"), Malloc("qci"), Malloc("priorities"), Do("features"),
                 Create("device", "vk_device", {"instance"}), OnDevice("descriptor_pool")>>, 6, 12)
  <2> DEFINE a == Do("phys_dev")
             b == Create("queue_family_props", "free", {})
             c == Do("choose_queue")
             d == Create("device_extension_props", "free", {})
             e == Malloc("ext_names")
             f == Malloc("qci")
             g == Malloc("priorities")
             h == Do("features")
             k == Create("device", "vk_device", {"instance"})
             l == OnDevice("descriptor_pool")
  <2>1. /\ b \in SetupStep /\ ~Holds(b) /\ Rank(b) = 7 /\ Fits(b, 6, 12) /\ b.do # "malloc"
        /\ d \in SetupStep /\ ~Holds(d) /\ Rank(d) = 9 /\ Fits(d, 6, 12) /\ d.do # "malloc"
        /\ k \in SetupStep /\ ~Holds(k) /\ Rank(k) = 11 /\ Fits(k, 6, 12) /\ k.do # "malloc"
        /\ Frees(k)
    BY <1>5 DEF SetupObject, Place, Holds, Kind, NumArgs, Frees, Fits
  <2>2. /\ e \in SetupStep /\ Holds(e) /\ Fits(e, 6, 12) /\ e.do = "malloc"
        /\ f \in SetupStep /\ Holds(f) /\ Fits(f, 6, 12) /\ f.do = "malloc"
        /\ g \in SetupStep /\ Holds(g) /\ Fits(g, 6, 12) /\ g.do = "malloc"
    BY <1>16
  <2>3. /\ a \in SetupStep /\ ~Holds(a) /\ Rank(a) = 6 /\ Fits(a, 6, 12) /\ a.do # "malloc"
        /\ c \in SetupStep /\ ~Holds(c) /\ Rank(c) = 8 /\ Fits(c, 6, 12) /\ c.do # "malloc"
        /\ h \in SetupStep /\ Holds(h) /\ Rank(h) = 10 /\ Fits(h, 6, 12) /\ h.do # "malloc"
    BY DEF Do, SetupStep, Looks, Holds, Rank, Place, Fits
  <2>4. l \in SetupStep /\ ~Holds(l) /\ Rank(l) = 12 /\ Fits(l, 6, 12) /\ l.do # "malloc"
    BY <1>6 DEF SetupObject, Place, Holds, Fits
  <2> HIDE DEF a, b, c, d, e, f, g, h, k, l
  <2> DEFINE steps == <<a, b, c, d, e, f, g, h, k, l>>
  <2>5. /\ steps \in Seq(SetupStep) /\ Len(steps) = 10
        /\ steps[1] = a /\ steps[2] = b /\ steps[3] = c /\ steps[4] = d /\ steps[5] = e
        /\ steps[6] = f /\ steps[7] = g /\ steps[8] = h /\ steps[9] = k /\ steps[10] = l
    BY <2>1, <2>2, <2>3, <2>4
  <2> HIDE DEF steps
  <2>6. \A i \in 1 .. 10 : Fits(steps[i], 6, 12)
    BY <2>1, <2>2, <2>3, <2>4, <2>5
  <2>7. \A i \in 1 .. 10 : Holds(steps[i]) => /\ i + 1 \in 1 .. 10
                                              /\ Holds(steps[i + 1]) \/ Frees(steps[i + 1])
    BY <2>1, <2>2, <2>3, <2>4, <2>5
  <2>8. \A i \in 1 .. 10 :
            steps[i].do # "malloc" =>
                \/ i <= 4 /\ Rank(steps[i]) = i + 5
                \/ i >= 8 /\ Rank(steps[i]) = i + 2
    BY <2>1, <2>2, <2>3, <2>4, <2>5
  <2>9. \A i, j \in 1 .. 10 :
          i < j /\ steps[i].do # "malloc" /\ steps[j].do # "malloc" =>
              Rank(steps[i]) < Rank(steps[j])
    BY <2>8
  <2>10. Ordered(steps, 6, 12)
    <3>1. steps \in Seq(SetupStep) /\ Len(steps) = 10
      BY <2>5
    <3>4. \A i \in 1 .. Len(steps) : Fits(steps[i], 6, 12)
      BY <3>1, <2>6
    <3>5. \A i \in 1 .. Len(steps) :
             Holds(steps[i]) => /\ i + 1 \in 1 .. Len(steps)
                                /\ Holds(steps[i + 1]) \/ Frees(steps[i + 1])
      BY <3>1, <2>7
    <3>6. \A i, j \in 1 .. Len(steps) :
             i < j /\ steps[i].do # "malloc" /\ steps[j].do # "malloc" =>
                 Rank(steps[i]) < Rank(steps[j])
      BY <3>1, <2>9
    <3> QED
      BY <3>1, <3>4, <3>5, <3>6 DEF Ordered
  <2> QED
    BY <2>10 DEF steps, a, b, c, d, e, f, g, h, k, l
<1> QED
  BY <1>7, <1>8, <1>9, <1>10, <1>12, <1>13, <1>14, <1>15, <1>17, <1>18

(* The command pools follow the families.                                   *)
LEMMA PoolSteps ==
    ASSUME NEW n \in 0 .. Pools
    PROVE  LET pools == [f \in 1 .. n |-> OnDevice(CmdPoolOf[f])]
           IN  Ordered(pools, 27, 26 + Pools)
<1> DEFINE pools == [f \in 1 .. n |-> OnDevice(CmdPoolOf[f])]
<1>1. Pools \in Nat /\ DOMAIN CmdPoolOf = 1 .. Pools
  BY NameAssumption DEF Pools
<1>2. ASSUME NEW f \in 1 .. Pools
      PROVE  /\ OnDevice(CmdPoolOf[f]) \in SetupStep /\ Rank(OnDevice(CmdPoolOf[f])) = 26 + f
             /\ OnDevice(CmdPoolOf[f]).do = "create"
  <2> DEFINE s == OnDevice(CmdPoolOf[f])
  <2>1. s.do = "create" /\ s.object = CmdPoolOf[f] /\ s.needs = {"device"}
    BY DEF OnDevice, Create
  <2>2. s \in SetupStep
    BY DEF OnDevice, Create, SetupStep, Created, Kind, NumArgs
  <2>3. CmdPoolOf[f] \notin SetupObject
    BY <1>1, NameAssumption
  <2>4. (CHOOSE g \in 1 .. Pools : CmdPoolOf[g] = CmdPoolOf[f]) = f
    BY <1>1, NameAssumption
  <2> HIDE DEF s
  <2>5. Rank(s) = 26 + f
    BY <2>1, <2>3, <2>4 DEF Rank
  <2> QED
    BY <2>1, <2>2, <2>5 DEF s
<1>3. pools \in Seq(SetupStep) /\ Len(pools) = n
  BY <1>1, <1>2
<1>4. \A f \in 1 .. n : Rank(pools[f]) = 26 + f /\ pools[f].do = "create"
  BY <1>1, <1>2
<1> HIDE DEF pools
<1>5. \A f \in 1 .. n : Fits(pools[f], 27, 26 + Pools) /\ ~Holds(pools[f])
  BY <1>1, <1>4 DEF Fits, Holds
<1>6. Ordered(pools, 27, 26 + Pools)
  BY <1>1, <1>3, <1>4, <1>5 DEF Ordered
<1> QED
  BY <1>6 DEF pools

(* Which steps t_setup_vulkan() always takes, and in which order.           *)
Always ==
    {Create("instance", "vk_instance", {}), Do("phys_dev"), Do("choose_queue"), Do("features"),
     Create("device", "vk_device", {"instance"}), Create("queue", "free", {}),
     Do("get_queues"), Do("fill_cmd_pools"), Do("cmd_buffer"), Do("begin_cmd_buffer")}

(* All of t_setup_vulkan(): its steps are in the order of their ranks, and  *)
(* those that no condition guards do occur.                                 *)
LEMMA StepsOrdered ==
    ASSUME NEW t \in Tests
    PROVE  /\ Ordered(Steps(t), 1, 29 + Pools)
           /\ \A s \in Always : Occurs(s, Steps(t))
           /\ ~t.def.no_image => Occurs(OnDevice("color_image"), Steps(t))
           /\ ~t.def.no_image /\ t.def.depthstencil => Occurs(OnDevice("ds_image"), Steps(t))
           /\ \A f \in DOMAIN t.device.families : Occurs(OnDevice(CmdPoolOf[f]), Steps(t))
           /\ Steps(t)[Len(Steps(t))] = Do("begin_cmd_buffer")
<1>1. t \in Test /\ Pools \in Nat
  BY TestAssumption, NameAssumption DEF Pools
<1>2. /\ t.opt.bootstrap \in BOOLEAN /\ t.def.no_image \in BOOLEAN /\ t.def.ref_stencil \in BOOLEAN
      /\ t.device.debug_report \in BOOLEAN /\ t.def.depthstencil \in BOOLEAN
  BY <1>1 DEF Test
<1>3. DOMAIN t.device.families = 1 .. Len(t.device.families)
      /\ Len(t.device.families) \in 0 .. Pools
  <2>1. t.device.families \in Seq(Family)
    BY <1>1 DEF Test
  <2> QED
    BY <2>1, TestAssumption DEF Pools
<1> DEFINE ref == RefImages(t)
           inst == <<Create("instance_extension_props", "free", {}), Malloc("ext_names"),
                     Create("instance", "vk_instance", {})>>
           debug == When(t.device.debug_report,
                         <<Create("debug_callback", "debug_cb", {"instance"})>>)
           dev == <<Do("phys_dev"), Create("queue_family_props", "free", {}), Do("choose_queue"),
                    Create("device_extension_props", "free", {}),
                    Malloc("ext_names"), Malloc("qci"), Malloc("priorities"), Do("features"),
                    Create("device", "vk_device", {"instance"}), OnDevice("descriptor_pool")>>
           fb == Framebuffer(t)
           que == <<Create("queue", "free", {}), Create("queue_family", "free", {}),
                    Do("get_queues"), OnDevice("pipeline_cache"), Create("cmd_pool", "free", {})>>
           pools == [f \in DOMAIN t.device.families |-> OnDevice(CmdPoolOf[f])]
           end == <<Do("fill_cmd_pools"), Do("cmd_buffer"), Do("begin_cmd_buffer")>>
<1>4. Steps(t) = ref \o inst \o debug \o dev \o fb \o que \o pools \o end
  BY DEF Steps
<1>5. Ordered(ref, 1, 2)
  <2> DEFINE a == <<Create("ref_image", "cru_image", {})>>
             b == When(t.def.ref_stencil, <<Create("ref_stencil_image", "cru_image", {})>>)
  <2>1. Ordered(a, 1, 1) /\ Ordered(b, 2, 2)
    BY <1>2, PartsOfSetup, Conditional
  <2>2. ref = When(~t.opt.bootstrap /\ ~t.def.no_image, a \o b)
    BY DEF RefImages
  <2> HIDE DEF a, b
  <2>3. Ordered(a \o b, 1, 2)
    BY <2>1, Joins
  <2> DEFINE cond == ~t.opt.bootstrap /\ ~t.def.no_image
             ab == a \o b
  <2>4. cond \in BOOLEAN /\ Ordered(ab, 1, 2) /\ ref = When(cond, ab)
    BY <1>2, <2>2, <2>3
  <2> HIDE DEF cond, ab, ref
  <2> QED
    BY <2>4, Conditional
<1>6. /\ Ordered(fb, 13, 21)
      /\ ~t.def.no_image => Occurs(OnDevice("color_image"), fb)
      /\ ~t.def.no_image /\ t.def.depthstencil => Occurs(OnDevice("ds_image"), fb)
  <2> DEFINE a == <<OnDevice("color_image"), Memory("color_mem"),
                    OnDevice("color_image_view"), OnDevice("color_pass")>>
             b0 == <<OnDevice("ds_image"), Memory("ds_mem"),
                     OnDevice("depthstencil_image_view"), OnDevice("color_depth_pass")>>
             b == When(t.def.depthstencil, b0)
             c == <<OnDevice("framebuffer")>>
  <2>1. Ordered(a, 13, 16) /\ Ordered(b, 17, 20) /\ Ordered(c, 21, 21)
    BY <1>2, PartsOfSetup, Conditional
  <2>2. fb = When(~t.def.no_image, a \o b \o c)
    BY DEF Framebuffer
  <2>3. Occurs(OnDevice("color_image"), a)
    BY DEF Occurs
  <2>4. t.def.depthstencil => Occurs(OnDevice("ds_image"), b)
    BY DEF Occurs, When
  <2> HIDE DEF a, b, c
  <2> DEFINE ab == a \o b
             abc == ab \o c
  <2>5. Ordered(ab, 13, 20)
    BY <2>1, Joins
  <2>6. \A s : Occurs(s, a) \/ Occurs(s, b) => Occurs(s, ab)
    BY <2>1, OccursInPart
  <2> HIDE DEF ab
  <2>7. Ordered(abc, 13, 21)
    BY <2>1, <2>5, Joins
  <2>8. \A s : Occurs(s, ab) \/ Occurs(s, c) => Occurs(s, abc)
    BY <2>1, <2>5, OccursInPart
  <2>9. /\ ~t.def.no_image => Occurs(OnDevice("color_image"), abc)
        /\ ~t.def.no_image /\ t.def.depthstencil => Occurs(OnDevice("ds_image"), abc)
    BY <2>3, <2>4, <2>6, <2>8
  <2>10. fb = When(~t.def.no_image, abc)
    BY <2>2 DEF ab
  <2> DEFINE cond == ~t.def.no_image
  <2>11. cond \in BOOLEAN /\ fb = When(cond, abc)
    BY <1>2, <2>10
  <2> HIDE DEF abc, fb, cond
  <2>12. Ordered(fb, 13, 21) /\ (cond => fb = abc)
    BY <2>7, <2>11, Conditional
  <2> QED
    BY <2>9, <2>12 DEF cond
<1>7. /\ Ordered(inst, 3, 4) /\ Ordered(dev, 6, 12) /\ Ordered(que, 22, 26)
      /\ Ordered(end, 27 + Pools, 29 + Pools)
      /\ Ordered(debug, 5, 5)
  BY <1>2, PartsOfSetup, Conditional
<1>8. Ordered(pools, 27, 26 + Pools)
  BY <1>3, PoolSteps
<1>9. /\ Occurs(Create("instance", "vk_instance", {}), inst)
      /\ Occurs(Do("phys_dev"), dev) /\ Occurs(Do("choose_queue"), dev) /\ Occurs(Do("features"), dev)
      /\ Occurs(Create("device", "vk_device", {"instance"}), dev)
      /\ Occurs(Create("queue", "free", {}), que) /\ Occurs(Do("get_queues"), que)
      /\ Occurs(Do("fill_cmd_pools"), end) /\ Occurs(Do("cmd_buffer"), end)
      /\ Occurs(Do("begin_cmd_buffer"), end)
  <2>1. Len(inst) = 3 /\ Len(dev) = 10 /\ Len(que) = 5 /\ Len(end) = 3
    OBVIOUS
  <2> QED
    BY <2>1 DEF Occurs
<1>10. \A f \in DOMAIN t.device.families : Occurs(OnDevice(CmdPoolOf[f]), pools)
  BY <1>3 DEF Occurs
<1>11. Len(end) = 3 /\ end[3] = Do("begin_cmd_buffer")
  OBVIOUS
<1> HIDE DEF ref, inst, debug, dev, fb, que, pools, end
<1> DEFINE s1 == ref \o inst
           s2 == s1 \o debug
           s3 == s2 \o dev
           s4 == s3 \o fb
           s5 == s4 \o que
           s6 == s5 \o pools
           s7 == s6 \o end
<1>21. Ordered(s1, 1, 4)
  BY <1>5, <1>7, Joins
<1>41. \A s : Occurs(s, ref) \/ Occurs(s, inst) => Occurs(s, s1)
  BY <1>5, <1>7, OccursInPart
<1> HIDE DEF s1
<1>22. Ordered(s2, 1, 5)
  BY <1>21, <1>7, Joins
<1>42. \A s : Occurs(s, s1) \/ Occurs(s, debug) => Occurs(s, s2)
  BY <1>21, <1>7, OccursInPart
<1> HIDE DEF s2
<1>23. Ordered(s3, 1, 12)
  BY <1>22, <1>7, Joins
<1>43. \A s : Occurs(s, s2) \/ Occurs(s, dev) => Occurs(s, s3)
  BY <1>22, <1>7, OccursInPart
<1> HIDE DEF s3
<1>24. Ordered(s4, 1, 21)
  BY <1>23, <1>6, Joins
<1>44. \A s : Occurs(s, s3) \/ Occurs(s, fb) => Occurs(s, s4)
  BY <1>23, <1>6, OccursInPart
<1> HIDE DEF s4
<1>25. Ordered(s5, 1, 26)
  BY <1>24, <1>7, Joins
<1>45. \A s : Occurs(s, s4) \/ Occurs(s, que) => Occurs(s, s5)
  BY <1>24, <1>7, OccursInPart
<1> HIDE DEF s5
<1>26. Ordered(s6, 1, 26 + Pools)
  BY <1>25, <1>8, <1>1, Joins
<1>46. \A s : Occurs(s, s5) \/ Occurs(s, pools) => Occurs(s, s6)
  BY <1>25, <1>8, <1>1, OccursInPart
<1> HIDE DEF s6
<1>27. Ordered(s7, 1, 29 + Pools)
  BY <1>26, <1>7, <1>1, Joins
<1>47. \A s : Occurs(s, s6) \/ Occurs(s, end) => Occurs(s, s7)
  BY <1>26, <1>7, <1>1, OccursInPart
<1>28. s7[Len(s7)] = Do("begin_cmd_buffer")
  <2>1. s6 \in Seq(SetupStep) /\ end \in Seq(SetupStep)
    BY <1>26, <1>7 DEF Ordered
  <2>2. Len(s7) = Len(s6) + 3 /\ s7[Len(s6) + 3] = end[3]
    <3>1. Len(s6) \in Nat /\ Len(s7) = Len(s6) + Len(end)
      BY <2>1
    <3>2. \A i \in 1 .. Len(end) : s7[Len(s6) + i] = end[i]
      BY <2>1
    <3> HIDE DEF s7
    <3> QED
      BY <1>11, <3>1, <3>2
  <2> QED
    BY <2>2, <1>11
<1> HIDE DEF s7
<1>29. s7 = Steps(t)
  BY <1>4 DEF s1, s2, s3, s4, s5, s6, s7
<1>30. \A s \in Always : Occurs(s, s7)
  BY <1>9, <1>41, <1>42, <1>43, <1>44, <1>45, <1>46, <1>47 DEF Always
<1> QED
  BY <1>6, <1>10, <1>27, <1>28, <1>29, <1>30, <1>44, <1>45, <1>46, <1>47

-----------------------------------------------------------------------------
(* The inductive invariant.                                                 *)

St == Steps(test)
Past(s) == \E i \in 1 .. pc : St[i] = s
MadeBySetup == {St[i].object : i \in {j \in 1 .. pc : St[j].do = "create"}}

ObjectAt(st, th, h) == CommandAt(st[th], h).object

(* Two stacks and what is alive: each command stands for an object of its   *)
(* own, which lives, and what that was made from is further down the same   *)
(* stack, or on that of the thread that ran setup.                          *)
EachItsOwn(st) ==
    \A th1, th2 \in Thread : \A h1 \in Headers(st[th1]), h2 \in Headers(st[th2]) :
        ObjectAt(st, th1, h1) = ObjectAt(st, th2, h2) => th1 = th2 /\ h1 = h2
AllLive(st, lv) ==
    \A th \in Thread : \A h \in Headers(st[th]) : ObjectAt(st, th, h) \in DOMAIN lv
ParentsBelow(st, lv) ==
    \A th \in Thread : \A h \in Headers(st[th]) : \A p \in lv[ObjectAt(st, th, h)] :
        \/ \E g \in Headers(st[th]) : g < h /\ ObjectAt(st, th, g) = p
        \/ th = "user" /\ p \in OnStack(st["start"])
ParentsLive(lv) == \A o \in DOMAIN lv : lv[o] \subseteq DOMAIN lv

Stacked(st, lv) ==
    /\ st = [th \in Thread |-> st[th]] /\ \A th \in Thread : Coded(st[th])
    /\ EachItsOwn(st) /\ AllLive(st, lv) /\ ParentsBelow(st, lv) /\ ParentsLive(lv)

(* Every object that lives will be destroyed.                               *)
AllOnStacks(st, lv) == DOMAIN lv \subseteq OnStack(st["start"]) \cup OnStack(st["user"])

Basics ==
    /\ test \in Tests
    /\ phase \in {SETUP, MAIN, PRECLEANUP, CLEANUP, STOPPED}
    /\ result \in Result \cup {NoResult}
    /\ pc \in 0 .. Len(St)
    /\ running \subseteq Thread
    /\ cleanup_stacks \in {<<>>, <<"start">>, <<"user", "start">>}
    /\ scratch \subseteq {"ext_names", "qci", "priorities"}
    /\ t_queue \in {"idle", "busy", "lost"}

(* What each phase has and has not done yet.                                *)
InSetup ==
    phase = SETUP =>
        /\ pc < Len(St) /\ result = NoResult /\ t_queue # "busy"
        /\ running = {"start"} /\ cleanup_stacks = <<"start">>
        /\ DOMAIN live \subseteq MadeBySetup \cup {"cmd_buffer"}
        /\ "cmd_buffer" \in DOMAIN live => Past(Do("cmd_buffer"))
Unwinding == phase \in {CLEANUP, STOPPED}
BeforeUnwinding ==
    ~Unwinding =>
        /\ cleanup_stacks # <<>>
        /\ MadeBySetup \subseteq OnStack(stack["start"])
        /\ DOMAIN live \cap ActualObject = {}
SetupComplete ==
    phase = MAIN \/ (phase = PRECLEANUP /\ result = NoResult) => pc = Len(St)
ListedStacks ==
    /\ phase \notin {SETUP, MAIN} => running = {}
    /\ "user" \in running => cleanup_stacks = <<"user", "start">>
    /\ cleanup_stacks # <<"user", "start">> => Headers(stack["user"]) = {}
    /\ cleanup_stacks = <<>> => Headers(stack["start"]) = {}
    /\ phase = STOPPED => cleanup_stacks = <<>>
BusyQueue ==
    t_queue = "busy" =>
        phase = MAIN \/ (phase = PRECLEANUP /\ "queue" \in DOMAIN live)

(* The arrays hold what the steps that are past have put there.             *)
Arrays ==
    /\ Past(Do("choose_queue")) =>
          /\ chosen = QueueChoice(test.device.families, test.opt.queue_num)
          /\ ~QueueSkipped(test, chosen)
    /\ Past(Do("get_queues")) => queue = PerQueue(test.device.families)
    /\ Past(Do("fill_cmd_pools")) =>
          cmd_pool = [place \in DOMAIN PerQueue(test.device.families) |->
                        PerQueue(test.device.families)[place].family]

(* What t_setup_vulkan() has to free it frees two steps later at most.      *)
Scratched ==
    scratch # {} =>
        /\ pc < Len(St)
        /\ Holds(Step) \/ (phase = SETUP /\ Frees(Step))

IInv ==
    /\ Basics /\ Stacked(stack, live) /\ (~test.opt.no_cleanup => AllOnStacks(stack, live))
    /\ InSetup /\ BeforeUnwinding /\ SetupComplete /\ ListedStacks /\ BusyQueue
    /\ Arrays /\ Scratched

-----------------------------------------------------------------------------
(* Where setup is.                                                          *)

(* At each place of setup is one step; no object is made twice, and two     *)
(* steps are as far along as their ranks say.                               *)
LEMMA StepAt ==
    ASSUME test \in Tests
    PROVE  /\ St \in Seq(SetupStep) /\ Len(St) \in Nat /\ Len(St) > 0
           /\ \A i \in 1 .. Len(St) : St[i] \in SetupStep
           /\ \A i, j \in 1 .. Len(St) :
                 /\ St[i].do # "malloc" /\ St[i] = St[j] => i = j
                 /\ St[i].do = "create" /\ St[j].do = "create" /\ St[i].object = St[j].object => i = j
                 /\ St[i].do # "malloc" /\ St[j].do # "malloc" /\ Rank(St[i]) < Rank(St[j]) => i < j
           /\ \A i \in 1 .. Len(St) : St[i] = Do("begin_cmd_buffer") => i = Len(St)
           /\ \A i \in 1 .. Len(St) :
                 Holds(St[i]) => i + 1 \in 1 .. Len(St) /\ (Holds(St[i + 1]) \/ Frees(St[i + 1]))
<1>1. Ordered(St, 1, 29 + Pools) /\ Pools \in Nat
  BY StepsOrdered, NameAssumption DEF St, Pools
<1>2. /\ St \in Seq(SetupStep)
      /\ \A i \in 1 .. Len(St) : Fits(St[i], 1, 29 + Pools)
      /\ \A i, j \in 1 .. Len(St) :
            i < j /\ St[i].do # "malloc" /\ St[j].do # "malloc" => Rank(St[i]) < Rank(St[j])
      /\ \A i \in 1 .. Len(St) :
            Holds(St[i]) => i + 1 \in 1 .. Len(St) /\ (Holds(St[i + 1]) \/ Frees(St[i + 1]))
  BY <1>1 DEF Ordered
<1>3. St[Len(St)] = Do("begin_cmd_buffer")
  BY StepsOrdered DEF St
<1>4. Occurs(Do("phys_dev"), St)
  BY StepsOrdered DEF St, Always
<1> HIDE DEF St
<1>5. Len(St) \in Nat /\ Len(St) > 0
  BY <1>2, <1>4 DEF Occurs
<1>6. ASSUME NEW i \in 1 .. Len(St), St[i].do # "malloc"
      PROVE  Rank(St[i]) \in Int
  BY <1>2, <1>6 DEF Fits
<1>7. ASSUME NEW i \in 1 .. Len(St), NEW j \in 1 .. Len(St), St[i].do # "malloc", St[j].do # "malloc",
             Rank(St[i]) <= Rank(St[j])
      PROVE  i <= j
  <2>1. SUFFICES ASSUME j < i PROVE FALSE
    BY <1>5
  <2>2. Rank(St[j]) < Rank(St[i])
    BY <1>2, <1>7, <2>1
  <2> QED
    BY <1>6, <1>7, <2>2
<1>8. ASSUME NEW i \in 1 .. Len(St), NEW j \in 1 .. Len(St), St[i].do # "malloc", St[j].do # "malloc"
      PROVE  /\ Rank(St[i]) = Rank(St[j]) => i = j
             /\ Rank(St[i]) < Rank(St[j]) => i < j
  <2>1. Rank(St[i]) = Rank(St[j]) => i = j
    <3> HAVE Rank(St[i]) = Rank(St[j])
    <3>1. Rank(St[i]) <= Rank(St[j]) /\ Rank(St[j]) <= Rank(St[i])
      BY <1>6, <1>8
    <3>2. i <= j /\ j <= i
      BY <1>7, <1>8, <3>1
    <3> QED
      BY <3>2
  <2>2. Rank(St[i]) < Rank(St[j]) => i < j
    <3> HAVE Rank(St[i]) < Rank(St[j])
    <3>1. Rank(St[i]) <= Rank(St[j]) /\ Rank(St[i]) # Rank(St[j])
      BY <1>6, <1>8
    <3>2. i <= j /\ i # j
      BY <1>7, <1>8, <3>1
    <3> QED
      BY <3>2
  <2> QED
    BY <2>1, <2>2
<1>9. ASSUME NEW i \in 1 .. Len(St), NEW j \in 1 .. Len(St), St[i].do = "create", St[j].do = "create",
             St[i].object = St[j].object
      PROVE  i = j
  <2>1. Rank(St[i]) = Rank(St[j])
    BY <1>9 DEF Rank
  <2> QED
    BY <1>8, <1>9, <2>1
<1>10. ASSUME NEW i \in 1 .. Len(St), St[i] = Do("begin_cmd_buffer")
       PROVE  i = Len(St)
  <2>1. St[i].do = "begin_cmd_buffer" /\ St[Len(St)] = St[i] /\ Len(St) \in 1 .. Len(St)
    BY <1>3, <1>5, <1>10 DEF Do
  <2> QED
    BY <1>8, <2>1
<1> QED
  BY <1>2, <1>5, <1>8, <1>9, <1>10

(* A step that occurs and has a lower rank than the current one is past.    *)
LEMMA PastByRank ==
    ASSUME test \in Tests, pc \in 0 .. Len(St), NEW s, Occurs(s, St), s.do # "malloc",
           pc = Len(St) \/ (Step.do # "malloc" /\ Rank(s) < Rank(Step))
    PROVE  Past(s)
<1>1. PICK i \in 1 .. Len(St) : St[i] = s
  BY DEF Occurs
<1>2. Len(St) \in Nat
  BY StepAt
<1>3. CASE pc = Len(St)
  BY <1>1, <1>3 DEF Past
<1>4. CASE pc # Len(St) /\ Step.do # "malloc" /\ Rank(s) < Rank(Step)
  <2>1. pc + 1 \in 1 .. Len(St) /\ Step = St[pc + 1]
    BY <1>2, <1>4 DEF Step, St
  <2>2. i < pc + 1
    BY <1>1, <1>4, <2>1, StepAt
  <2>3. i \in 1 .. pc
    BY <1>2, <2>2
  <2> QED
    BY <1>1, <2>3 DEF Past
<1> QED
  BY <1>3, <1>4

(* What happens to the steps that are past when one is taken.               *)
LEMMA OneMore ==
    ASSUME test \in Tests, pc \in 0 .. Len(St), pc < Len(St), test' = test, pc' = pc + 1
    PROVE  /\ Step \in SetupStep /\ Step = St[pc + 1] /\ St' = St /\ pc' \in 0 .. Len(St)
           /\ \A s : Past(s)' <=> Past(s) \/ s = Step
           /\ MadeBySetup' = IF Step.do = "create" THEN MadeBySetup \cup {Step.object} ELSE MadeBySetup
           /\ Step.do # "malloc" => ~Past(Step)
           /\ Step.do = "create" => Step.object \notin MadeBySetup
           /\ Step # Do("begin_cmd_buffer") => pc' < Len(St)
           /\ Step = Do("begin_cmd_buffer") => pc' = Len(St)
           /\ Holds(Step) => pc' < Len(St) /\ (Holds(Step') \/ Frees(Step'))
<1>1. St' = St
  BY DEF St
<1>2. Len(St) \in Nat /\ pc + 1 \in 1 .. Len(St) /\ Step = St[pc + 1] /\ pc \in Nat
  BY StepAt DEF Step, St
<1>3. Step' = St[pc + 2]
  <2>1. Step' = St'[pc' + 1]
    BY DEF Step, St
  <2>2. pc' + 1 = pc + 2
    BY <1>2
  <2> QED
    BY <1>1, <2>1, <2>2
<1>4. Step \in SetupStep
  BY <1>2, StepAt
<1>5. \A s : Past(s)' <=> \E i \in 1 .. pc + 1 : St[i] = s
  BY <1>1 DEF Past
<1>6. 1 .. pc + 1 = (1 .. pc) \cup {pc + 1}
  BY <1>2
<1>7. \A s : Past(s)' <=> Past(s) \/ s = Step
  BY <1>2, <1>5, <1>6 DEF Past
<1>8. MadeBySetup' = {St[i].object : i \in {j \in 1 .. pc + 1 : St[j].do = "create"}}
  BY <1>1 DEF MadeBySetup
<1>9. MadeBySetup' = IF Step.do = "create" THEN MadeBySetup \cup {Step.object} ELSE MadeBySetup
  BY <1>2, <1>6, <1>8 DEF MadeBySetup
<1>10. \A i \in 1 .. pc : i \in 1 .. Len(St) /\ i # pc + 1
  BY <1>2
<1>11. Step.do # "malloc" => ~Past(Step)
  BY <1>2, <1>10, StepAt DEF Past
<1>12. Step.do = "create" => Step.object \notin MadeBySetup
  BY <1>2, <1>10, StepAt DEF MadeBySetup
<1>13. Step = Do("begin_cmd_buffer") => pc' = Len(St)
  BY <1>2, StepAt
<1>14. Step # Do("begin_cmd_buffer") => pc' < Len(St)
  <2>1. St[Len(St)] = Do("begin_cmd_buffer")
    BY StepsOrdered DEF St
  <2> QED
    BY <1>2, <2>1
<1>15. Holds(Step) => pc' < Len(St) /\ (Holds(Step') \/ Frees(Step'))
  <2> HAVE Holds(Step)
  <2>1. pc + 1 + 1 \in 1 .. Len(St) /\ (Holds(St[pc + 1 + 1]) \/ Frees(St[pc + 1 + 1]))
    BY <1>2, StepAt
  <2>2. pc + 1 + 1 = pc + 2 /\ pc' < Len(St)
    BY <1>2, <2>1
  <2> QED
    BY <1>3, <2>1, <2>2
<1> QED
  BY <1>1, <1>2, <1>4, <1>7, <1>9, <1>11, <1>12, <1>13, <1>14, <1>15

(* What a step is made from, an earlier one has made.                       *)
LEMMA NeedsMade ==
    ASSUME test \in Tests, pc \in 0 .. Len(St), pc < Len(St)
    PROVE  /\ Step.do = "create" => Step.needs \subseteq MadeBySetup
           /\ Step.do = "cmd_buffer" => "device" \in MadeBySetup
           /\ \A f \in DOMAIN test.device.families :
                 Step.do = "cmd_buffer" => CmdPoolOf[f] \in MadeBySetup
<1> DEFINE inst == Create("instance", "vk_instance", {})
           dev == Create("device", "vk_device", {"instance"})
<1>1. /\ inst.do = "create" /\ inst.object = "instance" /\ Rank(inst) = 4
      /\ dev.do = "create" /\ dev.object = "device" /\ Rank(dev) = 11
  BY DEF Create, Rank, Place, SetupObject
<1>2. Occurs(inst, St) /\ Occurs(dev, St)
  BY StepsOrdered DEF Always, St
<1> HIDE DEF inst, dev
<1>3. Step \in SetupStep /\ Step = St[pc + 1] /\ pc + 1 \in 1 .. Len(St)
  BY StepAt DEF Step, St
<1>4. Fits(Step, 1, 29 + Pools)
  BY <1>3, StepsOrdered DEF St, Ordered
<1>5. Past(inst) => "instance" \in MadeBySetup
  BY <1>1 DEF Past, MadeBySetup
<1>6. Past(dev) => "device" \in MadeBySetup
  BY <1>1 DEF Past, MadeBySetup
<1>7. Step.do = "create" => Step.needs \subseteq MadeBySetup
  <2> HAVE Step.do = "create"
  <2>1. Step.needs \in {{}, {"instance"}, {"device"}}
    BY <1>3 DEF SetupStep, Looks
  <2>2. "instance" \in Step.needs => "instance" \in MadeBySetup
    BY <1>1, <1>2, <1>4, <1>5, PastByRank DEF Fits
  <2>3. "device" \in Step.needs => "device" \in MadeBySetup
    BY <1>1, <1>2, <1>4, <1>6, PastByRank DEF Fits
  <2> QED
    BY <2>1, <2>2, <2>3
<1>8. Pools \in Nat /\ Len(test.device.families) \in 0 .. Pools
      /\ DOMAIN test.device.families = 1 .. Len(test.device.families)
  <2>1. test.device.families \in Seq(Family)
    BY TestAssumption DEF Test
  <2> QED
    BY <2>1, NameAssumption, TestAssumption DEF Pools
<1>9. Step.do = "cmd_buffer" => Rank(Step) = 28 + Pools
  BY DEF Rank
<1>10. Step.do = "cmd_buffer" => "device" \in MadeBySetup
  BY <1>1, <1>2, <1>6, <1>8, <1>9, PastByRank
<1>11. ASSUME NEW f \in DOMAIN test.device.families, Step.do = "cmd_buffer"
       PROVE  CmdPoolOf[f] \in MadeBySetup
  <2> DEFINE s == OnDevice(CmdPoolOf[f])
  <2>1. f \in 1 .. Pools /\ DOMAIN CmdPoolOf = 1 .. Pools
    BY <1>8, NameAssumption DEF Pools
  <2>2. s.do = "create" /\ s.object = CmdPoolOf[f]
    BY DEF OnDevice, Create
  <2>3. CmdPoolOf[f] \notin SetupObject /\ (CHOOSE g \in 1 .. Pools : CmdPoolOf[g] = CmdPoolOf[f]) = f
    BY <2>1, NameAssumption
  <2>4. Occurs(s, St)
    BY StepsOrdered DEF St
  <2> HIDE DEF s
  <2>5. Rank(s) = 26 + f
    BY <2>2, <2>3 DEF Rank
  <2>6. Past(s)
    BY <1>8, <1>9, <1>11, <2>1, <2>2, <2>4, <2>5, PastByRank
  <2> QED
    BY <2>2, <2>6 DEF Past, MadeBySetup
<1> QED
  BY <1>7, <1>10, <1>11

(* What all of setup has made.                                              *)
LEMMA SetupMade ==
    ASSUME test \in Tests, pc = Len(St)
    PROVE  /\ {"device", "queue"} \subseteq MadeBySetup
           /\ ~test.def.no_image => "color_image" \in MadeBySetup
           /\ ~test.def.no_image /\ test.def.depthstencil => "ds_image" \in MadeBySetup
           /\ Past(Do("choose_queue")) /\ Past(Do("get_queues")) /\ Past(Do("fill_cmd_pools"))
<1>1. \A s : Occurs(s, St) => Past(s)
  BY DEF Occurs, Past
<1>2. \A s \in Always : Past(s)
  BY <1>1, StepsOrdered DEF St
<1>3. \A s : Past(s) /\ s.do = "create" => s.object \in MadeBySetup
  BY DEF Past, MadeBySetup
<1>4. {"device", "queue"} \subseteq MadeBySetup
  BY <1>2, <1>3 DEF Always, Create
<1>5. ~test.def.no_image => "color_image" \in MadeBySetup
  BY <1>1, <1>3, StepsOrdered DEF St, OnDevice, Create
<1>6. ~test.def.no_image /\ test.def.depthstencil => "ds_image" \in MadeBySetup
  BY <1>1, <1>3, StepsOrdered DEF St, OnDevice, Create
<1> QED
  BY <1>2, <1>4, <1>5, <1>6 DEF Always

-----------------------------------------------------------------------------
(* The stacks and what lives.                                               *)

(* A new object, made from what is on the same stack or on that of the      *)
(* thread that ran setup.                                                   *)
Adding(st, lv, th, s, x, l) ==
    /\ Stacked(st, lv) /\ th \in Thread
    /\ Command(s.kind, s.object) \in Cmd /\ s.object \notin DOMAIN lv
    /\ s.needs \subseteq OnStack(st["start"]) \cup OnStack(st[th])
    /\ x = [st EXCEPT ![th] = Pushed(@, s)]
    /\ l = Made(lv, s)
Added(st, lv, th, s, x, l) ==
    /\ Stacked(x, l)
    /\ Adds(st[th], x[th], Command(s.kind, s.object))
    /\ DOMAIN l = DOMAIN lv \cup {s.object}
    /\ OnStack(x[th]) = OnStack(st[th]) \cup {s.object}
    /\ \A t2 \in Thread : t2 # th => x[t2] = st[t2]
    /\ AllOnStacks(st, lv) => AllOnStacks(x, l)

(* A push of a new object, made from what is on these stacks, keeps all     *)
(* that the invariant says of stacks and objects.                           *)
LEMMA PushKeeps ==
    ASSUME NEW st, NEW lv, NEW th, NEW s, NEW x, NEW l, Adding(st, lv, th, s, x, l)
    PROVE  Added(st, lv, th, s, x, l)
<1>0. /\ Stacked(st, lv) /\ th \in Thread
      /\ Command(s.kind, s.object) \in Cmd /\ s.object \notin DOMAIN lv
      /\ s.needs \subseteq OnStack(st["start"]) \cup OnStack(st[th])
      /\ x = [st EXCEPT ![th] = Pushed(@, s)]
      /\ l = Made(lv, s)
  BY DEF Adding
<1> DEFINE v == st[th]
           y == x[th]
           c == Command(s.kind, s.object)
<1>1. /\ st = [t2 \in Thread |-> st[t2]] /\ \A t2 \in Thread : Coded(st[t2])
      /\ EachItsOwn(st) /\ AllLive(st, lv) /\ ParentsBelow(st, lv) /\ ParentsLive(lv)
  BY <1>0 DEF Stacked
<1>2. x = [t2 \in Thread |-> x[t2]] /\ y = PushCommand(v, c) /\ \A t2 \in Thread : t2 # th => x[t2] = st[t2]
  BY <1>0, <1>1 DEF Pushed
<1>3. c.object = s.object /\ c \in Cmd
  BY <1>0 DEF Command
<1> HIDE DEF c
<1>4. Adds(v, y, c)
  BY <1>0, <1>1, <1>2, <1>3, PushAdds
<1>5. /\ Coded(y) /\ y.len \in Nat /\ y.len > v.len /\ Headers(y) = Headers(v) \cup {y.len}
      /\ \A h \in Headers(v) : ObjectAt(x, th, h) = ObjectAt(st, th, h)
      /\ ObjectAt(x, th, y.len) = s.object
  BY <1>3, <1>4 DEF Adds, ObjectAt
<1>6. \A h \in Headers(v) : h \in Nat /\ h <= v.len /\ v.len \in Nat
  BY <1>0, <1>1, HeaderPlaces
<1>7. OnStack(y) = OnStack(v) \cup {s.object}
  BY <1>5 DEF OnStack, ObjectAt
<1>8. DOMAIN l = DOMAIN lv \cup {s.object} /\ l[s.object] = s.needs
      /\ \A o \in DOMAIN lv : l[o] = lv[o]
  BY <1>0 DEF Made
<1>9. ASSUME NEW t2 \in Thread, NEW h \in Headers(x[t2])
      PROVE  \/ t2 = th /\ h = y.len
             \/ h \in Headers(st[t2]) /\ ObjectAt(x, t2, h) = ObjectAt(st, t2, h)
  BY <1>2, <1>5, <1>9 DEF ObjectAt
<1>10. \A t2 \in Thread : \A h \in Headers(st[t2]) : ObjectAt(st, t2, h) \in DOMAIN lv
  BY <1>1 DEF AllLive
<1>11. \A t2 \in Thread : \A h \in Headers(st[t2]) : ObjectAt(st, t2, h) # s.object
  BY <1>0, <1>10
<1>12. AllLive(x, l)
  BY <1>5, <1>8, <1>9, <1>10 DEF AllLive
<1>13. EachItsOwn(x)
  <2> SUFFICES ASSUME NEW t1 \in Thread, NEW t2 \in Thread, NEW h1 \in Headers(x[t1]),
                      NEW h2 \in Headers(x[t2]), ObjectAt(x, t1, h1) = ObjectAt(x, t2, h2)
               PROVE  t1 = t2 /\ h1 = h2
    BY DEF EachItsOwn
  <2>1. CASE h1 \in Headers(st[t1]) /\ ObjectAt(x, t1, h1) = ObjectAt(st, t1, h1)
             /\ h2 \in Headers(st[t2]) /\ ObjectAt(x, t2, h2) = ObjectAt(st, t2, h2)
    <3>1. EachItsOwn(st) /\ ObjectAt(st, t1, h1) = ObjectAt(st, t2, h2)
      BY <1>1, <2>1
    <3> QED
      BY <2>1, <3>1 DEF EachItsOwn
  <2>2. CASE t1 = th /\ h1 = y.len /\ t2 = th /\ h2 = y.len
    BY <2>2
  <2>3. CASE t1 = th /\ h1 = y.len
             /\ h2 \in Headers(st[t2]) /\ ObjectAt(x, t2, h2) = ObjectAt(st, t2, h2)
    BY <1>5, <1>11, <2>3
  <2>4. CASE t2 = th /\ h2 = y.len
             /\ h1 \in Headers(st[t1]) /\ ObjectAt(x, t1, h1) = ObjectAt(st, t1, h1)
    BY <1>5, <1>11, <2>4
  <2>5. /\ \/ t1 = th /\ h1 = y.len
           \/ h1 \in Headers(st[t1]) /\ ObjectAt(x, t1, h1) = ObjectAt(st, t1, h1)
        /\ \/ t2 = th /\ h2 = y.len
           \/ h2 \in Headers(st[t2]) /\ ObjectAt(x, t2, h2) = ObjectAt(st, t2, h2)
    BY <1>9
  <2> HIDE DEF v, y
  <2> QED
    BY <2>1, <2>2, <2>3, <2>4, <2>5
<1>14. \A t2 \in Thread : OnStack(st[t2]) \subseteq OnStack(x[t2])
  BY <1>2, <1>7
<1>15. ParentsBelow(x, l)
  <2> SUFFICES ASSUME NEW t2 \in Thread, NEW h \in Headers(x[t2]), NEW p \in l[ObjectAt(x, t2, h)]
               PROVE  \/ \E g \in Headers(x[t2]) : g < h /\ ObjectAt(x, t2, g) = p
                      \/ t2 = "user" /\ p \in OnStack(x["start"])
    BY DEF ParentsBelow
  <2>1. CASE t2 = th /\ h = y.len
    <3>1. p \in OnStack(st["start"]) \/ p \in OnStack(v)
      BY <1>0, <1>5, <1>8, <2>1
    <3>2. CASE p \in OnStack(v)
      <4>1. PICK g \in Headers(v) : ObjectAt(st, th, g) = p
        BY <3>2 DEF OnStack, ObjectAt
      <4>2. g \in Headers(x[t2]) /\ ObjectAt(x, t2, g) = p /\ g < h
        <5>1. g \in Headers(y) /\ ObjectAt(x, th, g) = p
          BY <1>5, <4>1
        <5>2. g \in Nat /\ g <= v.len /\ v.len \in Nat /\ y.len \in Nat /\ y.len > v.len
          BY <1>5, <1>6, <4>1
        <5>3. g < y.len
          BY <5>2
        <5> QED
          BY <2>1, <5>1, <5>3
      <4> QED
        BY <4>2
    <3>3. CASE p \notin OnStack(v) /\ p \in OnStack(st["start"])
      BY <1>14, <2>1, <3>3 DEF Thread
    <3> QED
      BY <3>1, <3>2, <3>3
  <2>2. CASE h \in Headers(st[t2]) /\ ObjectAt(x, t2, h) = ObjectAt(st, t2, h)
    <3>1. p \in lv[ObjectAt(st, t2, h)]
      BY <1>8, <1>10, <2>2
    <3>2. \/ \E g \in Headers(st[t2]) : g < h /\ ObjectAt(st, t2, g) = p
          \/ t2 = "user" /\ p \in OnStack(st["start"])
      BY <1>1, <2>2, <3>1 DEF ParentsBelow
    <3>3. CASE \E g \in Headers(st[t2]) : g < h /\ ObjectAt(st, t2, g) = p
      <4>1. PICK g \in Headers(st[t2]) : g < h /\ ObjectAt(st, t2, g) = p
        BY <3>3
      <4>2. g \in Headers(x[t2]) /\ ObjectAt(x, t2, g) = p
        BY <1>2, <1>5, <4>1 DEF ObjectAt
      <4> QED
        BY <4>1, <4>2
    <3>4. CASE t2 = "user" /\ p \in OnStack(st["start"])
      BY <1>14, <3>4 DEF Thread
    <3> QED
      BY <3>2, <3>3, <3>4
  <2> QED
    BY <1>9, <2>1, <2>2
<1>16. \A t2 \in Thread : OnStack(st[t2]) \subseteq DOMAIN lv
  BY <1>10 DEF OnStack, ObjectAt
<1>17. ParentsLive(l)
  BY <1>0, <1>1, <1>8, <1>16 DEF ParentsLive, Thread
<1>18. Stacked(x, l)
  <2>1. \A t2 \in Thread : Coded(x[t2])
    BY <1>1, <1>2, <1>5
  <2> QED
    BY <1>2, <1>12, <1>13, <1>15, <1>17, <2>1 DEF Stacked
<1>19. AllOnStacks(st, lv) => AllOnStacks(x, l)
  BY <1>0, <1>7, <1>8, <1>14 DEF AllOnStacks, Thread
<1> QED
  BY <1>2, <1>4, <1>7, <1>8, <1>18, <1>19 DEF Added, c

(* Destroying an object that is on no stack leaves the others' parents      *)
(* where they are.                                                          *)
LEMMA SameParents ==
    ASSUME NEW x, NEW lv, NEW l, ParentsBelow(x, lv), AllLive(x, l), \A o \in DOMAIN l : l[o] = lv[o]
    PROVE  ParentsBelow(x, l)
<1>1. \A t2 \in Thread : \A h \in Headers(x[t2]) : l[ObjectAt(x, t2, h)] = lv[ObjectAt(x, t2, h)]
  BY DEF AllLive
<1> QED
  BY <1>1 DEF ParentsBelow

(* What an object on a stack was made from is on a stack too.               *)
LEMMA ParentOnStack ==
    ASSUME NEW x, NEW lv, ParentsBelow(x, lv), NEW t2 \in Thread, NEW o \in OnStack(x[t2]), NEW p \in lv[o]
    PROVE  \E t3 \in Thread : p \in OnStack(x[t3])
<1>1. PICK h \in Headers(x[t2]) : ObjectAt(x, t2, h) = o
  BY DEF OnStack, ObjectAt
<1>2. p \in lv[ObjectAt(x, t2, h)]
  BY <1>1
<1>3. \/ \E g \in Headers(x[t2]) : g < h /\ ObjectAt(x, t2, g) = p
      \/ t2 = "user" /\ p \in OnStack(x["start"])
  BY <1>1, <1>2 DEF ParentsBelow
<1> QED
  BY <1>3 DEF OnStack, ObjectAt, Thread

(* Popping, be it that the object is destroyed or not; the thread that ran  *)
(* setup comes last.                                                        *)
Taking(st, lv, th, x) ==
    /\ Stacked(st, lv) /\ th \in Thread /\ st[th].len > 0
    /\ th = "start" => Headers(st["user"]) = {}
    /\ x = [st EXCEPT ![th] = PopCommand(@)]
Destroyed(st, lv, th, l) ==
    AllOnStacks(st, lv) /\ l = Restrict(lv, DOMAIN lv \ {PoppedObject(st[th])})
Taken(st, lv, th, x) ==
    /\ Stacked(x, lv)
    /\ Removes(st[th], x[th])
    /\ \A t2 \in Thread : t2 # th => x[t2] = st[t2]
    /\ \A t2 \in Thread : Headers(x[t2]) \subseteq Headers(st[t2])
    /\ \A l : Destroyed(st, lv, th, l) =>
                 Stacked(x, l) /\ AllOnStacks(x, l) /\ DOMAIN l \subseteq DOMAIN lv

(* So does a pop, with or without the object's destruction.                 *)
LEMMA PopKeeps ==
    ASSUME NEW st, NEW lv, NEW th, NEW x, Taking(st, lv, th, x)
    PROVE  Taken(st, lv, th, x)
<1>0. /\ Stacked(st, lv) /\ th \in Thread /\ st[th].len > 0
      /\ th = "start" => Headers(st["user"]) = {}
      /\ x = [st EXCEPT ![th] = PopCommand(@)]
  BY DEF Taking
<1> DEFINE v == st[th]
           y == x[th]
           top == PoppedObject(v)
<1>1. /\ st = [t2 \in Thread |-> st[t2]] /\ \A t2 \in Thread : Coded(st[t2])
      /\ EachItsOwn(st) /\ AllLive(st, lv) /\ ParentsBelow(st, lv) /\ ParentsLive(lv)
  BY <1>0 DEF Stacked
<1>2. x = [t2 \in Thread |-> x[t2]] /\ y = PopCommand(v) /\ \A t2 \in Thread : t2 # th => x[t2] = st[t2]
  BY <1>0, <1>1
<1>3. Removes(v, y)
  BY <1>0, <1>1, <1>2, PopRemoves
<1>4. /\ Coded(y) /\ v.len \in Headers(v) /\ Headers(y) = Headers(v) \ {v.len}
      /\ \A h \in Headers(y) : ObjectAt(x, th, h) = ObjectAt(st, th, h)
      /\ top = ObjectAt(st, th, v.len)
  BY <1>3 DEF Removes, ObjectAt
<1>5. \A h \in Headers(v) : h \in Nat /\ h <= v.len /\ v.len \in Nat
  BY <1>0, <1>1, HeaderPlaces
<1>6. \A t2 \in Thread : Coded(x[t2])
  BY <1>1, <1>2, <1>4
<1>7. ASSUME NEW t2 \in Thread, NEW h \in Headers(x[t2])
      PROVE  /\ h \in Headers(st[t2]) /\ ObjectAt(x, t2, h) = ObjectAt(st, t2, h)
             /\ t2 = th => h # v.len
  <2>1. CASE t2 = th
    BY <1>4, <1>7, <2>1
  <2>2. CASE t2 # th
    BY <1>2, <1>7, <2>2 DEF ObjectAt
  <2> QED
    BY <2>1, <2>2
<1>8. \A t2 \in Thread : Headers(x[t2]) \subseteq Headers(st[t2])
  BY <1>7
<1>9. EachItsOwn(x)
  BY <1>1, <1>7 DEF EachItsOwn
<1>10. ASSUME NEW t2 \in Thread, NEW h \in Headers(x[t2])
       PROVE  ObjectAt(x, t2, h) # top
  BY <1>0, <1>1, <1>4, <1>7 DEF EachItsOwn
<1>11. ASSUME NEW t2 \in Thread, NEW h \in Headers(x[t2]), NEW p \in lv[ObjectAt(x, t2, h)]
       PROVE  \/ \E g \in Headers(x[t2]) : g < h /\ ObjectAt(x, t2, g) = p
              \/ t2 = "user" /\ p \in OnStack(x["start"])
  <2>1. h \in Headers(st[t2]) /\ p \in lv[ObjectAt(st, t2, h)]
    BY <1>7
  <2>2. \/ \E g \in Headers(st[t2]) : g < h /\ ObjectAt(st, t2, g) = p
        \/ t2 = "user" /\ p \in OnStack(st["start"])
    BY <1>1, <2>1 DEF ParentsBelow
  <2>3. CASE \E g \in Headers(st[t2]) : g < h /\ ObjectAt(st, t2, g) = p
    <3>1. PICK g \in Headers(st[t2]) : g < h /\ ObjectAt(st, t2, g) = p
      BY <2>3
    <3>2. CASE t2 = th
      <4>1. g \in Headers(v) /\ h \in Headers(v)
        BY <2>1, <3>1, <3>2
      <4>2. g # v.len
        BY <1>5, <3>1, <4>1
      <4>3. g \in Headers(y)
        BY <1>4, <4>1, <4>2
      <4> QED
        BY <1>7, <3>1, <3>2, <4>3
    <3>3. CASE t2 # th
      <4>1. g \in Headers(x[t2])
        BY <1>2, <3>1, <3>3
      <4> QED
        BY <1>7, <3>1, <4>1
    <3> QED
      BY <3>2, <3>3
  <2>4. CASE t2 = "user" /\ p \in OnStack(st["start"])
    <3>1. th # "start"
      BY <1>0, <2>1, <2>4
    <3> QED
      BY <1>2, <2>4, <3>1 DEF Thread
  <2> QED
    BY <2>2, <2>3, <2>4
<1>12. ParentsBelow(x, lv)
  BY <1>11 DEF ParentsBelow
<1>13. Stacked(x, lv)
  <2>1. AllLive(x, lv)
    BY <1>1, <1>7 DEF AllLive
  <2> QED
    BY <1>1, <1>2, <1>6, <1>9, <1>12, <2>1 DEF Stacked
<1>14. ASSUME NEW l, AllOnStacks(st, lv), l = Restrict(lv, DOMAIN lv \ {top})
       PROVE  Stacked(x, l) /\ AllOnStacks(x, l) /\ DOMAIN l \subseteq DOMAIN lv
  <2>1. DOMAIN l = DOMAIN lv \ {top} /\ \A o \in DOMAIN l : l[o] = lv[o]
    BY <1>14 DEF Restrict
  <2>2. AllLive(x, l)
    BY <1>1, <1>7, <1>10, <2>1 DEF AllLive
  <2>3. ParentsBelow(x, l)
    BY <1>12, <2>1, <2>2, SameParents
  <2>4. AllOnStacks(x, l)
    <3> SUFFICES ASSUME NEW o \in DOMAIN l
                 PROVE  o \in OnStack(x["start"]) \cup OnStack(x["user"])
      BY DEF AllOnStacks
    <3>1. PICK t2 \in Thread : o \in OnStack(st[t2])
      BY <1>14, <2>1 DEF AllOnStacks, Thread
    <3>2. PICK h \in Headers(st[t2]) : ObjectAt(st, t2, h) = o
      BY <3>1 DEF OnStack, ObjectAt
    <3>3. h \in Headers(x[t2])
      BY <1>2, <1>4, <2>1, <3>2
    <3>4. o \in OnStack(x[t2])
      BY <1>7, <3>2, <3>3 DEF OnStack, ObjectAt
    <3> QED
      BY <3>4 DEF Thread
  <2>5. ParentsLive(l)
    <3> SUFFICES ASSUME NEW o \in DOMAIN l, NEW p \in l[o] PROVE p \in DOMAIN l
      BY DEF ParentsLive
    <3>1. PICK t2 \in Thread : o \in OnStack(x[t2])
      BY <2>4 DEF AllOnStacks, Thread
    <3>2. p \in lv[o]
      BY <2>1
    <3>3. PICK t3 \in Thread : p \in OnStack(x[t3])
      BY <1>12, <3>1, <3>2, ParentOnStack
    <3> QED
      BY <2>2, <3>3 DEF AllLive, OnStack, ObjectAt
  <2> QED
    BY <1>2, <1>6, <1>9, <2>1, <2>2, <2>3, <2>4, <2>5 DEF Stacked
<1> QED
  BY <1>2, <1>3, <1>8, <1>13, <1>14 DEF Taken, Destroyed

-----------------------------------------------------------------------------
(* The numbers of the queues.                                               *)

(* What a queue is.                                                         *)
LEMMA QueueIs ==
    ASSUME NEW families \in Seq(Family)
    PROVE  /\ DOMAIN families = 1 .. Len(families) /\ Len(families) \in Nat
           /\ \A f \in DOMAIN families : f \in Nat /\ f > 0 /\ families[f].count \in Nat
                                         /\ families[f].count > 0
           /\ \A q : q \in Queues(families) <=>
                 \E f \in DOMAIN families : \E j \in 0 .. families[f].count - 1 :
                    q = [family |-> f, in_family |-> j]
<1>1. DOMAIN families = 1 .. Len(families) /\ Len(families) \in Nat
  OBVIOUS
<1>2. \A f \in DOMAIN families : families[f] \in Family
  OBVIOUS
<1>3. \A f \in DOMAIN families : families[f].count \in Nat /\ families[f].count > 0
  BY <1>2 DEF Family
<1>4. \A q : q \in Queues(families) <=>
         \E f \in DOMAIN families : q \in {[family |-> f, in_family |-> j] : j \in 0 .. families[f].count - 1}
  BY DEF Queues
<1> QED
  BY <1>1, <1>3, <1>4

(* The queues of one family.                                                *)
OfFamily(families, f) == {q \in Queues(families) : q.family = f}

(* A family has as many queues as its count says.                           *)
LEMMA FamilySize ==
    ASSUME NEW families \in Seq(Family), NEW f \in DOMAIN families
    PROVE  /\ IsFiniteSet(OfFamily(families, f))
           /\ Cardinality(OfFamily(families, f)) = families[f].count
<1> DEFINE n == families[f].count
           S == OfFamily(families, f)
           place == [i \in 1 .. n |-> [family |-> f, in_family |-> i - 1]]
<1>1. n \in Nat
  BY QueueIs
<1>2. \A q : q \in S <=> \E j \in 0 .. n - 1 : q = [family |-> f, in_family |-> j]
  BY QueueIs DEF OfFamily
<1> HIDE DEF n, S
<1>3. \A i \in 1 .. n : i - 1 \in 0 .. n - 1
  BY <1>1
<1>4. place \in [1 .. n -> S]
  BY <1>2, <1>3
<1>5. \A i, j \in 1 .. n : place[i] = place[j] => i = j
  <2> SUFFICES ASSUME NEW i \in 1 .. n, NEW j \in 1 .. n, place[i] = place[j] PROVE i = j
    OBVIOUS
  <2>1. place[i].in_family = i - 1 /\ place[j].in_family = j - 1
    OBVIOUS
  <2>2. i - 1 = j - 1
    BY <2>1
  <2> QED
    BY <1>1, <2>2
<1>6. \A q \in S : \E i \in 1 .. n : place[i] = q
  <2> SUFFICES ASSUME NEW q \in S PROVE \E i \in 1 .. n : place[i] = q
    OBVIOUS
  <2>1. PICK j \in 0 .. n - 1 : q = [family |-> f, in_family |-> j]
    BY <1>2
  <2>2. j + 1 \in 1 .. n /\ (j + 1) - 1 = j
    BY <1>1
  <2>3. place[j + 1] = [family |-> f, in_family |-> (j + 1) - 1]
    BY <2>2
  <2> QED
    BY <2>1, <2>2, <2>3
<1> HIDE DEF place
<1>7. place \in Bijection(1 .. n, S)
  BY <1>4, <1>5, <1>6, Fun_IsBij
<1>8. ExistsBijection(1 .. n, S)
  BY <1>7 DEF ExistsBijection
<1>9. IsFiniteSet(1 .. n) /\ Cardinality(1 .. n) = n
  BY <1>1, FS_Interval
<1>10. IsFiniteSet(S) /\ Cardinality(S) = Cardinality(1 .. n)
  BY <1>8, <1>9, FS_Bijection
<1> QED
  BY <1>9, <1>10 DEF n, S

(* A device has finitely many queues, being the union of finitely many      *)
(* families.                                                                *)
LEMMA QueuesFinite ==
    ASSUME NEW families \in Seq(Family)
    PROVE  IsFiniteSet(Queues(families))
<1> DEFINE n == Len(families)
           parts == {OfFamily(families, f) : f \in 1 .. n}
           part == [f \in 1 .. n |-> OfFamily(families, f)]
<1>1. n \in Nat /\ DOMAIN families = 1 .. n
  OBVIOUS
<1>2. part \in Surjection(1 .. n, parts)
  BY Fun_IsSurj
<1>3. IsFiniteSet(1 .. n)
  BY <1>1, FS_Interval
<1>4. IsFiniteSet(parts)
  BY <1>2, <1>3, FS_Surjection
<1>5. \A S \in parts : IsFiniteSet(S)
  BY <1>1, FamilySize
<1>6. IsFiniteSet(UNION parts)
  BY <1>4, <1>5, FS_UNION
<1>7. Queues(families) = UNION parts
  <2>1. \A q \in Queues(families) : q.family \in 1 .. n /\ q \in OfFamily(families, q.family)
    BY <1>1, QueueIs DEF OfFamily
  <2> QED
    BY <2>1 DEF OfFamily
<1> QED
  BY <1>6, <1>7

(* In front of the queues of one family come those of the families before.  *)
LEMMA NextFamily ==
    ASSUME NEW families \in Seq(Family)
    PROVE  /\ \A f \in Nat : QueuesBefore(families, f) \in Nat
           /\ \A f \in DOMAIN families :
                 QueuesBefore(families, f + 1) = QueuesBefore(families, f) + families[f].count
           /\ \A f, g \in Nat : f <= g => QueuesBefore(families, f) <= QueuesBefore(families, g)
           /\ \A f \in Nat : QueuesBefore(families, f) <= Cardinality(Queues(families))
           /\ Cardinality(Queues(families)) \in Nat
<1> DEFINE all == Queues(families)
           Ahead(f) == {q \in Queues(families) : q.family < f}
<1>1. IsFiniteSet(all) /\ Cardinality(all) \in Nat
  BY QueuesFinite, FS_CardinalityType
<1>2. \A f \in Nat : Ahead(f) \in SUBSET all
  OBVIOUS
<1>3. \A f \in Nat : IsFiniteSet(Ahead(f)) /\ Cardinality(Ahead(f)) <= Cardinality(all)
  BY <1>1, <1>2, FS_Subset
<1>4. \A f \in Nat : Cardinality(Ahead(f)) \in Nat
  BY <1>3, FS_CardinalityType
<1>5. \A f \in Nat : QueuesBefore(families, f) = Cardinality(Ahead(f))
  BY DEF QueuesBefore
<1>6. \A q \in all : q.family \in Nat
  BY QueueIs
<1>7. ASSUME NEW f \in Nat, NEW g \in Nat, f <= g
      PROVE  Cardinality(Ahead(f)) <= Cardinality(Ahead(g))
  <2>1. Ahead(f) \in SUBSET Ahead(g)
    BY <1>6, <1>7
  <2> HIDE DEF Ahead
  <2> QED
    BY <2>1, <1>3, FS_Subset
<1>8. ASSUME NEW f \in DOMAIN families
      PROVE  Cardinality(Ahead(f + 1)) = Cardinality(Ahead(f)) + families[f].count
  <2>1. f \in Nat /\ f + 1 \in Nat /\ families[f].count \in Nat
    BY QueueIs
  <2> DEFINE here == OfFamily(families, f)
  <2>2. Ahead(f + 1) = Ahead(f) \cup here /\ Ahead(f) \cap here = {}
    BY <1>6, <2>1 DEF OfFamily
  <2>3. IsFiniteSet(here) /\ Cardinality(here) = families[f].count
    BY FamilySize
  <2>4. IsFiniteSet(Ahead(f)) /\ Cardinality(Ahead(f)) \in Nat
    BY <1>3, <1>4, <2>1
  <2> HIDE DEF Ahead, here
  <2>5. Cardinality(Ahead(f + 1)) = Cardinality(Ahead(f)) + Cardinality(here) - Cardinality({})
    BY <2>2, <2>3, <2>4, FS_Union
  <2> QED
    BY <2>1, <2>3, <2>4, <2>5, FS_EmptySet
<1> HIDE DEF all, Ahead
<1>9. \A f \in DOMAIN families : f \in Nat /\ f + 1 \in Nat
  BY QueueIs
<1> QED
  BY <1>1, <1>3, <1>4, <1>5, <1>7, <1>8, <1>9 DEF all

(* The families' shares of the numbers do not overlap.                      *)
LEMMA OneFamily ==
    ASSUME NEW families \in Seq(Family), NEW f \in DOMAIN families, NEW g \in DOMAIN families,
           NEW num \in Int,
           num \in QueuesBefore(families, f) .. QueuesBefore(families, f + 1) - 1,
           num \in QueuesBefore(families, g) .. QueuesBefore(families, g + 1) - 1
    PROVE  f = g
<1>1. f \in Nat /\ g \in Nat /\ f + 1 \in Nat /\ g + 1 \in Nat
  BY QueueIs
<1>2. /\ QueuesBefore(families, f) \in Nat /\ QueuesBefore(families, f + 1) \in Nat
      /\ QueuesBefore(families, g) \in Nat /\ QueuesBefore(families, g + 1) \in Nat
  BY <1>1, NextFamily
<1>3. f + 1 <= g => QueuesBefore(families, f + 1) <= QueuesBefore(families, g)
  BY <1>1, NextFamily
<1>4. g + 1 <= f => QueuesBefore(families, g + 1) <= QueuesBefore(families, f)
  BY <1>1, NextFamily
<1> DEFINE a == QueuesBefore(families, f)
           a1 == QueuesBefore(families, f + 1)
           b == QueuesBefore(families, g)
           b1 == QueuesBefore(families, g + 1)
<1>5. a <= num /\ num < a1 /\ b <= num /\ num < b1
  BY <1>2
<1> HIDE DEF a, a1, b, b1
<1>6. ~(f + 1 <= g) /\ ~(g + 1 <= f)
  BY <1>2, <1>3, <1>4, <1>5 DEF a, a1, b, b1
<1> QED
  BY <1>1, <1>6

(* The loop over the families finds the one queue with a number.            *)
LEMMA ChoiceIs ==
    ASSUME NEW families \in Seq(Family), NEW num \in Nat, NEW f \in DOMAIN families,
           num \in QueuesBefore(families, f) .. QueuesBefore(families, f + 1) - 1
    PROVE  QueueChoice(families, num) = [family |-> f, in_family |-> num - QueuesBefore(families, f)]
<1> DEFINE fits == {g \in DOMAIN families :
                      num \in QueuesBefore(families, g) .. QueuesBefore(families, g + 1) - 1}
<1>1. fits = {f}
  BY OneFamily
<1>2. f \in Nat
  BY QueueIs
<1>3. Max(fits) = f
  BY <1>1, <1>2 DEF Max
<1> QED
  BY <1>1, <1>3 DEF QueueChoice

(* What the loop chooses, if it chooses at all.                             *)
LEMMA Chosen ==
    ASSUME NEW families \in Seq(Family), NEW num \in Nat, QueueChoice(families, num) # NoQueue
    PROVE  \E f \in DOMAIN families :
              /\ num \in QueuesBefore(families, f) .. QueuesBefore(families, f + 1) - 1
              /\ QueueChoice(families, num) = [family |-> f, in_family |-> num - QueuesBefore(families, f)]
<1> DEFINE fits == {g \in DOMAIN families :
                      num \in QueuesBefore(families, g) .. QueuesBefore(families, g + 1) - 1}
<1>1. fits # {}
  BY DEF QueueChoice
<1>2. PICK f \in DOMAIN families :
         num \in QueuesBefore(families, f) .. QueuesBefore(families, f + 1) - 1
  BY <1>1
<1> QED
  BY <1>2, ChoiceIs

(* The array has each queue at its number.                                  *)
LEMMA PerQueueIs ==
    ASSUME NEW families \in Seq(Family), NEW num \in Nat, NEW f \in DOMAIN families,
           num \in QueuesBefore(families, f) .. QueuesBefore(families, f + 1) - 1
    PROVE  /\ num + 1 \in DOMAIN PerQueue(families)
           /\ PerQueue(families)[num + 1] = [family |-> f, in_family |-> num - QueuesBefore(families, f)]
<1> DEFINE total == Cardinality(Queues(families))
           a == QueuesBefore(families, f)
           a1 == QueuesBefore(families, f + 1)
           q == [family |-> f, in_family |-> num - a]
<1>1. f \in Nat /\ f + 1 \in Nat /\ families[f].count \in Nat
  BY QueueIs
<1>2. a \in Nat /\ a1 = a + families[f].count /\ a1 <= total /\ total \in Nat /\ a1 \in Nat
  BY <1>1, NextFamily
<1>3. a <= num /\ num < a1
  BY <1>2
<1> HIDE DEF a, a1, total
<1>4. num + 1 \in 1 .. total
  BY <1>2, <1>3
<1>5. num - a \in 0 .. families[f].count - 1
  BY <1>1, <1>2, <1>3
<1>6. q \in Queues(families)
  BY <1>5, QueueIs
<1>7. NumberOf(families, q) = num
  <2>1. NumberOf(families, q) = a + (num - a)
    BY DEF NumberOf, a
  <2> QED
    BY <1>2, <2>1
<1>8. ASSUME NEW r \in Queues(families), NumberOf(families, r) + 1 = num + 1
      PROVE  r = q
  <2>1. PICK g \in DOMAIN families : \E j \in 0 .. families[g].count - 1 :
           r = [family |-> g, in_family |-> j]
    BY QueueIs
  <2>2. PICK j \in 0 .. families[g].count - 1 : r = [family |-> g, in_family |-> j]
    BY <2>1
  <2> DEFINE b == QueuesBefore(families, g)
             b1 == QueuesBefore(families, g + 1)
  <2>3. g \in Nat /\ families[g].count \in Nat
    BY QueueIs
  <2>4. b \in Nat /\ b1 = b + families[g].count
    BY <2>3, NextFamily
  <2>5. NumberOf(families, r) = b + j
    BY <2>2 DEF NumberOf
  <2> HIDE DEF b, b1
  <2>6. num = b + j /\ num \in b .. b1 - 1
    <3>1. j \in Nat /\ j < families[g].count
      BY <2>3
    <3>2. NumberOf(families, r) = num
      <4>1. NumberOf(families, r) \in Nat
        BY <2>4, <2>5, <3>1
      <4> QED
        BY <1>8, <4>1
    <3> QED
      BY <2>3, <2>4, <2>5, <3>1, <3>2
  <2>7. num \in a .. a1 - 1
    BY <1>2, <1>3
  <2>8. g = f
    BY <2>6, <2>7, OneFamily DEF a, a1, b, b1
  <2>9. j = num - a
    BY <2>4, <2>6, <2>8 DEF a, b
  <2> QED
    BY <2>2, <2>8, <2>9
<1> HIDE DEF q
<1>9. (CHOOSE r \in Queues(families) : NumberOf(families, r) + 1 = num + 1) = q
  BY <1>6, <1>7, <1>8
<1>10. PerQueue(families)[num + 1] = q /\ num + 1 \in DOMAIN PerQueue(families)
  BY <1>4, <1>9 DEF PerQueue, total
<1> QED
  BY <1>10 DEF q, a

(* What setup goes on with is in the arrays at the number of the test.      *)
LEMMA ChosenQueue ==
    ASSUME NEW t \in Tests, NEW c, c = QueueChoice(t.device.families, t.opt.queue_num),
           ~QueueSkipped(t, c)
    PROVE  /\ c.family \in DOMAIN t.device.families
           /\ t.opt.queue_num + 1 \in DOMAIN PerQueue(t.device.families)
           /\ PerQueue(t.device.families)[t.opt.queue_num + 1] = c
<1> DEFINE families == t.device.families
           num == t.opt.queue_num
<1>1. families \in Seq(Family) /\ num \in Nat
  BY TestAssumption DEF Test
<1>2. c # NoQueue
  BY DEF QueueSkipped
<1> HIDE DEF families, num
<1>3. c = QueueChoice(families, num)
  BY DEF families, num
<1>4. PICK f \in DOMAIN families :
         /\ num \in QueuesBefore(families, f) .. QueuesBefore(families, f + 1) - 1
         /\ c = [family |-> f, in_family |-> num - QueuesBefore(families, f)]
  BY <1>1, <1>2, <1>3, Chosen
<1>5. num + 1 \in DOMAIN PerQueue(families) /\ PerQueue(families)[num + 1] = c
  BY <1>1, <1>4, PerQueueIs
<1>6. c.family \in DOMAIN families
  BY <1>4
<1> QED
  BY <1>5, <1>6 DEF families, num

(* The first queue of each family has one number.                           *)
LEMMA EachFamilyOnce ==
    ASSUME NEW families \in Seq(Family), NEW f \in DOMAIN families
    PROVE  Cardinality({num \in 0 .. Cardinality(Queues(families)) - 1 :
              QueueChoice(families, num) = [family |-> f, in_family |-> 0]}) = 1
<1> DEFINE total == Cardinality(Queues(families))
           a == QueuesBefore(families, f)
           a1 == QueuesBefore(families, f + 1)
           first == [family |-> f, in_family |-> 0]
<1>1. f \in Nat /\ f + 1 \in Nat /\ families[f].count \in Nat /\ families[f].count > 0 /\ f > 0
  BY QueueIs
<1>2. a \in Nat /\ a1 = a + families[f].count /\ a1 <= total /\ total \in Nat
  BY <1>1, NextFamily
<1> HIDE DEF a, a1, total
<1>3. a \in 0 .. total - 1 /\ a \in a .. a1 - 1
  BY <1>1, <1>2
<1>4. QueueChoice(families, a) = first
  <2>1. QueueChoice(families, a) = [family |-> f, in_family |-> a - a]
    BY <1>2, <1>3, ChoiceIs DEF a, a1
  <2> QED
    BY <1>2, <2>1
<1>5. ASSUME NEW num \in 0 .. total - 1, QueueChoice(families, num) = first
      PROVE  num = a
  <2>1. num \in Nat /\ first # NoQueue
    BY <1>1, <1>2 DEF NoQueue
  <2>2. PICK g \in DOMAIN families :
           QueueChoice(families, num) = [family |-> g, in_family |-> num - QueuesBefore(families, g)]
    BY <1>5, <2>1, Chosen
  <2>3. g = f /\ num - a = 0
    BY <1>5, <2>2 DEF a
  <2> QED
    BY <1>2, <2>1, <2>3
<1> HIDE DEF first
<1>6. {num \in 0 .. total - 1 : QueueChoice(families, num) = first} = {a}
  BY <1>3, <1>4, <1>5
<1>7. Cardinality({a}) = 1
  BY FS_Singleton
<1> QED
  BY <1>6, <1>7 DEF total, first

-----------------------------------------------------------------------------
(* The invariant holds of a test that starts, and every step keeps it.      *)

(* All commands that are ever pushed are commands, and the names of user    *)
(* objects and of the compared images are their own.                        *)
LEMMA NamesOfSteps ==
    /\ \A s \in SetupStep : s.do = "create" =>
          /\ Command(s.kind, s.object) \in Cmd
          /\ s.object # "cmd_buffer" /\ s.object \notin ActualObject
    /\ \A s \in UserObjects :
          Command(s.kind, s.object) \in Cmd /\ s.object \notin ActualObject /\ s.do = "create"
    /\ Command("vk_pooled", "cmd_buffer") \in Cmd /\ "cmd_buffer" \notin ActualObject
    /\ Command("cru_image", "actual_image") \in Cmd
    /\ Command("cru_image", "actual_stencil_image") \in Cmd
<1>1. Range(CmdPoolOf) = {CmdPoolOf[f] : f \in 1 .. Pools} /\ DOMAIN CmdPoolOf = 1 .. Pools
  BY NameAssumption DEF Pools, Range
<1>2. \A f \in 1 .. Pools : CmdPoolOf[f] \notin SetupObject \cup ActualObject
  BY <1>1, NameAssumption
<1>3. SetupObject \cap ActualObject = {} /\ "cmd_buffer" \in SetupObject
  BY DEF SetupObject, ActualObject
<1>4. \A kind \in Kind : \A o \in Name : Command(kind, o) \in Cmd
  BY DEF Command, Cmd
<1>5. ASSUME NEW s \in SetupStep, s.do = "create"
      PROVE  Command(s.kind, s.object) \in Cmd /\ s.object # "cmd_buffer" /\ s.object \notin ActualObject
  <2>1. s.object \in Created /\ s.kind \in Kind
    BY <1>5 DEF SetupStep, Looks
  <2>2. Created \subseteq Name
    BY <1>1 DEF Created, Name
  <2>3. s.object # "cmd_buffer" /\ s.object \notin ActualObject
    BY <1>2, <1>3, <2>1 DEF Created
  <2> QED
    BY <1>4, <2>1, <2>2, <2>3
<1>6. ASSUME NEW s \in UserObjects
      PROVE  Command(s.kind, s.object) \in Cmd /\ s.object \notin ActualObject /\ s.do = "create"
  <2>1. s \in [do: {"create"}, object: {s.object}, kind: Kind, needs: SUBSET STRING]
    BY NameAssumption
  <2>2. s.kind \in Kind /\ s.do = "create"
    BY <2>1
  <2>3. s.object \in Name /\ s.object \notin ActualObject
    BY NameAssumption DEF Name
  <2> QED
    BY <1>4, <2>2, <2>3
<1>7. {"vk_pooled", "cru_image"} \subseteq Kind
      /\ {"cmd_buffer", "actual_image", "actual_stencil_image"} \subseteq Name
  BY DEF Kind, NumArgs, Name, SetupObject, ActualObject
<1> QED
  BY <1>3, <1>4, <1>5, <1>6, <1>7

LEMMA InitIsGood == Init => IInv
<1> SUFFICES ASSUME Init PROVE IInv
  OBVIOUS
<1>1. pc = 0 /\ test \in Tests /\ Len(St) \in Nat /\ Len(St) > 0
  BY StepAt DEF Init
<1>2. MadeBySetup = {} /\ \A s : ~Past(s)
  BY <1>1 DEF MadeBySetup, Past
<1>3. \A th \in Thread : stack[th] = EmptyVec /\ Headers(stack[th]) = {} /\ OnStack(stack[th]) = {}
  BY EmptyIsCoded DEF Init, OnStack
<1>4. Stacked(stack, live)
  <2>1. stack = [th \in Thread |-> stack[th]] /\ \A th \in Thread : Coded(stack[th])
    BY <1>3, EmptyIsCoded DEF Init
  <2>2. EachItsOwn(stack) /\ AllLive(stack, live) /\ ParentsBelow(stack, live)
    BY <1>3 DEF EachItsOwn, AllLive, ParentsBelow
  <2>3. ParentsLive(live)
    BY DEF Init, ParentsLive
  <2> QED
    BY <2>1, <2>2, <2>3 DEF Stacked
<1>5. DOMAIN live = {}
  BY DEF Init
<1>6. AllOnStacks(stack, live)
  BY <1>5 DEF AllOnStacks
<1>7. Basics
  <2>1. pc \in 0 .. Len(St)
    BY <1>1
  <2>2. running \subseteq Thread /\ t_queue = "idle" /\ scratch = {}
    BY DEF Init, Thread
  <2>3. cleanup_stacks \in {<<>>, <<"start">>, <<"user", "start">>}
    BY DEF Init
  <2>4. phase \in {SETUP, MAIN, PRECLEANUP, CLEANUP, STOPPED} /\ result \in Result \cup {NoResult}
    BY DEF Init
  <2> QED
    BY <1>1, <2>1, <2>2, <2>3, <2>4 DEF Basics
<1>8. InSetup /\ BeforeUnwinding
  BY <1>1, <1>2, <1>5 DEF Init, InSetup, BeforeUnwinding
<1>9. SetupComplete /\ BusyQueue /\ Scratched
  BY DEF Init, SetupComplete, BusyQueue, Scratched, SETUP, MAIN, PRECLEANUP
<1>10. ListedStacks
  BY <1>3 DEF Init, ListedStacks, SETUP, MAIN, STOPPED, Thread
<1>11. Arrays
  BY <1>2 DEF Arrays
<1> QED
  BY <1>4, <1>6, <1>7, <1>8, <1>9, <1>10, <1>11 DEF IInv

(* The steps of setup: the arrays that are filled, the arrays that are not  *)
(* on a stack, and the rest.                                                *)
LEMMA ArraysKept ==
    ASSUME IInv, phase = SETUP, test' = test, pc' = pc + 1, UNCHANGED arrays,
           Step.do \notin {"choose_queue", "get_queues", "fill_cmd_pools"}
    PROVE  Arrays'
<1>1. test \in Tests /\ pc \in 0 .. Len(St) /\ pc < Len(St) /\ Arrays
  BY DEF IInv, Basics, InSetup
<1>2. \A s : Past(s)' <=> Past(s) \/ s = Step
  BY <1>1, OneMore
<1>3. \A what \in {"choose_queue", "get_queues", "fill_cmd_pools"} : Past(Do(what))' => Past(Do(what))
  BY <1>2 DEF Do
<1> QED
  BY <1>1, <1>3 DEF Arrays, arrays

(* Arrays that setup frees itself stay only while the next step is one that *)
(* holds them, or frees them.                                               *)
LEMMA ScratchKept ==
    ASSUME IInv, phase = SETUP, phase' = SETUP, test' = test, pc' = pc + 1,
           \/ Holds(Step)
           \/ scratch' = IF Frees(Step) THEN {} ELSE scratch
    PROVE  Scratched'
<1>1. test \in Tests /\ pc \in 0 .. Len(St) /\ pc < Len(St) /\ Scratched
  BY DEF IInv, Basics, InSetup
<1>2. CASE Holds(Step)
  <2>1. pc' < Len(St) /\ (Holds(Step') \/ Frees(Step')) /\ St' = St
    BY <1>1, <1>2, OneMore
  <2> QED
    BY <2>1 DEF Scratched, Holds, Frees
<1>3. CASE ~Holds(Step) /\ scratch' = IF Frees(Step) THEN {} ELSE scratch
  BY <1>1, <1>3 DEF Scratched
<1> QED
  BY <1>2, <1>3

(* A step of setup that succeeds keeps the invariant, given what it does to *)
(* stacks and objects.                                                      *)
LEMMA Advance ==
    ASSUME IInv, phase = SETUP, phase' = SETUP, Step # Do("begin_cmd_buffer"), NextStep,
           running' = running,
           Stacked(stack', live'), ~test.opt.no_cleanup => AllOnStacks(stack', live'),
           OnStack(stack["start"]) \subseteq OnStack(stack'["start"]),
           Step.do = "create" => Step.object \in OnStack(stack'["start"]),
           \/ DOMAIN live' = DOMAIN live
           \/ Step.do = "create" /\ DOMAIN live' = DOMAIN live \cup {Step.object}
           \/ Step = Do("cmd_buffer") /\ DOMAIN live' = DOMAIN live \cup {"cmd_buffer"},
           stack'["user"] = stack["user"],
           scratch' \subseteq {"ext_names", "qci", "priorities"}, Arrays', Scratched'
    PROVE  IInv'
<1>1. test \in Tests /\ pc \in 0 .. Len(St) /\ pc < Len(St) /\ test' = test /\ pc' = pc + 1
  BY DEF IInv, Basics, InSetup, NextStep
<1>2. /\ St' = St /\ pc' \in 0 .. Len(St) /\ pc' < Len(St)
      /\ \A s : Past(s)' <=> Past(s) \/ s = Step
      /\ MadeBySetup' = IF Step.do = "create" THEN MadeBySetup \cup {Step.object} ELSE MadeBySetup
  BY <1>1, OneMore
<1>3. Step \in SetupStep
  BY <1>1, OneMore
<1>4. Basics'
  BY <1>1, <1>2 DEF IInv, Basics, NextStep
<1>5. "cmd_buffer" \in DOMAIN live' => Past(Do("cmd_buffer"))'
  <2>1. Step.do = "create" => Step.object # "cmd_buffer"
    BY <1>3, NamesOfSteps
  <2>2. "cmd_buffer" \in DOMAIN live => Past(Do("cmd_buffer"))
    BY DEF IInv, InSetup
  <2> QED
    BY <1>2, <2>1, <2>2
<1>6. DOMAIN live' \subseteq MadeBySetup' \cup {"cmd_buffer"}
  <2>1. DOMAIN live \subseteq MadeBySetup \cup {"cmd_buffer"}
    BY DEF IInv, InSetup
  <2> QED
    BY <1>2, <2>1
<1>7. InSetup'
  BY <1>2, <1>5, <1>6 DEF IInv, InSetup, NextStep
<1>8. DOMAIN live' \cap ActualObject = {}
  <2>1. DOMAIN live \cap ActualObject = {}
    BY DEF IInv, BeforeUnwinding, Unwinding, SETUP, CLEANUP, STOPPED
  <2>2. Step.do = "create" => Step.object \notin ActualObject
    BY <1>3, NamesOfSteps
  <2>3. "cmd_buffer" \notin ActualObject
    BY NamesOfSteps
  <2> QED
    BY <2>1, <2>2, <2>3
<1>9. BeforeUnwinding'
  <2>1. cleanup_stacks' # <<>>
    BY DEF IInv, BeforeUnwinding, Unwinding, SETUP, CLEANUP, STOPPED, NextStep
  <2>2. MadeBySetup \subseteq OnStack(stack["start"])
    BY DEF IInv, BeforeUnwinding, Unwinding, SETUP, CLEANUP, STOPPED
  <2>3. MadeBySetup' \subseteq OnStack(stack'["start"])
    BY <1>2, <2>2
  <2> QED
    BY <1>8, <2>1, <2>3 DEF BeforeUnwinding
<1>10. SetupComplete' /\ BusyQueue'
  BY DEF IInv, SetupComplete, BusyQueue, InSetup, NextStep, SETUP, MAIN, PRECLEANUP
<1>11. ListedStacks'
  BY DEF IInv, ListedStacks, NextStep, InSetup
<1> QED
  BY <1>1, <1>4, <1>7, <1>9, <1>10, <1>11 DEF IInv

(* Where setup stands depends on its program counter alone.                 *)
LEMMA SamePlace ==
    ASSUME test' = test, pc' = pc
    PROVE  St' = St /\ MadeBySetup' = MadeBySetup /\ Step' = Step /\ \A s : Past(s)' <=> Past(s)
BY DEF St, MadeBySetup, Step, Past

(* Setup that ends early leaves the stacks as they are.                     *)
LEMMA EndKeeps ==
    ASSUME IInv, phase = SETUP, NEW r \in {SKIP, FAIL}, EndSetup(r),
           scratch' \subseteq {"ext_names", "qci", "priorities"}, scratch' # {} => Holds(Step)
    PROVE  IInv'
<1>1. /\ test' = test /\ pc' = pc /\ phase' = PRECLEANUP /\ result' = r /\ running' = {}
      /\ UNCHANGED <<cleanup_stacks, stack, live, chosen, queue, cmd_pool, t_queue, done>>
  BY DEF EndSetup, arrays
<1>2. St' = St /\ MadeBySetup' = MadeBySetup /\ Step' = Step /\ \A s : Past(s)' <=> Past(s)
  BY <1>1, SamePlace
<1>3. Basics'
  BY <1>1, <1>2 DEF IInv, Basics, Result, PASS, SKIP, FAIL, LOST
<1>4. Stacked(stack', live') /\ (~test'.opt.no_cleanup => AllOnStacks(stack', live'))
  BY <1>1 DEF IInv
<1>5. InSetup' /\ SetupComplete'
  BY <1>1 DEF InSetup, SetupComplete, SETUP, MAIN, PRECLEANUP, SKIP, FAIL, NoResult
<1>6. BeforeUnwinding'
  BY <1>1, <1>2 DEF IInv, BeforeUnwinding, Unwinding, SETUP, CLEANUP, STOPPED
<1>7. ListedStacks'
  BY <1>1 DEF IInv, ListedStacks, SETUP, MAIN, PRECLEANUP, STOPPED
<1>8. BusyQueue'
  BY <1>1 DEF IInv, BusyQueue, InSetup
<1>9. Arrays'
  BY <1>1, <1>2 DEF IInv, Arrays
<1>10. Scratched'
  BY <1>1, <1>2 DEF IInv, Scratched, InSetup
<1> QED
  BY <1>3, <1>4, <1>5, <1>6, <1>7, <1>8, <1>9, <1>10 DEF IInv

(* What the invariant says during setup.                                    *)
LEMMA SetupNow ==
    ASSUME IInv, phase = SETUP
    PROVE  /\ test \in Tests /\ pc \in 0 .. Len(St) /\ pc < Len(St) /\ Step \in SetupStep
           /\ MadeBySetup \subseteq OnStack(stack["start"])
           /\ DOMAIN live \subseteq MadeBySetup \cup {"cmd_buffer"}
           /\ Stacked(stack, live) /\ (~test.opt.no_cleanup => AllOnStacks(stack, live))
           /\ scratch \subseteq {"ext_names", "qci", "priorities"}
           /\ scratch # {} => Holds(Step) \/ Frees(Step)
<1>1. test \in Tests /\ pc \in 0 .. Len(St) /\ pc < Len(St)
  BY DEF IInv, Basics, InSetup
<1>2. Step \in SetupStep
  BY <1>1, StepAt DEF Step, St
<1>3. MadeBySetup \subseteq OnStack(stack["start"])
  BY DEF IInv, BeforeUnwinding, Unwinding, SETUP, CLEANUP, STOPPED
<1> QED
  BY <1>1, <1>2, <1>3 DEF IInv, InSetup, Basics, Scratched

LEMMA SetupCreateKeeps == IInv /\ SetupCreate => IInv'
<1> SUFFICES ASSUME IInv, SetupCreate PROVE IInv'
  OBVIOUS
<1>1. /\ phase = SETUP /\ phase' = SETUP /\ Step.do = "create" /\ Push("start", Step)
      /\ scratch' = ScratchAfter(Step.object) /\ NextStep /\ running' = running /\ UNCHANGED arrays
  BY DEF SetupCreate, AtStep
<1>2. /\ test \in Tests /\ pc \in 0 .. Len(St) /\ pc < Len(St) /\ Step \in SetupStep
      /\ MadeBySetup \subseteq OnStack(stack["start"])
      /\ DOMAIN live \subseteq MadeBySetup \cup {"cmd_buffer"}
      /\ Stacked(stack, live) /\ (~test.opt.no_cleanup => AllOnStacks(stack, live))
      /\ scratch \subseteq {"ext_names", "qci", "priorities"}
  BY <1>1, SetupNow
<1>3. test' = test /\ pc' = pc + 1
  BY <1>1 DEF NextStep
<1>4. Step.object \notin MadeBySetup
  BY <1>1, <1>2, <1>3, OneMore
<1>5. Step.needs \subseteq MadeBySetup
  BY <1>1, <1>2, NeedsMade
<1>6. Command(Step.kind, Step.object) \in Cmd /\ Step.object # "cmd_buffer"
  BY <1>1, <1>2, NamesOfSteps
<1>7. stack' = [stack EXCEPT !["start"] = Pushed(@, Step)] /\ live' = Made(live, Step)
  BY <1>1 DEF Push
<1>8. Adding(stack, live, "start", Step, stack', live')
  BY <1>2, <1>4, <1>5, <1>6, <1>7 DEF Adding, Thread
<1>9. Added(stack, live, "start", Step, stack', live')
  BY <1>8, PushKeeps
<1>10. /\ Stacked(stack', live')
       /\ DOMAIN live' = DOMAIN live \cup {Step.object}
       /\ OnStack(stack'["start"]) = OnStack(stack["start"]) \cup {Step.object}
       /\ \A t2 \in Thread : t2 # "start" => stack'[t2] = stack[t2]
       /\ AllOnStacks(stack, live) => AllOnStacks(stack', live')
  BY <1>9 DEF Added
<1>11. stack'["user"] = stack["user"]
  BY <1>10 DEF Thread
<1>12. scratch' = IF Frees(Step) THEN {} ELSE scratch
  BY <1>1 DEF ScratchAfter, Frees
<1>13. Arrays'
  BY <1>1, <1>3, ArraysKept
<1>14. Scratched'
  BY <1>1, <1>3, <1>12, ScratchKept
<1>15. Step # Do("begin_cmd_buffer")
  BY <1>1 DEF Do
<1> QED
  BY <1>1, <1>2, <1>10, <1>11, <1>12, <1>13, <1>14, <1>15, Advance

LEMMA SetupMallocKeeps == IInv /\ SetupMalloc => IInv'
<1> SUFFICES ASSUME IInv, SetupMalloc PROVE IInv'
  OBVIOUS
<1>1. /\ phase = SETUP /\ phase' = SETUP /\ Step.do = "malloc"
      /\ scratch' = scratch \cup {Step.object} /\ NextStep
      /\ UNCHANGED <<running, stack, live>> /\ UNCHANGED arrays
  BY DEF SetupMalloc, AtStep
<1>2. /\ Step \in SetupStep /\ Stacked(stack, live)
      /\ (~test.opt.no_cleanup => AllOnStacks(stack, live))
      /\ scratch \subseteq {"ext_names", "qci", "priorities"}
  BY <1>1, SetupNow
<1>3. test' = test /\ pc' = pc + 1
  BY <1>1 DEF NextStep
<1>4. scratch' \subseteq {"ext_names", "qci", "priorities"}
  BY <1>1, <1>2 DEF SetupStep, Looks
<1>5. Arrays'
  BY <1>1, <1>3, ArraysKept
<1>6. Scratched'
  BY <1>1, <1>3, ScratchKept DEF Holds
<1>7. Step # Do("begin_cmd_buffer")
  BY <1>1 DEF Do
<1> QED
  BY <1>1, <1>2, <1>4, <1>5, <1>6, <1>7, Advance

LEMMA SetupFailsKeeps == IInv /\ SetupFails => IInv'
<1> SUFFICES ASSUME IInv, SetupFails PROVE IInv'
  OBVIOUS
<1>1. phase = SETUP /\ scratch' = ScratchAfter(Step.object) /\ EndSetup(FAIL)
      /\ Step.do \in {"create", "malloc", "memory", "cmd_buffer", "begin_cmd_buffer"}
  BY DEF SetupFails
<1>2. /\ scratch \subseteq {"ext_names", "qci", "priorities"}
      /\ scratch # {} => Holds(Step) \/ Frees(Step)
  BY <1>1, SetupNow
<1>3. scratch' \subseteq {"ext_names", "qci", "priorities"} /\ (scratch' # {} => Holds(Step))
  BY <1>1, <1>2 DEF ScratchAfter, Frees
<1> QED
  BY <1>1, <1>3, EndKeeps

(* A step that only looks.                                                  *)
LEMMA LookKeeps ==
    ASSUME IInv, phase = SETUP, phase' = SETUP, Step.do \in Looks, Step.do # "begin_cmd_buffer", NextStep,
           UNCHANGED <<running, stack, live, scratch>>, Arrays'
    PROVE  IInv'
<1>1. /\ Step \in SetupStep /\ Stacked(stack, live)
      /\ (~test.opt.no_cleanup => AllOnStacks(stack, live))
      /\ scratch \subseteq {"ext_names", "qci", "priorities"}
  BY SetupNow
<1>2. test' = test /\ pc' = pc + 1
  BY DEF NextStep
<1>3. Step.do # "create" /\ ~Frees(Step)
  BY DEF Looks, Frees
<1>4. Scratched'
  BY <1>2, <1>3, ScratchKept
<1>5. Step # Do("begin_cmd_buffer")
  BY DEF Do
<1> QED
  BY <1>1, <1>3, <1>4, <1>5, Advance

LEMMA SetupMemoryKeeps == IInv /\ SetupMemory => IInv'
<1> SUFFICES ASSUME IInv, SetupMemory PROVE IInv'
  OBVIOUS
<1>1. /\ phase = SETUP /\ phase' = SETUP /\ Step.do = "memory" /\ NextStep
      /\ UNCHANGED <<running, stack, live, scratch>> /\ UNCHANGED arrays
  BY DEF SetupMemory, AtStep
<1>2. /\ Stacked(stack, live) /\ (~test.opt.no_cleanup => AllOnStacks(stack, live))
      /\ scratch \subseteq {"ext_names", "qci", "priorities"}
  BY <1>1, SetupNow
<1>3. test' = test /\ pc' = pc + 1
  BY <1>1 DEF NextStep
<1>4. Step.do # "create" /\ ~Frees(Step)
  BY <1>1 DEF Frees
<1>5. Arrays'
  BY <1>1, <1>3, ArraysKept
<1>6. Scratched'
  BY <1>1, <1>3, <1>4, ScratchKept
<1>7. Step # Do("begin_cmd_buffer")
  BY <1>1 DEF Do
<1> QED
  BY <1>1, <1>2, <1>4, <1>5, <1>6, <1>7, Advance

LEMMA PhysDevKeeps == IInv /\ PhysDev => IInv'
<1> SUFFICES ASSUME IInv, PhysDev PROVE IInv'
  OBVIOUS
<1>1. phase = SETUP /\ Step.do = "phys_dev"
  BY DEF PhysDev, AtStep
<1>2. /\ scratch \subseteq {"ext_names", "qci", "priorities"}
      /\ scratch # {} => Holds(Step) \/ Frees(Step)
  BY <1>1, SetupNow
<1>3. CASE EndSetup(FAIL) /\ UNCHANGED scratch
  <2>1. scratch' # {} => Holds(Step)
    BY <1>1, <1>2, <1>3 DEF Frees
  <2> QED
    BY <1>1, <1>2, <1>3, <2>1, EndKeeps
<1>4. CASE NextStep /\ UNCHANGED <<phase, running, stack, live, scratch, image_memory, arrays>>
  <2>1. test' = test /\ pc' = pc + 1
    BY <1>4 DEF NextStep
  <2>2. Arrays'
    BY <1>1, <1>4, <2>1, ArraysKept
  <2> QED
    BY <1>1, <1>4, <2>2, LookKeeps DEF Looks
<1> QED
  BY <1>3, <1>4 DEF PhysDev

LEMMA FeaturesKeeps == IInv /\ Features => IInv'
<1> SUFFICES ASSUME IInv, Features PROVE IInv'
  OBVIOUS
<1>1. phase = SETUP /\ Step.do = "features"
  BY DEF Features, AtStep
<1>2. scratch \subseteq {"ext_names", "qci", "priorities"}
  BY <1>1, SetupNow
<1>3. CASE EndSetup(SKIP) /\ UNCHANGED scratch
  <2>1. scratch' # {} => Holds(Step)
    BY <1>1 DEF Holds
  <2> QED
    BY <1>1, <1>2, <1>3, <2>1, EndKeeps
<1>4. CASE NextStep /\ UNCHANGED <<phase, running, stack, live, scratch, image_memory, arrays>>
  <2>1. test' = test /\ pc' = pc + 1
    BY <1>4 DEF NextStep
  <2>2. Arrays'
    BY <1>1, <1>4, <2>1, ArraysKept
  <2> QED
    BY <1>1, <1>4, <2>2, LookKeeps DEF Looks
<1> QED
  BY <1>3, <1>4 DEF Features

LEMMA ChooseQueueKeeps == IInv /\ ChooseQueue => IInv'
<1> SUFFICES ASSUME IInv, ChooseQueue PROVE IInv'
  OBVIOUS
<1> DEFINE c == QueueChoice(test.device.families, test.opt.queue_num)
<1>1. phase = SETUP /\ Step.do = "choose_queue"
  BY DEF ChooseQueue, AtStep
<1>2. /\ test \in Tests /\ pc \in 0 .. Len(St) /\ pc < Len(St)
      /\ scratch \subseteq {"ext_names", "qci", "priorities"}
      /\ scratch # {} => Holds(Step) \/ Frees(Step)
  BY <1>1, SetupNow
<1>3. CASE QueueSkipped(test, c)
  <2>1. EndSetup(SKIP) /\ UNCHANGED scratch
    BY <1>3 DEF ChooseQueue
  <2>2. scratch' # {} => Holds(Step)
    BY <1>1, <1>2, <2>1 DEF Frees
  <2> QED
    BY <1>1, <1>2, <2>1, <2>2, EndKeeps
<1>4. CASE ~QueueSkipped(test, c)
  <2>1. /\ chosen' = c /\ NextStep
        /\ UNCHANGED <<phase, running, stack, live, scratch, queue, cmd_pool>>
    BY <1>4 DEF ChooseQueue
  <2>2. test' = test /\ pc' = pc + 1
    BY <2>1 DEF NextStep
  <2>3. \A s : Past(s)' <=> Past(s) \/ s = Step
    BY <1>2, <2>2, OneMore
  <2>4. \A what \in {"get_queues", "fill_cmd_pools"} : Past(Do(what))' => Past(Do(what))
    BY <1>1, <2>3 DEF Do
  <2> HIDE DEF c
  <2>5. Arrays'
    BY <1>4, <2>1, <2>2, <2>4 DEF IInv, Arrays, c
  <2> QED
    BY <1>1, <2>1, <2>5, LookKeeps DEF Looks
<1> QED
  BY <1>3, <1>4

LEMMA GetQueuesKeeps == IInv /\ GetQueues => IInv'
<1> SUFFICES ASSUME IInv, GetQueues PROVE IInv'
  OBVIOUS
<1>1. /\ phase = SETUP /\ Step.do = "get_queues" /\ queue' = PerQueue(test.device.families) /\ NextStep
      /\ UNCHANGED <<phase, running, stack, live, scratch, chosen, cmd_pool>>
  BY DEF GetQueues, AtStep
<1>2. test \in Tests /\ pc \in 0 .. Len(St) /\ pc < Len(St)
  BY <1>1, SetupNow
<1>3. test' = test /\ pc' = pc + 1
  BY <1>1 DEF NextStep
<1>4. \A s : Past(s)' <=> Past(s) \/ s = Step
  BY <1>2, <1>3, OneMore
<1>5. \A what \in {"choose_queue", "fill_cmd_pools"} : Past(Do(what))' => Past(Do(what))
  BY <1>1, <1>4 DEF Do
<1>6. Arrays'
  BY <1>1, <1>3, <1>5 DEF IInv, Arrays
<1> QED
  BY <1>1, <1>6, LookKeeps DEF Looks

LEMMA FillCmdPoolsKeeps == IInv /\ FillCmdPools => IInv'
<1> SUFFICES ASSUME IInv, FillCmdPools PROVE IInv'
  OBVIOUS
<1>1. /\ phase = SETUP /\ Step.do = "fill_cmd_pools" /\ NextStep
      /\ cmd_pool' = [place \in DOMAIN PerQueue(test.device.families) |->
                        PerQueue(test.device.families)[place].family]
      /\ UNCHANGED <<phase, running, stack, live, scratch, chosen, queue>>
  BY DEF FillCmdPools, AtStep
<1>2. test \in Tests /\ pc \in 0 .. Len(St) /\ pc < Len(St)
  BY <1>1, SetupNow
<1>3. test' = test /\ pc' = pc + 1
  BY <1>1 DEF NextStep
<1>4. \A s : Past(s)' <=> Past(s) \/ s = Step
  BY <1>2, <1>3, OneMore
<1>5. \A what \in {"choose_queue", "get_queues"} : Past(Do(what))' => Past(Do(what))
  BY <1>1, <1>4 DEF Do
<1>6. Arrays'
  BY <1>1, <1>3, <1>5 DEF IInv, Arrays
<1> QED
  BY <1>1, <1>6, LookKeeps DEF Looks

(* The queue of the test and its command pool, once they are known.         *)
LEMMA TheQueue ==
    ASSUME IInv, Past(Do("choose_queue")), Past(Do("get_queues")), Past(Do("fill_cmd_pools"))
    PROVE  /\ chosen.family \in DOMAIN test.device.families
           /\ ~QueueSkipped(test, chosen)
           /\ queue[test.opt.queue_num + 1] = chosen
           /\ TCmdPool = CmdPoolOf[chosen.family]
<1> DEFINE per == PerQueue(test.device.families)
           place == test.opt.queue_num + 1
<1>1. /\ test \in Tests /\ chosen = QueueChoice(test.device.families, test.opt.queue_num)
      /\ ~QueueSkipped(test, chosen)
      /\ queue = per /\ cmd_pool = [i \in DOMAIN per |-> per[i].family]
  BY DEF IInv, Basics, Arrays
<1>2. chosen.family \in DOMAIN test.device.families /\ place \in DOMAIN per /\ per[place] = chosen
  BY <1>1, ChosenQueue
<1> HIDE DEF per, place
<1>3. cmd_pool[place] = chosen.family
  BY <1>1, <1>2
<1> QED
  BY <1>1, <1>2, <1>3 DEF TCmdPool, place

LEMMA AllocateCommandBufferKeeps == IInv /\ AllocateCommandBuffer => IInv'
<1> SUFFICES ASSUME IInv, AllocateCommandBuffer PROVE IInv'
  OBVIOUS
<1> DEFINE s == Create("cmd_buffer", "vk_pooled", {"device", TCmdPool})
<1>1. /\ phase = SETUP /\ phase' = SETUP /\ Step.do = "cmd_buffer" /\ Push("start", s) /\ NextStep
      /\ UNCHANGED <<running, scratch>> /\ UNCHANGED arrays
  BY DEF AllocateCommandBuffer, AtStep
<1>2. /\ test \in Tests /\ pc \in 0 .. Len(St) /\ pc < Len(St) /\ Step \in SetupStep
      /\ MadeBySetup \subseteq OnStack(stack["start"])
      /\ DOMAIN live \subseteq MadeBySetup \cup {"cmd_buffer"}
      /\ Stacked(stack, live) /\ (~test.opt.no_cleanup => AllOnStacks(stack, live))
      /\ scratch \subseteq {"ext_names", "qci", "priorities"}
  BY <1>1, SetupNow
<1>3. test' = test /\ pc' = pc + 1
  BY <1>1 DEF NextStep
<1>4. Step = Do("cmd_buffer")
  <2>1. Step \in [do: Looks, object: {"none"}]
    BY <1>1, <1>2 DEF SetupStep
  <2> QED
    BY <1>1, <2>1 DEF Do
<1>5. s.object = "cmd_buffer" /\ s.kind = "vk_pooled" /\ s.needs = {"device", TCmdPool}
  BY DEF Create
<1> HIDE DEF s
<1>6. "cmd_buffer" \notin DOMAIN live
  <2>1. Step.do # "malloc" /\ ~Past(Step)
    BY <1>1, <1>2, <1>3, OneMore
  <2> QED
    BY <1>1, <1>4, <2>1 DEF IInv, InSetup
<1>7. s.needs \subseteq MadeBySetup
  <2>1. Pools \in Nat
    BY NameAssumption DEF Pools
  <2>2. Rank(Step) = 28 + Pools
    BY <1>1 DEF Rank
  <2>3. /\ Rank(Do("choose_queue")) = 8 /\ Rank(Do("get_queues")) = 24
        /\ Rank(Do("fill_cmd_pools")) = 27 + Pools
    BY DEF Rank, Do, Place
  <2>4. \A what : Do(what).do = what
    BY DEF Do
  <2>5. /\ Occurs(Do("choose_queue"), St) /\ Occurs(Do("get_queues"), St)
        /\ Occurs(Do("fill_cmd_pools"), St)
    BY <1>2, StepsOrdered DEF Always, St
  <2>6. Past(Do("choose_queue"))
    BY <1>1, <1>2, <2>1, <2>2, <2>3, <2>4, <2>5, PastByRank
  <2>7. Past(Do("get_queues"))
    BY <1>1, <1>2, <2>1, <2>2, <2>3, <2>4, <2>5, PastByRank
  <2>8. Past(Do("fill_cmd_pools"))
    BY <1>1, <1>2, <2>1, <2>2, <2>3, <2>4, <2>5, PastByRank
  <2>9. chosen.family \in DOMAIN test.device.families /\ TCmdPool = CmdPoolOf[chosen.family]
    BY <2>6, <2>7, <2>8, TheQueue
  <2>10. "device" \in MadeBySetup /\ TCmdPool \in MadeBySetup
    BY <1>1, <1>2, <2>9, NeedsMade
  <2> QED
    BY <1>5, <2>10
<1>8. Command(s.kind, s.object) \in Cmd
  BY <1>5, NamesOfSteps
<1>9. stack' = [stack EXCEPT !["start"] = Pushed(@, s)] /\ live' = Made(live, s)
  BY <1>1 DEF Push
<1>10. Adding(stack, live, "start", s, stack', live')
  BY <1>2, <1>5, <1>6, <1>7, <1>8, <1>9 DEF Adding, Thread
<1>11. Added(stack, live, "start", s, stack', live')
  BY <1>10, PushKeeps
<1>12. /\ Stacked(stack', live')
       /\ DOMAIN live' = DOMAIN live \cup {"cmd_buffer"}
       /\ OnStack(stack["start"]) \subseteq OnStack(stack'["start"])
       /\ \A t2 \in Thread : t2 # "start" => stack'[t2] = stack[t2]
       /\ AllOnStacks(stack, live) => AllOnStacks(stack', live')
  BY <1>5, <1>11 DEF Added
<1>13. stack'["user"] = stack["user"]
  BY <1>12 DEF Thread
<1>14. Arrays'
  BY <1>1, <1>3, ArraysKept
<1>15. Scratched'
  <2>1. ~Frees(Step)
    BY <1>1 DEF Frees
  <2> QED
    BY <1>1, <1>3, <2>1, ScratchKept
<1>16. Step # Do("begin_cmd_buffer") /\ Step.do # "create"
  BY <1>1 DEF Do
<1> QED
  BY <1>1, <1>2, <1>4, <1>12, <1>13, <1>14, <1>15, <1>16, Advance

LEMMA BeginCommandBufferKeeps == IInv /\ BeginCommandBuffer => IInv'
<1> SUFFICES ASSUME IInv, BeginCommandBuffer PROVE IInv'
  OBVIOUS
<1>1. /\ phase = SETUP /\ phase' = MAIN /\ Step.do = "begin_cmd_buffer" /\ NextStep
      /\ UNCHANGED <<running, stack, live, scratch>> /\ UNCHANGED arrays
  BY DEF BeginCommandBuffer, AtStep
<1>2. /\ test \in Tests /\ pc \in 0 .. Len(St) /\ pc < Len(St) /\ Step \in SetupStep
      /\ scratch # {} => Holds(Step) \/ Frees(Step)
  BY <1>1, SetupNow
<1>3. /\ test' = test /\ pc' = pc + 1 /\ UNCHANGED <<result, cleanup_stacks, t_queue>>
  BY <1>1 DEF NextStep
<1>4. Step = Do("begin_cmd_buffer")
  <2>1. Step \in [do: Looks, object: {"none"}]
    BY <1>1, <1>2 DEF SetupStep
  <2> QED
    BY <1>1, <2>1 DEF Do
<1>5. St' = St /\ pc' = Len(St) /\ pc' \in 0 .. Len(St) /\ MadeBySetup' = MadeBySetup
  BY <1>1, <1>2, <1>3, <1>4, OneMore
<1>6. scratch = {}
  BY <1>1, <1>2 DEF Holds, Frees
<1>7. Basics'
  BY <1>1, <1>3, <1>5 DEF IInv, Basics
<1>8. Stacked(stack', live') /\ (~test'.opt.no_cleanup => AllOnStacks(stack', live'))
  BY <1>1, <1>3 DEF IInv
<1>9. InSetup' /\ SetupComplete' /\ BusyQueue'
  BY <1>1, <1>3, <1>5 DEF InSetup, SetupComplete, BusyQueue, SETUP, MAIN
<1>10. BeforeUnwinding'
  BY <1>1, <1>3, <1>5 DEF IInv, BeforeUnwinding, Unwinding, SETUP, CLEANUP, STOPPED
<1>11. ListedStacks'
  BY <1>1, <1>3 DEF IInv, ListedStacks, SETUP, MAIN, STOPPED
<1>12. Arrays'
  BY <1>1, <1>3, ArraysKept
<1>13. Scratched'
  BY <1>1, <1>6 DEF Scratched
<1> QED
  BY <1>7, <1>8, <1>9, <1>10, <1>11, <1>12, <1>13 DEF IInv

(* Once setup is over, nothing touches what it has filled.                  *)
LEMMA AfterSetup ==
    ASSUME IInv, phase # SETUP, phase' # SETUP, test' = test, pc' = pc, scratch' = scratch, UNCHANGED arrays
    PROVE  /\ InSetup' /\ Arrays' /\ Scratched'
           /\ St' = St /\ MadeBySetup' = MadeBySetup
<1>1. St' = St /\ MadeBySetup' = MadeBySetup /\ Step' = Step /\ \A s : Past(s)' <=> Past(s)
  BY SamePlace
<1>2. Arrays'
  BY <1>1 DEF IInv, Arrays, arrays
<1>3. Scratched'
  BY <1>1 DEF IInv, Scratched
<1> QED
  BY <1>1, <1>2, <1>3 DEF InSetup

(* What the invariant says while the start function runs.                   *)
LEMMA InMain ==
    ASSUME IInv, phase = MAIN
    PROVE  /\ test \in Tests /\ pc = Len(St) /\ cleanup_stacks # <<>>
           /\ MadeBySetup \subseteq OnStack(stack["start"])
           /\ DOMAIN live \cap ActualObject = {}
           /\ "queue" \in DOMAIN live
<1>1. test \in Tests /\ pc = Len(St)
  BY DEF IInv, Basics, SetupComplete
<1>2. /\ MadeBySetup \subseteq OnStack(stack["start"]) /\ cleanup_stacks # <<>>
      /\ DOMAIN live \cap ActualObject = {}
  BY DEF IInv, BeforeUnwinding, Unwinding, MAIN, CLEANUP, STOPPED
<1>3. "queue" \in MadeBySetup
  BY <1>1, SetupMade
<1>4. OnStack(stack["start"]) \subseteq DOMAIN live
  BY DEF IInv, Stacked, AllLive, OnStack, ObjectAt, Thread
<1> QED
  BY <1>1, <1>2, <1>3, <1>4

LEMMA OneBeforeOne == ASSUME NEW S, NEW a \in S, NEW b \in S PROVE <<a>> \o <<b>> = <<a, b>>
<1> DEFINE x == <<a>>
           y == <<b>>
           z == <<a, b>>
           w == x \o y
<1>1. x \in Seq(S) /\ y \in Seq(S) /\ z \in Seq(S) /\ Len(x) = 1 /\ Len(y) = 1 /\ Len(z) = 2
      /\ x[1] = a /\ y[1] = b /\ z[1] = a /\ z[2] = b
  OBVIOUS
<1> HIDE DEF x, y, z
<1>2. x \in Seq(S) /\ y \in Seq(S)
  BY <1>1
<1>3. w \in Seq(S) /\ Len(w) = Len(x) + Len(y)
  BY <1>2
<1>4. \A i \in 1 .. Len(x) : w[i] = x[i]
  BY <1>2
<1>5. \A i \in 1 .. Len(y) : w[Len(x) + i] = y[i]
  BY <1>2
<1> HIDE DEF w
<1>6. w = z
  <2>1. Len(w) = 2 /\ w[1] = a /\ w[1 + 1] = b
    BY <1>1, <1>3, <1>4, <1>5
  <2> QED
    BY <1>1, <1>3, <2>1
<1> QED
  BY <1>6 DEF x, y, z, w

LEMMA UserStartThreadKeeps == IInv /\ UserStartThread => IInv'
<1> SUFFICES ASSUME IInv, UserStartThread PROVE IInv'
  OBVIOUS
<1>1. /\ phase = MAIN /\ cleanup_stacks = <<"start">> /\ running' = running \cup {"user"}
      /\ cleanup_stacks' = <<"user">> \o cleanup_stacks
      /\ UNCHANGED <<test, phase, result, pc, stack, live, scratch, t_queue, done>> /\ UNCHANGED arrays
  BY DEF UserStartThread, memories
<1>2. InSetup' /\ Arrays' /\ Scratched' /\ St' = St /\ MadeBySetup' = MadeBySetup
  BY <1>1, AfterSetup DEF SETUP, MAIN
<1>3. cleanup_stacks' = <<"user", "start">> /\ cleanup_stacks' # <<>>
  <2>1. <<"user">> \o <<"start">> = <<"user", "start">>
    <3> DEFINE a == "user"
               b == "start"
    <3>1. a \in {a, b} /\ b \in {a, b}
      OBVIOUS
    <3> HIDE DEF a, b
    <3>2. <<a>> \o <<b>> = <<a, b>>
      BY <3>1, OneBeforeOne
    <3> QED
      BY <3>2 DEF a, b
  <2>2. cleanup_stacks' = <<"user">> \o <<"start">>
    BY <1>1
  <2>3. <<"user", "start">> # <<>>
    OBVIOUS
  <2> QED
    BY <2>1, <2>2, <2>3
<1>4. Basics'
  BY <1>1, <1>2, <1>3 DEF IInv, Basics, Thread
<1>5. Stacked(stack', live') /\ (~test'.opt.no_cleanup => AllOnStacks(stack', live'))
  BY <1>1 DEF IInv
<1>6. BeforeUnwinding'
  BY <1>1, <1>2, <1>3, InMain DEF BeforeUnwinding
<1>7. SetupComplete' /\ BusyQueue'
  BY <1>1, <1>2 DEF IInv, SetupComplete, BusyQueue
<1>8. ListedStacks'
  <2>1. phase' = MAIN /\ cleanup_stacks' = <<"user", "start">> /\ cleanup_stacks' # <<>>
    BY <1>1, <1>3
  <2> QED
    BY <2>1 DEF ListedStacks, MAIN, STOPPED
<1> QED
  BY <1>2, <1>4, <1>5, <1>6, <1>7, <1>8 DEF IInv

LEMMA UserCreateKeeps == ASSUME NEW th \in Thread PROVE IInv /\ UserCreate(th) => IInv'
<1> SUFFICES ASSUME IInv, UserCreate(th) PROVE IInv'
  OBVIOUS
<1>1. /\ phase = MAIN /\ th \in running
      /\ UNCHANGED <<test, phase, result, pc, scratch, t_queue, done>>
      /\ UNCHANGED <<running, cleanup_stacks>> /\ UNCHANGED arrays
  BY DEF UserCreate, threads, memories
<1>2. PICK s \in UserObjects :
         s.object \notin DOMAIN live /\ s.needs \subseteq OwnObjects(th) /\ Push(th, s)
  BY DEF UserCreate
<1>3. InSetup' /\ Arrays' /\ Scratched' /\ St' = St /\ MadeBySetup' = MadeBySetup
  BY <1>1, AfterSetup DEF SETUP, MAIN
<1>4. Command(s.kind, s.object) \in Cmd /\ s.object \notin ActualObject
  BY NamesOfSteps
<1>5. Adding(stack, live, th, s, stack', live')
  BY <1>2, <1>4 DEF IInv, Adding, Push, OwnObjects
<1>6. Added(stack, live, th, s, stack', live')
  BY <1>5, PushKeeps
<1>7. /\ Stacked(stack', live')
      /\ DOMAIN live' = DOMAIN live \cup {s.object}
      /\ OnStack(stack'[th]) = OnStack(stack[th]) \cup {s.object}
      /\ \A t2 \in Thread : t2 # th => stack'[t2] = stack[t2]
      /\ AllOnStacks(stack, live) => AllOnStacks(stack', live')
  BY <1>6 DEF Added
<1>8. Basics'
  BY <1>1, <1>3 DEF IInv, Basics
<1>9. OnStack(stack["start"]) \subseteq OnStack(stack'["start"])
  BY <1>7 DEF Thread
<1>10. BeforeUnwinding'
  BY <1>1, <1>3, <1>4, <1>7, <1>9, InMain DEF BeforeUnwinding
<1>11. SetupComplete' /\ BusyQueue'
  BY <1>1, <1>3 DEF IInv, SetupComplete, BusyQueue
<1>12. cleanup_stacks' # <<"user", "start">> => stack'["user"] = stack["user"]
  <2> HAVE cleanup_stacks' # <<"user", "start">>
  <2>1. th # "user"
    BY <1>1 DEF IInv, ListedStacks
  <2> QED
    BY <1>7, <2>1 DEF Thread
<1>13. ListedStacks'
  <2>1. cleanup_stacks' # <<>> /\ phase' = MAIN
    BY <1>1, InMain
  <2> QED
    BY <1>1, <1>12, <2>1 DEF IInv, ListedStacks, MAIN, STOPPED
<1>14. ~test'.opt.no_cleanup => AllOnStacks(stack', live')
  BY <1>1, <1>7 DEF IInv
<1> QED
  BY <1>3, <1>7, <1>8, <1>10, <1>11, <1>13, <1>14 DEF IInv

LEMMA UserSubmitKeeps == IInv /\ UserSubmit => IInv'
<1> SUFFICES ASSUME IInv, UserSubmit PROVE IInv'
  OBVIOUS
<1>1. /\ phase = MAIN /\ t_queue' = "busy"
      /\ UNCHANGED <<test, phase, result, pc, stack, live, scratch, done>>
      /\ UNCHANGED <<running, cleanup_stacks>> /\ UNCHANGED arrays
  BY DEF UserSubmit, threads, memories
<1>2. InSetup' /\ Arrays' /\ Scratched' /\ St' = St /\ MadeBySetup' = MadeBySetup
  BY <1>1, AfterSetup DEF SETUP, MAIN
<1>3. Basics'
  BY <1>1, <1>2 DEF IInv, Basics
<1>4. Stacked(stack', live') /\ (~test'.opt.no_cleanup => AllOnStacks(stack', live'))
  BY <1>1 DEF IInv
<1>5. BeforeUnwinding'
  BY <1>1, <1>2, InMain DEF BeforeUnwinding
<1>6. SetupComplete' /\ BusyQueue' /\ ListedStacks'
  BY <1>1, <1>2 DEF IInv, SetupComplete, BusyQueue, ListedStacks
<1> QED
  BY <1>2, <1>3, <1>4, <1>5, <1>6 DEF IInv

LEMMA UserEndKeeps == ASSUME NEW th \in Thread PROVE IInv /\ UserEnd(th) => IInv'
<1> SUFFICES ASSUME IInv, UserEnd(th) PROVE IInv'
  OBVIOUS
<1>1. /\ phase = MAIN /\ th \in running /\ running' = running \ {th}
      /\ result' = result \/ result' \in {PASS, SKIP, FAIL}
      /\ phase' = IF running' = {} THEN PRECLEANUP ELSE MAIN
      /\ UNCHANGED <<test, pc, cleanup_stacks, stack, live, scratch, t_queue, done>>
      /\ UNCHANGED arrays
  BY DEF UserEnd, memories
<1>2. phase' \in {MAIN, PRECLEANUP} /\ phase' \notin {SETUP, CLEANUP, STOPPED}
  BY <1>1 DEF SETUP, MAIN, PRECLEANUP, CLEANUP, STOPPED
<1>3. InSetup' /\ Arrays' /\ Scratched' /\ St' = St /\ MadeBySetup' = MadeBySetup
  BY <1>1, <1>2, AfterSetup DEF SETUP, MAIN
<1>4. Basics'
  <2>1. result' \in Result \cup {NoResult}
    BY <1>1 DEF IInv, Basics, Result, PASS, SKIP, FAIL, LOST
  <2> QED
    BY <1>1, <1>2, <1>3, <2>1 DEF IInv, Basics
<1>5. Stacked(stack', live') /\ (~test'.opt.no_cleanup => AllOnStacks(stack', live'))
  BY <1>1 DEF IInv
<1>6. BeforeUnwinding'
  BY <1>1, <1>3, InMain DEF BeforeUnwinding
<1>7. SetupComplete' /\ BusyQueue'
  BY <1>1, <1>2, <1>3, InMain DEF SetupComplete, BusyQueue
<1>8. ListedStacks'
  BY <1>1, <1>2 DEF IInv, ListedStacks
<1> QED
  BY <1>3, <1>4, <1>5, <1>6, <1>7, <1>8 DEF IInv

LEMMA ListIs ==
    ASSUME cleanup_stacks \in {<<>>, <<"start">>, <<"user", "start">>}
    PROVE  /\ \A th \in Range(cleanup_stacks) :
                 th \in Thread /\ (th = "user" => cleanup_stacks = <<"user", "start">>)
           /\ cleanup_stacks # <<>> =>
                 /\ Head(cleanup_stacks) \in Thread
                 /\ Head(cleanup_stacks) = "start" <=> cleanup_stacks = <<"start">>
                 /\ Head(cleanup_stacks) = "user" => Tail(cleanup_stacks) = <<"start">>
                 /\ Head(cleanup_stacks) = "start" => Tail(cleanup_stacks) = <<>>
<1> DEFINE a == <<"start">>
           b == <<"user", "start">>
<1>1. Range(<<>>) = {} /\ Range(a) = {"start"} /\ Range(b) = {"user", "start"}
  BY DEF Range
<1>2. Head(a) = "start" /\ Tail(a) = <<>> /\ Head(b) = "user" /\ Tail(b) = a /\ a # b /\ a # <<>> /\ b # <<>>
  OBVIOUS
<1>3. cleanup_stacks \in {<<>>, a, b}
  OBVIOUS
<1> HIDE DEF a, b
<1>4. \A th \in Range(cleanup_stacks) : th \in Thread /\ (th = "user" => cleanup_stacks = b)
  BY <1>1, <1>3 DEF Thread
<1>5. cleanup_stacks # <<>> =>
         /\ Head(cleanup_stacks) \in Thread
         /\ Head(cleanup_stacks) = "start" <=> cleanup_stacks = a
         /\ Head(cleanup_stacks) = "user" => Tail(cleanup_stacks) = a
         /\ Head(cleanup_stacks) = "start" => Tail(cleanup_stacks) = <<>>
  BY <1>2, <1>3 DEF Thread
<1> QED
  BY <1>4, <1>5 DEF a, b

(* None, the first or both of the images that the comparison needs.         *)
LEMMA Comparing ==
    ASSUME IInv, phase = PRECLEANUP, result = NoResult, ~test.def.no_image,
           NEW th \in Range(cleanup_stacks), CompareImage(th)
    PROVE  /\ th \in Thread /\ result' \in {result, FAIL}
           /\ \/ stack' = stack /\ live' = live
              \/ Added(stack, live, th, ActualImage, stack', live')
              \/ \E x, l : /\ Added(stack, live, th, ActualImage, x, l)
                           /\ Added(x, l, th, ActualStencilImage, stack', live')
<1>1. test \in Tests /\ pc = Len(St) /\ Stacked(stack, live)
  BY DEF IInv, Basics, SetupComplete
<1>2. MadeBySetup \subseteq OnStack(stack["start"]) /\ DOMAIN live \cap ActualObject = {}
  BY DEF IInv, BeforeUnwinding, Unwinding, PRECLEANUP, CLEANUP, STOPPED
<1>3. th \in Thread
  BY ListIs DEF IInv, Basics
<1>4. {"device", "color_image"} \subseteq OnStack(stack["start"])
  BY <1>1, <1>2, SetupMade
<1>5. test.def.ref_stencil => "ds_image" \in OnStack(stack["start"])
  BY <1>1, <1>2, SetupMade, TestAssumption
<1>6. /\ ActualImage.object = "actual_image" /\ ActualImage.kind = "cru_image"
      /\ ActualImage.needs = {"device", "color_image"}
      /\ ActualStencilImage.object = "actual_stencil_image" /\ ActualStencilImage.kind = "cru_image"
      /\ ActualStencilImage.needs = {"device", "ds_image"}
  BY DEF ActualImage, ActualStencilImage, Create
<1>7. /\ "actual_image" \notin DOMAIN live /\ "actual_stencil_image" \notin DOMAIN live
      /\ "actual_image" # "actual_stencil_image"
  BY <1>2 DEF ActualObject
<1>8. ASSUME NEW x, NEW l, x = [stack EXCEPT ![th] = Pushed(@, ActualImage)], l = Made(live, ActualImage)
      PROVE  Added(stack, live, th, ActualImage, x, l)
  <2>1. Command(ActualImage.kind, ActualImage.object) \in Cmd
    BY <1>6, NamesOfSteps
  <2>2. Adding(stack, live, th, ActualImage, x, l)
    BY <1>1, <1>3, <1>4, <1>6, <1>7, <1>8, <2>1 DEF Adding
  <2> QED
    BY <2>2, PushKeeps
<1>9. CASE UNCHANGED <<stack, live>> /\ result' = FAIL
  BY <1>3, <1>9
<1>10. CASE Push(th, ActualImage) /\ result' \in {result, FAIL}
  <2>1. stack' = [stack EXCEPT ![th] = Pushed(@, ActualImage)] /\ live' = Made(live, ActualImage)
    BY <1>10 DEF Push
  <2>2. Added(stack, live, th, ActualImage, stack', live')
    BY <1>8, <2>1
  <2> QED
    BY <1>3, <1>10, <2>2
<1>11. CASE /\ test.def.ref_stencil
            /\ stack' = [stack EXCEPT ![th] = Pushed(Pushed(@, ActualImage), ActualStencilImage)]
            /\ live' = Made(Made(live, ActualImage), ActualStencilImage)
            /\ result' \in {result, FAIL}
  <2> DEFINE x == [stack EXCEPT ![th] = Pushed(@, ActualImage)]
             l == Made(live, ActualImage)
  <2>1. Added(stack, live, th, ActualImage, x, l)
    BY <1>8
  <2>2. stack = [t2 \in Thread |-> stack[t2]]
    BY <1>1 DEF Stacked
  <2>3. stack' = [x EXCEPT ![th] = Pushed(@, ActualStencilImage)]
    BY <1>3, <1>11, <2>2
  <2>4. live' = Made(l, ActualStencilImage)
    BY <1>11
  <2> HIDE DEF x, l
  <2>5. /\ Stacked(x, l) /\ DOMAIN l = DOMAIN live \cup {"actual_image"}
        /\ OnStack(x[th]) = OnStack(stack[th]) \cup {"actual_image"}
        /\ \A t2 \in Thread : t2 # th => x[t2] = stack[t2]
    BY <1>6, <2>1 DEF Added
  <2>6. OnStack(stack["start"]) \subseteq OnStack(x["start"])
    BY <2>5 DEF Thread
  <2>7. Command(ActualStencilImage.kind, ActualStencilImage.object) \in Cmd
    BY <1>6, NamesOfSteps
  <2>8. Adding(x, l, th, ActualStencilImage, stack', live')
    BY <1>3, <1>4, <1>5, <1>6, <1>7, <1>11, <2>3, <2>4, <2>5, <2>6, <2>7 DEF Adding
  <2>9. Added(x, l, th, ActualStencilImage, stack', live')
    BY <2>8, PushKeeps
  <2> QED
    BY <1>3, <1>11, <2>1, <2>9
<1> QED
  BY <1>9, <1>10, <1>11 DEF CompareImage

(* What becomes of the stacks and of what lives before the cleanup phase.   *)
LEMMA PrecleanupStacks ==
    ASSUME IInv, Precleanup
    PROVE  /\ result' \in {result, FAIL}
           /\ Stacked(stack', live') /\ (AllOnStacks(stack, live) => AllOnStacks(stack', live'))
           /\ cleanup_stacks # <<"user", "start">> => stack'["user"] = stack["user"]
           /\ live' = live \/ "actual_image" \in DOMAIN live' \ DOMAIN live
<1>1. phase = PRECLEANUP /\ Stacked(stack, live)
  BY DEF Precleanup, IInv
<1>2. DOMAIN live \cap ActualObject = {}
  BY <1>1 DEF IInv, BeforeUnwinding, Unwinding, PRECLEANUP, CLEANUP, STOPPED
<1>3. CASE ~(result = NoResult /\ ~test.def.no_image)
  <2>1. UNCHANGED <<result, stack, live>>
    BY <1>3 DEF Precleanup
  <2> QED
    BY <1>1, <2>1
<1>4. CASE result = NoResult /\ ~test.def.no_image
  <2>1. PICK th \in Range(cleanup_stacks) : CompareImage(th)
    BY <1>4 DEF Precleanup
  <2>2. /\ th \in Thread /\ result' \in {result, FAIL}
        /\ \/ stack' = stack /\ live' = live
           \/ Added(stack, live, th, ActualImage, stack', live')
           \/ \E x, l : /\ Added(stack, live, th, ActualImage, x, l)
                        /\ Added(x, l, th, ActualStencilImage, stack', live')
    BY <1>1, <1>4, <2>1, Comparing
  <2>3. th = "user" => cleanup_stacks = <<"user", "start">>
    BY ListIs DEF IInv, Basics
  <2>4. ActualImage.object = "actual_image" /\ "actual_image" \notin DOMAIN live
    BY <1>2 DEF ActualImage, Create, ActualObject
  <2>5. CASE stack' = stack /\ live' = live
    BY <1>1, <2>2, <2>5
  <2>6. CASE Added(stack, live, th, ActualImage, stack', live')
    <3>1. /\ Stacked(stack', live') /\ (AllOnStacks(stack, live) => AllOnStacks(stack', live'))
          /\ \A t2 \in Thread : t2 # th => stack'[t2] = stack[t2]
          /\ DOMAIN live' = DOMAIN live \cup {"actual_image"}
      BY <2>4, <2>6 DEF Added
    <3>2. th # "user" => stack'["user"] = stack["user"]
      BY <3>1 DEF Thread
    <3> QED
      BY <2>2, <2>3, <2>4, <3>1, <3>2
  <2>7. CASE \E x, l : /\ Added(stack, live, th, ActualImage, x, l)
                       /\ Added(x, l, th, ActualStencilImage, stack', live')
    <3>1. PICK x, l : /\ Added(stack, live, th, ActualImage, x, l)
                      /\ Added(x, l, th, ActualStencilImage, stack', live')
      BY <2>7
    <3>2. /\ (AllOnStacks(stack, live) => AllOnStacks(x, l))
          /\ \A t2 \in Thread : t2 # th => x[t2] = stack[t2]
          /\ DOMAIN l = DOMAIN live \cup {"actual_image"}
      BY <2>4, <3>1 DEF Added
    <3>3. /\ Stacked(stack', live') /\ (AllOnStacks(x, l) => AllOnStacks(stack', live'))
          /\ \A t2 \in Thread : t2 # th => stack'[t2] = x[t2]
          /\ DOMAIN l \subseteq DOMAIN live'
      BY <3>1 DEF Added
    <3>4. th # "user" => stack'["user"] = stack["user"]
      BY <3>2, <3>3 DEF Thread
    <3> QED
      BY <2>2, <2>3, <2>4, <3>2, <3>3, <3>4
  <2> QED
    BY <2>2, <2>5, <2>6, <2>7
<1> QED
  BY <1>3, <1>4

LEMMA PrecleanupKeeps == IInv /\ Precleanup => IInv'
<1> SUFFICES ASSUME IInv, Precleanup PROVE IInv'
  OBVIOUS
<1>1. /\ phase = PRECLEANUP /\ phase' = CLEANUP
      /\ t_queue' = IF "queue" \in DOMAIN live THEN "idle" ELSE t_queue
      /\ UNCHANGED <<test, pc, running, cleanup_stacks, scratch, done>> /\ UNCHANGED arrays
  BY DEF Precleanup, threads, memories
<1>2. /\ result' \in {result, FAIL}
      /\ Stacked(stack', live') /\ (AllOnStacks(stack, live) => AllOnStacks(stack', live'))
      /\ cleanup_stacks # <<"user", "start">> => stack'["user"] = stack["user"]
  BY PrecleanupStacks
<1>3. InSetup' /\ Arrays' /\ Scratched' /\ St' = St /\ MadeBySetup' = MadeBySetup
  BY <1>1, AfterSetup DEF SETUP, PRECLEANUP, CLEANUP
<1>4. t_queue' # "busy"
  <2>1. t_queue = "busy" => "queue" \in DOMAIN live
    BY <1>1 DEF IInv, BusyQueue, MAIN, PRECLEANUP
  <2> QED
    BY <1>1, <2>1
<1>5. Basics'
  <2>1. result' \in Result \cup {NoResult}
    BY <1>2 DEF IInv, Basics, Result, PASS, FAIL, LOST
  <2>2. t_queue' \in {"idle", "busy", "lost"}
    BY <1>1 DEF IInv, Basics
  <2> QED
    BY <1>1, <1>3, <2>1, <2>2 DEF IInv, Basics
<1>6. BeforeUnwinding' /\ SetupComplete' /\ BusyQueue'
  BY <1>1, <1>4 DEF BeforeUnwinding, Unwinding, SetupComplete, BusyQueue, MAIN, PRECLEANUP, CLEANUP
<1>7. ListedStacks'
  <2>1. cleanup_stacks # <<>>
    BY <1>1 DEF IInv, BeforeUnwinding, Unwinding, PRECLEANUP, CLEANUP, STOPPED
  <2> QED
    BY <1>1, <1>2, <2>1 DEF IInv, ListedStacks, SETUP, MAIN, PRECLEANUP, CLEANUP, STOPPED
<1>8. ~test'.opt.no_cleanup => AllOnStacks(stack', live')
  BY <1>1, <1>2 DEF IInv
<1> QED
  BY <1>2, <1>3, <1>5, <1>6, <1>7, <1>8 DEF IInv

(* A wait that fails leaves the stacks as they are.                         *)
LEMMA WaitFailsKeeps == IInv /\ WaitFails => IInv'
<1> SUFFICES ASSUME IInv, WaitFails PROVE IInv'
  OBVIOUS
<1>1. /\ phase = PRECLEANUP /\ phase' = CLEANUP /\ t_queue' = "lost"
      /\ result' = (IF result = NoResult THEN FAIL ELSE result)
      /\ UNCHANGED <<test, pc, running, cleanup_stacks, stack, live, scratch, done>>
      /\ UNCHANGED arrays
  BY DEF WaitFails, threads, memories
<1>2. InSetup' /\ Arrays' /\ Scratched' /\ St' = St /\ MadeBySetup' = MadeBySetup
  BY <1>1, AfterSetup DEF SETUP, PRECLEANUP, CLEANUP
<1>3. Basics'
  <2>1. result' \in Result \cup {NoResult}
    BY <1>1 DEF IInv, Basics, Result, PASS, FAIL, LOST
  <2> QED
    BY <1>1, <1>2, <2>1 DEF IInv, Basics
<1>4. BeforeUnwinding' /\ SetupComplete' /\ BusyQueue'
  BY <1>1 DEF BeforeUnwinding, Unwinding, SetupComplete, BusyQueue, MAIN, PRECLEANUP, CLEANUP
<1>5. ListedStacks'
  BY <1>1 DEF IInv, ListedStacks, SETUP, MAIN, PRECLEANUP, CLEANUP, STOPPED
<1>6. Stacked(stack', live') /\ (~test'.opt.no_cleanup => AllOnStacks(stack', live'))
  BY <1>1 DEF IInv
<1> QED
  BY <1>2, <1>3, <1>4, <1>5, <1>6 DEF IInv

(* The next command is the last one of the first stack.                     *)
LEMMA Unwinds ==
    ASSUME IInv, Unwind
    PROVE  \E th \in Thread :
              /\ Taken(stack, live, th, stack') /\ th = Head(cleanup_stacks)
              /\ \/ test.opt.no_cleanup /\ live' = live /\ done' = done
                 \/ /\ Destroyed(stack, live, th, live')
                    /\ done' = [done EXCEPT ![th] = PoppedObject(stack[th])]
<1> DEFINE th == Head(cleanup_stacks)
<1>1. /\ cleanup_stacks # <<>> /\ stack[th].len > 0 /\ stack' = [stack EXCEPT ![th] = PopCommand(@)]
      /\ IF test.opt.no_cleanup THEN UNCHANGED <<live, done>>
         ELSE /\ live' = Restrict(live, DOMAIN live \ {PoppedObject(stack[th])})
              /\ done' = [done EXCEPT ![th] = PoppedObject(stack[th])]
  BY DEF Unwind
<1>2. th \in Thread /\ (th = "start" => cleanup_stacks = <<"start">>)
  BY <1>1, ListIs DEF IInv, Basics
<1>3. <<"start">> # <<"user", "start">>
  OBVIOUS
<1> HIDE DEF th
<1>4. th = "start" => Headers(stack["user"]) = {}
  BY <1>2, <1>3 DEF IInv, ListedStacks
<1>5. Taking(stack, live, th, stack')
  BY <1>1, <1>2, <1>4 DEF IInv, Taking
<1>6. Taken(stack, live, th, stack')
  BY <1>5, PopKeeps
<1>7. ~test.opt.no_cleanup => Destroyed(stack, live, th, live')
  BY <1>1 DEF IInv, Destroyed
<1>8. \/ test.opt.no_cleanup /\ live' = live /\ done' = done
      \/ /\ Destroyed(stack, live, th, live')
         /\ done' = [done EXCEPT ![th] = PoppedObject(stack[th])]
  BY <1>1, <1>7
<1> QED
  BY <1>2, <1>6, <1>8 DEF th

LEMMA UnwindKeeps == IInv /\ Unwind => IInv'
<1> SUFFICES ASSUME IInv, Unwind PROVE IInv'
  OBVIOUS
<1>1. /\ phase = CLEANUP
      /\ UNCHANGED <<test, phase, result, pc, running, cleanup_stacks, scratch, t_queue>>
      /\ UNCHANGED arrays
  BY DEF Unwind, threads, memories
<1>2. InSetup' /\ Arrays' /\ Scratched' /\ St' = St /\ MadeBySetup' = MadeBySetup
  BY <1>1, AfterSetup DEF SETUP, CLEANUP
<1>3. PICK th \in Thread :
         /\ Taken(stack, live, th, stack')
         /\ \/ test.opt.no_cleanup /\ live' = live
            \/ Destroyed(stack, live, th, live')
  BY Unwinds
<1>4. /\ Stacked(stack', live)
      /\ \A t2 \in Thread : Headers(stack'[t2]) \subseteq Headers(stack[t2])
      /\ Destroyed(stack, live, th, live') => Stacked(stack', live') /\ AllOnStacks(stack', live')
  BY <1>3 DEF Taken
<1>5. Stacked(stack', live') /\ (~test'.opt.no_cleanup => AllOnStacks(stack', live'))
  BY <1>1, <1>3, <1>4
<1>6. Basics'
  BY <1>1, <1>2 DEF IInv, Basics
<1>7. t_queue # "busy"
  BY <1>1 DEF IInv, BusyQueue, MAIN, PRECLEANUP, CLEANUP
<1>8. BeforeUnwinding' /\ SetupComplete' /\ BusyQueue'
  BY <1>1, <1>7 DEF BeforeUnwinding, Unwinding, SetupComplete, BusyQueue, MAIN, PRECLEANUP, CLEANUP
<1>9. Headers(stack'["user"]) \subseteq Headers(stack["user"])
      /\ Headers(stack'["start"]) \subseteq Headers(stack["start"])
  BY <1>4 DEF Thread
<1>10. ListedStacks'
  <2>1. /\ cleanup_stacks # <<"user", "start">> => Headers(stack'["user"]) = {}
        /\ cleanup_stacks = <<>> => Headers(stack'["start"]) = {}
    BY <1>9 DEF IInv, ListedStacks
  <2> QED
    BY <1>1, <2>1 DEF IInv, ListedStacks
<1> QED
  BY <1>2, <1>5, <1>6, <1>8, <1>10 DEF IInv

LEMMA ReleaseStackKeeps == IInv /\ ReleaseStack => IInv'
<1> SUFFICES ASSUME IInv, ReleaseStack PROVE IInv'
  OBVIOUS
<1> DEFINE th == Head(cleanup_stacks)
<1>1. /\ phase = CLEANUP /\ cleanup_stacks # <<>> /\ stack[th].len = 0
      /\ cleanup_stacks' = Tail(cleanup_stacks)
      /\ UNCHANGED <<test, phase, result, pc, running, stack, live, scratch, t_queue>>
      /\ UNCHANGED arrays
  BY DEF ReleaseStack, memories
<1>2. InSetup' /\ Arrays' /\ Scratched' /\ St' = St /\ MadeBySetup' = MadeBySetup
  BY <1>1, AfterSetup DEF SETUP, CLEANUP
<1>3. Headers(stack[th]) = {}
  BY <1>1 DEF Headers
<1>4. /\ th \in Thread /\ (th = "start" <=> cleanup_stacks = <<"start">>)
      /\ th = "user" => cleanup_stacks' = <<"start">>
      /\ th = "start" => cleanup_stacks' = <<>>
  BY <1>1, ListIs DEF IInv, Basics
<1>5. <<"start">> # <<"user", "start">> /\ <<"start">> # <<>> /\ <<"user", "start">> # <<>>
  OBVIOUS
<1> HIDE DEF th
<1>6. Basics'
  <2>1. cleanup_stacks' \in {<<>>, <<"start">>, <<"user", "start">>}
    BY <1>4 DEF Thread
  <2> QED
    BY <1>1, <1>2, <2>1 DEF IInv, Basics
<1>7. t_queue # "busy"
  BY <1>1 DEF IInv, BusyQueue, MAIN, PRECLEANUP, CLEANUP
<1>8. BeforeUnwinding' /\ SetupComplete' /\ BusyQueue'
  BY <1>1, <1>7 DEF BeforeUnwinding, Unwinding, SetupComplete, BusyQueue, MAIN, PRECLEANUP, CLEANUP
<1>9. running = {}
  BY <1>1 DEF IInv, ListedStacks, SETUP, MAIN, CLEANUP
<1>10. Headers(stack["user"]) = {}
  BY <1>3, <1>4, <1>5 DEF IInv, ListedStacks, Thread
<1>11. cleanup_stacks' = <<>> => Headers(stack["start"]) = {}
  BY <1>3, <1>4, <1>5 DEF Thread
<1>12. ListedStacks'
  BY <1>1, <1>9, <1>10, <1>11 DEF ListedStacks, CLEANUP, STOPPED
<1>13. Stacked(stack', live') /\ (~test'.opt.no_cleanup => AllOnStacks(stack', live'))
  BY <1>1 DEF IInv
<1> QED
  BY <1>2, <1>6, <1>8, <1>12, <1>13 DEF IInv

LEMMA StopKeeps == IInv /\ Stop => IInv'
<1> SUFFICES ASSUME IInv, Stop PROVE IInv'
  OBVIOUS
<1>1. /\ phase = CLEANUP /\ cleanup_stacks = <<>> /\ phase' = STOPPED
      /\ result' = (IF result = NoResult THEN PASS ELSE result)
      /\ UNCHANGED <<test, pc, running, cleanup_stacks, stack, live, scratch, t_queue>>
      /\ UNCHANGED arrays
  BY DEF Stop, threads, memories
<1>2. InSetup' /\ Arrays' /\ Scratched' /\ St' = St /\ MadeBySetup' = MadeBySetup
  BY <1>1, AfterSetup DEF SETUP, CLEANUP, STOPPED
<1>3. Basics'
  <2>1. result' \in Result \cup {NoResult}
    BY <1>1 DEF IInv, Basics, Result, PASS, LOST
  <2> QED
    BY <1>1, <1>2, <2>1 DEF IInv, Basics
<1>4. t_queue # "busy"
  BY <1>1 DEF IInv, BusyQueue, MAIN, PRECLEANUP, CLEANUP
<1>5. BeforeUnwinding' /\ SetupComplete' /\ BusyQueue'
  BY <1>1, <1>4 DEF BeforeUnwinding, Unwinding, SetupComplete, BusyQueue, MAIN, PRECLEANUP, STOPPED
<1>6. ListedStacks'
  BY <1>1 DEF IInv, ListedStacks, SETUP, MAIN, CLEANUP
<1>7. Stacked(stack', live') /\ (~test'.opt.no_cleanup => AllOnStacks(stack', live'))
  BY <1>1 DEF IInv
<1> QED
  BY <1>2, <1>3, <1>5, <1>6, <1>7 DEF IInv

LEMMA NothingKeeps == IInv /\ UNCHANGED vars => IInv'
<1> SUFFICES ASSUME IInv, UNCHANGED vars PROVE IInv'
  OBVIOUS
<1>1. /\ UNCHANGED <<test, phase, result, pc, running, cleanup_stacks, stack, live, scratch, t_queue>>
      /\ UNCHANGED arrays
  BY DEF vars, arrays
<1>2. St' = St /\ MadeBySetup' = MadeBySetup /\ Step' = Step /\ \A s : Past(s)' <=> Past(s)
  BY <1>1, SamePlace
<1>3. Basics' /\ InSetup' /\ BeforeUnwinding' /\ SetupComplete' /\ ListedStacks' /\ BusyQueue' /\ Scratched'
  BY <1>1, <1>2 DEF IInv, Basics, InSetup, BeforeUnwinding, Unwinding, SetupComplete, ListedStacks,
                    BusyQueue, Scratched
<1>4. Arrays'
  BY <1>1, <1>2 DEF IInv, Arrays, arrays
<1>5. Stacked(stack', live') /\ (~test'.opt.no_cleanup => AllOnStacks(stack', live'))
  BY <1>1 DEF IInv
<1> QED
  BY <1>3, <1>4, <1>5 DEF IInv

LEMMA NextKeeps == IInv /\ [Next]_vars => IInv'
<1> SUFFICES ASSUME IInv, [Next]_vars PROVE IInv'
  OBVIOUS
<1>1. CASE \E th \in Thread : UserCreate(th) \/ UserEnd(th)
  BY <1>1, UserCreateKeeps, UserEndKeeps
<1>2. CASE Ended
  BY <1>2, NothingKeeps DEF Ended
<1>3. CASE UNCHANGED vars
  BY <1>3, NothingKeeps
<1> QED
  BY <1>1, <1>2, <1>3, SetupCreateKeeps, SetupMallocKeeps, SetupMemoryKeeps, SetupFailsKeeps,
     PhysDevKeeps, ChooseQueueKeeps, FeaturesKeeps, GetQueuesKeeps, FillCmdPoolsKeeps, AllocateCommandBufferKeeps,
     BeginCommandBufferKeeps, UserStartThreadKeeps, UserSubmitKeeps, PrecleanupKeeps, WaitFailsKeeps,
     UnwindKeeps, ReleaseStackKeeps, StopKeeps
     DEF Next

LEMMA Invariance == Spec => []IInv
<1> QED
  BY InitIsGood, NextKeeps, PTL DEF Spec

(* Nothing but the memory of the test's two images is allocated apart from  *)
(* the stacks.                                                              *)
Allocated == image_memory \subseteq ImageMemory
LEMMA MemoryKeeps == IInv /\ Allocated /\ [Next]_vars => Allocated'
<1> SUFFICES ASSUME IInv, Allocated, [Next]_vars PROVE Allocated'
  OBVIOUS
<1>1. CASE SetupMemory
  <2>1. phase = SETUP /\ Step.do = "memory" /\ image_memory' \in {image_memory, image_memory \cup {Step.object}}
    BY <1>1 DEF SetupMemory, AtStep
  <2>2. Step.object \in ImageMemory
    BY <2>1, SetupNow DEF SetupStep, Looks
  <2> QED
    BY <2>1, <2>2 DEF Allocated
<1>2. CASE image_memory' = image_memory
  BY <1>2 DEF Allocated
<1>3. SetupMemory \/ image_memory' = image_memory
  <2>1. CASE \E th \in Thread : UserCreate(th) \/ UserEnd(th)
    BY <2>1 DEF UserCreate, UserEnd, memories
  <2>2. CASE \/ UserStartThread \/ UserSubmit \/ Precleanup \/ WaitFails \/ Unwind \/ ReleaseStack
             \/ Stop \/ Ended \/ UNCHANGED vars
    BY <2>2 DEF UserStartThread, UserSubmit, Precleanup, WaitFails, Unwind, ReleaseStack, Stop, Ended,
                vars, memories
  <2>3. CASE SetupCreate \/ SetupMalloc \/ SetupFails \/ PhysDev \/ ChooseQueue \/ Features
    BY <2>3 DEF SetupCreate, SetupMalloc, SetupFails, PhysDev, ChooseQueue, Features, EndSetup
  <2>4. CASE GetQueues \/ FillCmdPools \/ AllocateCommandBuffer \/ BeginCommandBuffer
    BY <2>4 DEF GetQueues, FillCmdPools, AllocateCommandBuffer, BeginCommandBuffer
  <2> QED
    BY <2>1, <2>2, <2>3, <2>4 DEF Next
<1> QED
  BY <1>1, <1>2, <1>3

-----------------------------------------------------------------------------
(* Every variable keeps its type, and the bytes of every stack are whole    *)
(* commands, each followed by the header that sizes it, whatever sequence   *)
(* of pushes and pops has grown the vector and left bytes behind.           *)
THEOREM TypeCorrect == Spec => []TypeOK
<1>1. IInv /\ Allocated => TypeOK
  <2> SUFFICES ASSUME IInv, Allocated PROVE TypeOK
    OBVIOUS
  <2>1. \A th \in Thread : WellFormed(stack[th])
    BY DEF IInv, Stacked, Coded
  <2>2. phase \in Phase
    BY DEF IInv, Basics, Phase, PRESTART, SETUP, MAIN, PRECLEANUP, CLEANUP, STOPPED
  <2> QED
    BY <2>1, <2>2 DEF IInv, Basics, TypeOK, St, Allocated
<1>2. Init => Allocated
  BY DEF Init, Allocated
<1> QED
  BY <1>1, <1>2, MemoryKeeps, Invariance, PTL DEF Spec

(* Whatever step of setup fails and whichever thread made what, an object   *)
(* that has a command on a stack never outlives one that it was made from:  *)
(* t_unwind_cleanup_stacks() takes the threads' stacks before that of the   *)
(* thread that ran setup, and each from its top.  The memory of the test's  *)
(* images has no command, and is not among the objects of live.             *)
THEOREM NothingOutlivesItsParents == Spec => []ParentsOutlive
<1>1. IInv => ParentsOutlive
  BY DEF IInv, Stacked, ParentsLive, ParentsOutlive
<1> QED
  BY <1>1, Invariance, PTL

(* When the test has stopped, every object that a command was pushed for is *)
(* destroyed, unless --no-cleanup was given, however far setup, the start   *)
(* function and the comparison came; what t_setup_vulkan() frees by itself  *)
(* leaks in two places only.  It says nothing of the memory of the test's   *)
(* images, for which no command is pushed.                                  *)
THEOREM EverythingIsDestroyed == Spec => []AllDestroyed
<1>1. IInv => AllDestroyed
  <2> SUFFICES ASSUME IInv, phase = STOPPED
               PROVE  /\ ~test.opt.no_cleanup => DOMAIN live = {}
                      /\ scratch # {} => Step.do \in {"malloc", "features"}
    BY DEF AllDestroyed
  <2>1. cleanup_stacks = <<>>
    BY DEF IInv, ListedStacks
  <2>2. <<>> # <<"user", "start">>
    OBVIOUS
  <2>3. Headers(stack["start"]) = {} /\ Headers(stack["user"]) = {}
    BY <2>1, <2>2 DEF IInv, ListedStacks
  <2>4. OnStack(stack["start"]) = {} /\ OnStack(stack["user"]) = {}
    BY <2>3 DEF OnStack
  <2>5. ~test.opt.no_cleanup => DOMAIN live = {}
    BY <2>4 DEF IInv, AllOnStacks
  <2>6. scratch # {} => Step.do \in {"malloc", "features"}
    BY DEF IInv, Scratched, Holds, SETUP, STOPPED
  <2> QED
    BY <2>5, <2>6
<1> QED
  BY <1>1, Invariance, PTL

(* The queue, its family and the command pool that a test gets are those of *)
(* its number, on every device, and fit what its definition asks for.       *)
THEOREM TheRightQueue == Spec => []QueueFits
<1>1. IInv => QueueFits
  <2> SUFFICES ASSUME IInv, phase = MAIN PROVE QueueFits
    BY DEF QueueFits
  <2>1. test \in Tests /\ pc = Len(St)
    BY InMain
  <2>2. Past(Do("choose_queue")) /\ Past(Do("get_queues")) /\ Past(Do("fill_cmd_pools"))
    BY <2>1, SetupMade
  <2>3. /\ ~QueueSkipped(test, chosen) /\ queue[test.opt.queue_num + 1] = chosen
        /\ TCmdPool = CmdPoolOf[chosen.family]
    BY <2>2, TheQueue
  <2> DEFINE flags == test.device.families[chosen.family].flags
             bare == flags \ {"sparse"}
             qf == IF bare \cap {"graphics", "compute"} # {} THEN bare \ {"transfer"} ELSE bare
             asked == test.def.queue_setup
  <2>4. /\ ~(~test.opt.run_all_queues /\ chosen.in_family # 0)
        /\ ~(asked = "gfx_and_compute" /\ qf # {"graphics", "compute"})
        /\ ~(asked = "graphics" /\ "graphics" \notin qf)
        /\ ~(asked = "compute" /\ "compute" \notin qf)
        /\ ~(asked = "transfer" /\ qf = {})
    BY <2>3 DEF QueueSkipped
  <2>5. qf \subseteq flags /\ "sparse" \notin qf
    OBVIOUS
  <2> HIDE DEF flags, bare, qf, asked
  <2>6. /\ chosen.in_family = 0 \/ test.opt.run_all_queues
        /\ asked \in {"gfx_and_compute", "graphics"} => "graphics" \in flags
        /\ asked \in {"gfx_and_compute", "compute"} => "compute" \in flags
        /\ asked = "transfer" => flags # {"sparse"} /\ flags # {}
    BY <2>4, <2>5
  <2> QED
    BY <2>3, <2>6 DEF QueueFits, flags, asked
<1> QED
  BY <1>1, Invariance, PTL

(* With the numbers that the runner goes through, the first queue of every  *)
(* family is reached once, whatever families the device has.                *)
THEOREM EachFamilyIsReached == Spec => []EveryFamilyReached
<1>1. IInv => EveryFamilyReached
  <2> SUFFICES ASSUME IInv, test.opt.device_id = 1, NEW f \in DOMAIN test.device.families
               PROVE  Cardinality({num \in 0 .. RunnerQueueCount(test) - 1 :
                         QueueChoice(test.device.families, num) = [family |-> f, in_family |-> 0]}) = 1
    BY DEF EveryFamilyReached
  <2>1. test \in Tests
    BY DEF IInv, Basics
  <2>2. test.device.families \in Seq(Family) /\ test.device.first_families = test.device.families
    BY <2>1, TestAssumption DEF Test
  <2> QED
    BY <2>2, EachFamilyOnce DEF RunnerQueueCount
<1> QED
  BY <1>1, Invariance, PTL

(* Nothing is destroyed while t_queue may be busy: only the commands on the *)
(* stacks destroy, and when they are run t_enter_precleanup_phase() has     *)
(* waited, be it that its wait succeeded or failed, or nobody has submitted *)
(* anything.                                                                *)
THEOREM TeardownIsIdle == Spec => IdleAtTeardown
<1> DEFINE Destroys == DOMAIN live' \subseteq DOMAIN live /\ live' # live
<1>1. IInv /\ [Next]_vars => [Destroys => t_queue # "busy"]_vars
  <2> SUFFICES ASSUME IInv, Next, Destroys PROVE t_queue # "busy"
    BY DEF vars
  <2>1. CASE phase = SETUP
    BY <2>1 DEF IInv, InSetup
  <2>2. CASE phase = CLEANUP
    BY <2>2 DEF IInv, BusyQueue, MAIN, PRECLEANUP, CLEANUP
  <2>3. ASSUME NEW th \in Thread, UserCreate(th) PROVE FALSE
    <3>1. PICK s \in UserObjects : s.object \notin DOMAIN live /\ Push(th, s)
      BY <2>3 DEF UserCreate
    <3>2. s.object \in DOMAIN live'
      BY <3>1 DEF Push, Made
    <3> QED
      BY <3>1, <3>2
  <2>4. CASE Precleanup
    <3>1. live' = live \/ "actual_image" \in DOMAIN live' \ DOMAIN live
      BY <2>4, PrecleanupStacks
    <3> QED
      BY <3>1
  <2>5. CASE live' = live
    BY <2>5
  <2>6. \/ phase \in {SETUP, CLEANUP} \/ live' = live \/ Precleanup
        \/ \E th \in Thread : UserCreate(th)
    <3>1. CASE \E th \in Thread : UserCreate(th) \/ UserEnd(th)
      BY <3>1 DEF UserEnd
    <3>2. CASE UserStartThread \/ UserSubmit \/ WaitFails \/ Stop \/ Ended
      BY <3>2 DEF UserStartThread, UserSubmit, WaitFails, Stop, Ended, vars
    <3>3. CASE \/ SetupCreate \/ SetupMalloc \/ SetupMemory \/ SetupFails \/ PhysDev \/ ChooseQueue \/ Features
               \/ GetQueues \/ FillCmdPools \/ AllocateCommandBuffer \/ BeginCommandBuffer
      BY <3>3 DEF SetupCreate, SetupMalloc, SetupMemory, SetupFails, PhysDev, ChooseQueue, Features, GetQueues,
                  FillCmdPools, AllocateCommandBuffer, BeginCommandBuffer, AtStep
    <3>4. CASE Unwind \/ ReleaseStack
      BY <3>4 DEF Unwind, ReleaseStack
    <3> QED
      BY <3>1, <3>2, <3>3, <3>4 DEF Next
  <2> QED
    BY <2>1, <2>2, <2>3, <2>4, <2>5, <2>6
<1> QED
  BY <1>1, Invariance, PTL DEF Spec, IdleAtTeardown

-----------------------------------------------------------------------------
(* What each stack does, seen as the sequence of its commands.              *)

(* A stack always decodes to a sequence of commands.                        *)
LEMMA CommandsType == ASSUME NEW v, Coded(v) PROVE Commands(v) \in Seq(Cmd)
<1>1. PICK upto \in [Headers(v) \cup {0} -> Seq(Cmd)] : Tells(v, upto)
  BY DEF Coded, Decodable
<1> QED
  BY <1>1, Decoding

(* What one more element does to a sequence of commands.                    *)
LEMMA OneLonger ==
    ASSUME NEW s \in Seq(Cmd), NEW c \in Cmd
    PROVE  /\ Append(s, c) \in Seq(Cmd) /\ Append(s, c) # <<>> /\ Len(Append(s, c)) = Len(s) + 1
           /\ Front(Append(s, c)) = s /\ Last(Append(s, c)) = c
           /\ Range(Append(s, c)) = Range(s) \cup {c}
           /\ IsStrictPrefix(s, Append(s, c))
<1> DEFINE t == Append(s, c)
           n == Len(s)
<1>1. n \in Nat /\ t \in Seq(Cmd) /\ Len(t) = n + 1 /\ t[n + 1] = c /\ \A i \in 1 .. n : t[i] = s[i]
  OBVIOUS
<1>2. s \in Seq(Cmd)
  OBVIOUS
<1> HIDE DEF t
<1>3. SubSeq(t, 1, n) = s
  <2> DEFINE u == SubSeq(t, 1, n)
  <2>1. u \in Seq(Cmd) /\ Len(u) = n
    BY <1>1
  <2>2. \A i \in 1 .. n : u[i] = t[i]
    BY <1>1
  <2> HIDE DEF u
  <2>3. u = s
    BY <1>1, <1>2, <2>1, <2>2
  <2> QED
    BY <2>3 DEF u
<1>4. SubSeq(s, 1, n) = s
  OBVIOUS
<1>5. Front(t) = s
  <2>1. Len(t) - 1 = n
    BY <1>1
  <2> QED
    BY <1>3, <2>1 DEF Front
<1>6. Last(t) = c
  BY <1>1 DEF Last
<1>7. Range(t) = Range(s) \cup {c}
  <2>1. DOMAIN t = 1 .. n + 1 /\ DOMAIN s = 1 .. n
    BY <1>1
  <2>2. 1 .. n + 1 = (1 .. n) \cup {n + 1}
    BY <1>1
  <2> QED
    BY <1>1, <2>1, <2>2 DEF Range
<1>8. t # <<>> /\ t # s
  BY <1>1
<1>9. IsStrictPrefix(s, t)
  BY <1>1, <1>3, <1>4, <1>8 DEF IsStrictPrefix, IsPrefix
<1> QED
  BY <1>1, <1>5, <1>6, <1>7, <1>8, <1>9 DEF t

(* And what two more do.                                                    *)
LEMMA TwoLonger ==
    ASSUME NEW s \in Seq(Cmd), NEW c \in Cmd, NEW d \in Cmd
    PROVE  IsStrictPrefix(s, Append(Append(s, c), d))
<1> DEFINE t == Append(s, c)
           u == Append(t, d)
           n == Len(s)
<1>1. t \in Seq(Cmd) /\ Len(t) = n + 1 /\ n \in Nat /\ \A i \in 1 .. n : t[i] = s[i]
  OBVIOUS
<1> HIDE DEF t
<1>2. u \in Seq(Cmd) /\ Len(u) = n + 2 /\ \A i \in 1 .. n + 1 : u[i] = t[i]
  BY <1>1
<1> HIDE DEF u
<1>3. SubSeq(u, 1, n) = s
  <2> DEFINE w == SubSeq(u, 1, n)
  <2>1. w \in Seq(Cmd) /\ Len(w) = n
    BY <1>1, <1>2
  <2>2. \A i \in 1 .. n : w[i] = u[i]
    BY <1>1, <1>2
  <2>3. \A i \in 1 .. n : i \in 1 .. n + 1
    BY <1>1
  <2> HIDE DEF w
  <2>4. w = s
    BY <1>1, <1>2, <2>1, <2>2, <2>3
  <2> QED
    BY <2>4 DEF w
<1>4. SubSeq(s, 1, n) = s
  OBVIOUS
<1>5. IsStrictPrefix(s, u)
  BY <1>1, <1>2, <1>3, <1>4 DEF IsStrictPrefix, IsPrefix
<1> QED
  BY <1>5 DEF u, t

(* Everything that is ever pushed may be, and each thread has done          *)
(* something last.                                                          *)
Promised ==
    /\ done = [th \in Thread |-> done[th]]
    /\ \A th \in Thread : Range(Commands(stack[th])) \subseteq Pushables

(* One step of one stack, as UnwindStack has it.                            *)
Promise(a, d, b, e) ==
    \/ b = a /\ e = d
    \/ IsStrictPrefix(a, b) /\ Range(b) \subseteq Pushables /\ e = d
    \/ a # <<>> /\ b = Front(a) /\ (e = Last(a).object \/ e = d)

(* Every command that a step of the model pushes is one of Pushables.       *)
LEMMA MayBePushed ==
    ASSUME test \in Tests
    PROVE  /\ pc \in 0 .. Len(St) /\ pc < Len(St) /\ Step.do = "create" =>
                  Command(Step.kind, Step.object) \in Pushables
           /\ \A s \in UserObjects : Command(s.kind, s.object) \in Pushables
           /\ Command("vk_pooled", "cmd_buffer") \in Pushables
           /\ Command(ActualImage.kind, ActualImage.object) \in Pushables
           /\ Command(ActualStencilImage.kind, ActualStencilImage.object) \in Pushables
<1>1. \A s \in AllSteps : s.do = "create" => Command(s.kind, s.object) \in Pushables
  BY DEF Pushables
<1>2. pc \in 0 .. Len(St) /\ pc < Len(St) => Step \in AllSteps
  <2> HAVE pc \in 0 .. Len(St) /\ pc < Len(St)
  <2>1. St \in Seq(SetupStep) /\ Len(St) \in Nat
    BY StepAt
  <2>2. DOMAIN St = 1 .. Len(St) /\ pc + 1 \in 1 .. Len(St)
    BY <2>1
  <2>3. Step \in Range(St)
    BY <2>2 DEF Step, St, Range
  <2> QED
    BY <2>3 DEF AllSteps, St
<1>3. UserObjects \subseteq AllSteps /\ \A s \in UserObjects : s.do = "create"
  <2>1. UserObjects \subseteq AllSteps
    BY DEF AllSteps
  <2> QED
    BY <2>1, NamesOfSteps
<1>4. {ActualImage, ActualStencilImage} \subseteq AllSteps
      /\ ActualImage.do = "create" /\ ActualStencilImage.do = "create"
  <2>1. ActualImage.do = "create" /\ ActualStencilImage.do = "create"
    BY DEF ActualImage, ActualStencilImage, Create
  <2>2. ActualImage \in AllSteps /\ ActualStencilImage \in AllSteps
    BY DEF AllSteps
  <2> QED
    BY <2>1, <2>2
<1>5. Command("vk_pooled", "cmd_buffer") \in Pushables
  BY DEF Pushables
<1> QED
  BY <1>1, <1>2, <1>3, <1>4, <1>5

(* What may happen to one stack: a step that may be pushed is, or two are,  *)
(* or the last command is popped.                                           *)
MayPush(s) == Command(s.kind, s.object) \in Cmd \cap Pushables
InOrder(v, w) ==
    /\ Range(Commands(w)) \subseteq Pushables
    /\ IsStrictPrefix(Commands(v), Commands(w))

LEMMA PushInOrder ==
    ASSUME NEW v, Coded(v), Range(Commands(v)) \subseteq Pushables, NEW s, MayPush(s)
    PROVE  Coded(Pushed(v, s)) /\ InOrder(v, Pushed(v, s))
<1> DEFINE c == Command(s.kind, s.object)
           a == Commands(v)
           w == Pushed(v, s)
<1>1. c \in Cmd /\ c \in Pushables
  BY DEF MayPush
<1>2. w = PushCommand(v, c)
  BY DEF Pushed
<1> HIDE DEF c, w
<1>3. Coded(w) /\ Commands(w) = Append(a, c)
  BY <1>1, <1>2, PushAdds DEF Adds
<1>4. a \in Seq(Cmd)
  BY CommandsType
<1> HIDE DEF a
<1>5. Range(Append(a, c)) = Range(a) \cup {c} /\ IsStrictPrefix(a, Append(a, c))
  BY <1>1, <1>4, OneLonger
<1>6. Range(a) \subseteq Pushables
  BY DEF a
<1>7. InOrder(v, w)
  BY <1>1, <1>3, <1>5, <1>6 DEF InOrder, a
<1> QED
  BY <1>3, <1>7 DEF w

(* The same of the two images that t_compare_image() may push in one step.  *)
LEMMA PushBothInOrder ==
    ASSUME NEW v, Coded(v), Range(Commands(v)) \subseteq Pushables, NEW s, NEW r, MayPush(s), MayPush(r)
    PROVE  InOrder(v, Pushed(Pushed(v, s), r))
<1> DEFINE c == Command(s.kind, s.object)
           d == Command(r.kind, r.object)
           a == Commands(v)
           w == Pushed(v, s)
           u == Pushed(w, r)
<1>1. c \in Cmd /\ d \in Cmd
  BY DEF MayPush
<1>2. Coded(w) /\ InOrder(v, w)
  BY PushInOrder
<1>3. Commands(w) = Append(a, c)
  BY <1>1, PushAdds DEF Adds, Pushed
<1>4. a \in Seq(Cmd)
  BY CommandsType
<1> HIDE DEF w
<1>5. InOrder(w, u)
  BY <1>2, PushInOrder DEF InOrder
<1>6. Commands(u) = Append(Commands(w), d)
  BY <1>1, <1>2, PushAdds DEF Adds, Pushed
<1> HIDE DEF u, c, d, a
<1>7. IsStrictPrefix(a, Commands(u))
  BY <1>1, <1>3, <1>4, <1>6, TwoLonger
<1>8. InOrder(v, u)
  BY <1>5, <1>7 DEF InOrder, a
<1> QED
  BY <1>8 DEF w, u

(* A pop drops the last command, and the object that is run is that         *)
(* command's.                                                               *)
LEMMA PopInOrder ==
    ASSUME NEW v, NEW w, Coded(v), Removes(v, w), Range(Commands(v)) \subseteq Pushables
    PROVE  /\ Range(Commands(w)) \subseteq Pushables
           /\ Commands(v) # <<>> /\ Commands(w) = Front(Commands(v))
           /\ PoppedObject(v) = Last(Commands(v)).object
<1> DEFINE b == Commands(w)
           c == CommandAt(v, v.len)
<1>1. /\ Commands(v) = Append(b, c) /\ b \in Seq(Cmd) /\ PoppedObject(v) = c.object
      /\ v.len \in Headers(v)
  BY DEF Removes
<1>2. c \in Cmd
  BY <1>1 DEF Removes, Coded
<1> HIDE DEF b, c
<1>3. /\ Append(b, c) # <<>> /\ Front(Append(b, c)) = b /\ Last(Append(b, c)) = c
      /\ Range(Append(b, c)) = Range(b) \cup {c}
  BY <1>1, <1>2, OneLonger
<1> QED
  BY <1>1, <1>3 DEF b

(* What a step may do to the stacks and to what was done last.              *)
Keeps == Promised /\ \A th \in Thread : Coded(stack[th])
InPromise ==
    /\ Promised'
    /\ \A th \in Thread : Promise(Commands(stack[th]), done[th], Commands(stack[th])', done'[th])

(* A step that touches no stack is a stutter of both.                       *)
LEMMA QuietStacks == ASSUME Keeps, UNCHANGED <<stack, done>> PROVE InPromise
<1>1. \A th \in Thread : Commands(stack[th])' = Commands(stack[th])
  OBVIOUS
<1> QED
  BY <1>1 DEF Keeps, InPromise, Promised, Promise

(* One stack has more on it, the other is what it was.                      *)
LEMMA GrowingStack ==
    ASSUME Keeps, NEW th \in Thread, NEW w, InOrder(stack[th], w), stack' = [stack EXCEPT ![th] = w],
           stack = [t \in Thread |-> stack[t]], done' = done
    PROVE  InPromise
<1>1. stack'[th] = w /\ \A t \in Thread : t # th => stack'[t] = stack[t]
  OBVIOUS
<1>2. ASSUME NEW t \in Thread
      PROVE  /\ Range(Commands(stack'[t])) \subseteq Pushables
             /\ Promise(Commands(stack[t]), done[t], Commands(stack'[t]), done'[t])
  <2>1. CASE t = th
    BY <1>1, <2>1 DEF InOrder, Promise
  <2>2. CASE t # th
    BY <1>1, <2>2 DEF Keeps, Promised, Promise
  <2> QED
    BY <2>1, <2>2
<1> QED
  BY <1>2 DEF InPromise, Promised, Keeps

(* Empty stacks hold nothing that may not be pushed.                        *)
LEMMA StartIsPromised == Init => Promised
<1> SUFFICES ASSUME Init PROVE Promised
  OBVIOUS
<1>1. stack = [th \in Thread |-> EmptyVec] /\ done = [th \in Thread |-> "none"]
  BY DEF Init
<1>2. \A th \in Thread : Commands(stack[th]) = <<>>
  BY <1>1, EmptyIsCoded
<1>3. Range(<<>>) = {}
  BY DEF Range
<1> QED
  BY <1>1, <1>2, <1>3 DEF Promised

(* Every step of the model is, for each stack, a push, a pop or a stutter.  *)
LEMMA StepsArePromised == IInv /\ Promised /\ [Next]_vars => InPromise
<1> SUFFICES ASSUME IInv, Promised, [Next]_vars PROVE InPromise
  OBVIOUS
<1>1. /\ Keeps /\ stack = [th \in Thread |-> stack[th]] /\ done = [th \in Thread |-> done[th]]
      /\ test \in Tests
      /\ \A th \in Thread : Coded(stack[th]) /\ Range(Commands(stack[th])) \subseteq Pushables
  BY DEF IInv, Basics, Stacked, Keeps, Promised
<1>2. CASE UNCHANGED <<stack, done>>
  BY <1>1, <1>2, QuietStacks
<1>3. ASSUME NEW th \in Thread, NEW s, Push(th, s), MayPush(s), done' = done
      PROVE  InPromise
  <2>1. stack' = [stack EXCEPT ![th] = Pushed(stack[th], s)]
    BY <1>3 DEF Push
  <2>2. InOrder(stack[th], Pushed(stack[th], s))
    BY <1>1, <1>3, PushInOrder
  <2> QED
    BY <1>1, <1>3, <2>1, <2>2, GrowingStack
<1>4. CASE SetupCreate
  <2>1. phase = SETUP /\ Step.do = "create" /\ Push("start", Step) /\ done' = done
    BY <1>4 DEF SetupCreate, AtStep, NextStep
  <2>2. Command(Step.kind, Step.object) \in Cmd /\ Command(Step.kind, Step.object) \in Pushables
    BY <1>1, <2>1, SetupNow, NamesOfSteps, MayBePushed
  <2> QED
    BY <1>3, <2>1, <2>2 DEF MayPush, Thread
<1>5. CASE AllocateCommandBuffer
  <2> DEFINE s == Create("cmd_buffer", "vk_pooled", {"device", TCmdPool})
  <2>1. Push("start", s) /\ done' = done
    BY <1>5 DEF AllocateCommandBuffer, NextStep
  <2>2. s.object = "cmd_buffer" /\ s.kind = "vk_pooled"
    BY DEF Create
  <2> HIDE DEF s
  <2>3. MayPush(s)
    BY <1>1, <2>2, NamesOfSteps, MayBePushed DEF MayPush
  <2> QED
    BY <1>3, <2>1, <2>3 DEF Thread
<1>6. ASSUME NEW th \in Thread, UserCreate(th) PROVE InPromise
  <2>1. PICK s \in UserObjects : Push(th, s)
    BY <1>6 DEF UserCreate
  <2>2. done' = done
    BY <1>6 DEF UserCreate
  <2>3. MayPush(s)
    BY <1>1, NamesOfSteps, MayBePushed DEF MayPush
  <2> QED
    BY <1>3, <2>1, <2>2, <2>3
<1>7. CASE Precleanup
  <2>1. done' = done
    BY <1>7 DEF Precleanup
  <2>2. \/ UNCHANGED <<stack, live>>
        \/ \E th \in Range(cleanup_stacks) : CompareImage(th)
    BY <1>7 DEF Precleanup
  <2>3. ASSUME NEW th \in Range(cleanup_stacks), CompareImage(th)
        PROVE  InPromise
    <3>1. th \in Thread
      BY ListIs DEF IInv, Basics
    <3>2. MayPush(ActualImage) /\ MayPush(ActualStencilImage)
      <4>1. /\ Command(ActualImage.kind, ActualImage.object) = Command("cru_image", "actual_image")
            /\ Command(ActualStencilImage.kind, ActualStencilImage.object)
                  = Command("cru_image", "actual_stencil_image")
        BY DEF ActualImage, ActualStencilImage, Create
      <4> QED
        BY <1>1, <4>1, NamesOfSteps, MayBePushed DEF MayPush
    <3>3. CASE UNCHANGED <<stack, live>>
      BY <1>2, <2>1, <3>3
    <3>4. CASE Push(th, ActualImage)
      BY <1>3, <2>1, <3>1, <3>2, <3>4
    <3>5. CASE stack' = [stack EXCEPT ![th] = Pushed(Pushed(@, ActualImage), ActualStencilImage)]
      <4> DEFINE w == Pushed(Pushed(stack[th], ActualImage), ActualStencilImage)
      <4>1. InOrder(stack[th], w)
        BY <1>1, <3>1, <3>2, PushBothInOrder
      <4>2. stack' = [stack EXCEPT ![th] = w]
        BY <3>5
      <4> HIDE DEF w
      <4> QED
        BY <1>1, <2>1, <3>1, <4>1, <4>2, GrowingStack
    <3> QED
      BY <2>3, <3>3, <3>4, <3>5 DEF CompareImage
  <2> QED
    BY <1>2, <2>1, <2>2, <2>3
<1>8. CASE Unwind
  <2>1. PICK th \in Thread :
           /\ Taken(stack, live, th, stack')
           /\ done' = done \/ done' = [done EXCEPT ![th] = PoppedObject(stack[th])]
    BY <1>8, Unwinds
  <2>2. Removes(stack[th], stack'[th]) /\ \A t \in Thread : t # th => stack'[t] = stack[t]
    BY <2>1 DEF Taken
  <2>3. /\ Range(Commands(stack'[th])) \subseteq Pushables
        /\ Commands(stack[th]) # <<>> /\ Commands(stack'[th]) = Front(Commands(stack[th]))
        /\ PoppedObject(stack[th]) = Last(Commands(stack[th])).object
    BY <1>1, <2>2, PopInOrder
  <2>4. /\ done' = [t \in Thread |-> done'[t]]
        /\ done'[th] = done[th] \/ done'[th] = PoppedObject(stack[th])
        /\ \A t \in Thread : t # th => done'[t] = done[t]
    BY <1>1, <2>1
  <2>5. ASSUME NEW t \in Thread
        PROVE  /\ Range(Commands(stack'[t])) \subseteq Pushables
               /\ Promise(Commands(stack[t]), done[t], Commands(stack'[t]), done'[t])
    <3>1. CASE t = th
      BY <2>3, <2>4, <3>1 DEF Promise
    <3>2. CASE t # th
      BY <1>1, <2>2, <2>4, <3>2 DEF Promise
    <3> QED
      BY <3>1, <3>2
  <2> QED
    BY <2>4, <2>5 DEF InPromise, Promised
<1>9. \/ UNCHANGED <<stack, done>> \/ SetupCreate \/ AllocateCommandBuffer \/ Precleanup \/ Unwind
      \/ \E th \in Thread : UserCreate(th)
  <2>1. CASE \E th \in Thread : UserCreate(th) \/ UserEnd(th)
    BY <2>1 DEF UserEnd
  <2>2. CASE UserStartThread \/ UserSubmit \/ WaitFails \/ Stop \/ Ended \/ ReleaseStack \/ UNCHANGED vars
    BY <2>2 DEF UserStartThread, UserSubmit, WaitFails, Stop, Ended, ReleaseStack, vars
  <2>3. CASE SetupMalloc \/ SetupMemory \/ SetupFails \/ PhysDev \/ ChooseQueue \/ Features
    BY <2>3 DEF SetupMalloc, SetupMemory, SetupFails, PhysDev, ChooseQueue, Features, EndSetup, NextStep
  <2>4. CASE GetQueues \/ FillCmdPools \/ BeginCommandBuffer
    BY <2>4 DEF GetQueues, FillCmdPools, BeginCommandBuffer, NextStep
  <2> QED
    BY <2>1, <2>2, <2>3, <2>4 DEF Next
<1> QED
  BY <1>2, <1>4, <1>5, <1>6, <1>7, <1>8, <1>9

(* The stack of each thread, bytes and all, implements the stack of         *)
(* UnwindStack: the commands are run or dropped one at a time, the last     *)
(* pushed first and each once, and the command that is run is read out of   *)
(* the popped memory as it was pushed.                                      *)
THEOREM StacksKeepThePromise == Spec => StacksUnwind
<1>1. Init => StartStack!Init /\ UserStack!Init
  <2> SUFFICES ASSUME Init PROVE StartStack!Init /\ UserStack!Init
    OBVIOUS
  <2>1. stack = [th \in Thread |-> EmptyVec] /\ done = [th \in Thread |-> "none"]
    BY DEF Init
  <2> QED
    BY <2>1, EmptyIsCoded DEF StartStack!Init, UserStack!Init, Thread
<1>2. InPromise =>
         /\ [StartStack!Push \/ StartStack!Run \/ StartStack!Drop]_<<Commands(stack["start"]), done["start"]>>
         /\ [UserStack!Push \/ UserStack!Run \/ UserStack!Drop]_<<Commands(stack["user"]), done["user"]>>
  <2> SUFFICES ASSUME InPromise
               PROVE  /\ [StartStack!Push \/ StartStack!Run \/ StartStack!Drop]_<<Commands(stack["start"]), done["start"]>>
                      /\ [UserStack!Push \/ UserStack!Run \/ UserStack!Drop]_<<Commands(stack["user"]), done["user"]>>
    OBVIOUS
  <2>1. /\ Promise(Commands(stack["start"]), done["start"], Commands(stack["start"])', done'["start"])
        /\ Range(Commands(stack["start"])') \subseteq Pushables
    BY DEF InPromise, Promised, Thread
  <2>2. /\ Promise(Commands(stack["user"]), done["user"], Commands(stack["user"])', done'["user"])
        /\ Range(Commands(stack["user"])') \subseteq Pushables
    BY DEF InPromise, Promised, Thread
  <2>3. [StartStack!Push \/ StartStack!Run \/ StartStack!Drop]_<<Commands(stack["start"]), done["start"]>>
    <3>1. /\ \A s : StartStack!Front(s) = Front(s) /\ StartStack!Last(s) = Last(s) /\ StartStack!Range(s) = Range(s)
          /\ \A s, u : StartStack!IsStrictPrefix(s, u) <=> IsStrictPrefix(s, u)
      BY DEF StartStack!Front, Front, StartStack!Last, Last, StartStack!Range, Range,
             StartStack!IsStrictPrefix, StartStack!IsPrefix, IsStrictPrefix, IsPrefix
    <3> QED
      BY <2>1, <3>1 DEF Promise, StartStack!Push, StartStack!Run, StartStack!Drop
  <2>4. [UserStack!Push \/ UserStack!Run \/ UserStack!Drop]_<<Commands(stack["user"]), done["user"]>>
    <3>1. /\ \A s : UserStack!Front(s) = Front(s) /\ UserStack!Last(s) = Last(s) /\ UserStack!Range(s) = Range(s)
          /\ \A s, u : UserStack!IsStrictPrefix(s, u) <=> IsStrictPrefix(s, u)
      BY DEF UserStack!Front, Front, UserStack!Last, Last, UserStack!Range, Range,
             UserStack!IsStrictPrefix, UserStack!IsPrefix, IsStrictPrefix, IsPrefix
    <3> QED
      BY <2>2, <3>1 DEF Promise, UserStack!Push, UserStack!Run, UserStack!Drop
  <2> QED
    BY <2>3, <2>4
<1>3. InPromise => Promised'
  BY DEF InPromise
<1> QED
  BY <1>1, <1>2, <1>3, StartIsPromised, StepsArePromised, Invariance, PTL
     DEF Spec, StacksUnwind, StartStack!Spec, UserStack!Spec
=============================================================================
