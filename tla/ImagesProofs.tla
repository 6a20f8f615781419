---------------------------- MODULE ImagesProofs ----------------------------
(***************************************************************************)
(* Proofs about Images: whatever fails on the way, every operation gives   *)
(* back what it has mapped and created, a copy that says it succeeded has  *)
(* succeeded, and images found equal are equal, for any set of images.     *)
(***************************************************************************)
EXTENDS Images, TLAPS

-----------------------------------------------------------------------------
(* What is true of every state that an operation passes through.            *)
All == Image \cup {Tmp}
States == [All -> Record]

(* One image: the Vulkan objects are those it knows, all of a staging       *)
(* buffer or none; what is staged is what its kind of image stages.         *)
Sound(s, i) ==
    /\ s[i].held = s[i].handles /\ s[i].held \in {{}, Staging}
    /\ i \in Image => s[i].format = FormatOf[i]
    /\ IsEightBit(s[i].format) => s[i].pixels # "p_and_more" /\ s[i].staged # "p_and_more"
    /\ Type(i) = "png" => s[i].staged \in {"none", s[i].pixels} /\ s[i].access \subseteq {"read"}
    /\ Type(i) = "vulkan" =>
          /\ s[i].handles = Staging => s[i].staged # "none"
          /\ s[i].access # {} => s[i].handles = Staging

Sane(s) == s \in States /\ \A i \in All : Sound(s, i)

(* From s to t only image i has changed, and not in what calls never touch. *)
Touches(s, t, i) ==
    /\ Sane(t)
    /\ \A j \in All \ {i} : t[j] = s[j]
    /\ t[i].refs = s[i].refs /\ t[i].by_test = s[i].by_test /\ t[i].format = s[i].format

(* Between two calls of the test.                                           *)
Idle == Fresh("r8", 0, Garbage)
Settled(s) ==
    /\ s[Tmp] = Idle
    /\ \A i \in Image :
          /\ ~s[i].by_test => s[i].access = {}
          /\ s[i].by_test => s[i].refs # 0 /\ (Type(i) = "png" \/ s[i].access # {})
          /\ s[i].refs = 0 => s[i].held = {}

Inv ==
    /\ Sane(img) /\ ended \in {"no", "abort"}
    /\ ended = "no" => Settled(img)

-----------------------------------------------------------------------------
(* The changes that the operations are made of.                             *)

(* Setting the access mask.                                                 *)
LEMMA Accessing ==
    ASSUME NEW s, Sane(s), NEW i \in All, NEW access \in SUBSET {"read", "write"},
           Type(i) = "png" => access \subseteq {"read"},
           Type(i) = "vulkan" /\ access # {} => s[i].handles = Staging
    PROVE  /\ Touches(s, Accessed(s, i, access), i)
           /\ Accessed(s, i, access)[i].access = access
           /\ Accessed(s, i, access)[i].pixels = s[i].pixels
           /\ Accessed(s, i, access)[i].staged = s[i].staged
           /\ Accessed(s, i, access)[i].held = s[i].held
<1> DEFINE t == Accessed(s, i, access)
<1>1. s \in States /\ \A j \in All : Sound(s, j)
  BY DEF Sane
<1>2. t \in States
  BY <1>1 DEF States, Accessed, Record
<1>3. \A j \in All \ {i} : t[j] = s[j]
  BY <1>1 DEF States, Accessed
<1>4. /\ t[i].access = access /\ t[i].pixels = s[i].pixels /\ t[i].staged = s[i].staged
      /\ t[i].held = s[i].held /\ t[i].handles = s[i].handles
      /\ t[i].refs = s[i].refs /\ t[i].by_test = s[i].by_test /\ t[i].format = s[i].format
  BY <1>1 DEF States, Accessed, Record
<1> HIDE DEF t
<1>5. Sound(t, i)
  BY <1>1, <1>4 DEF Sound
<1>6. \A j \in All \ {i} : Sound(t, j)
  BY <1>1, <1>3 DEF Sound
<1> QED
  BY <1>2, <1>3, <1>4, <1>5, <1>6 DEF t, Touches, Sane

(* A change to one image that leaves it sound.                              *)
LEMMA Patching ==
    ASSUME NEW s, Sane(s), NEW i \in All, NEW t \in States,
           \A j \in All \ {i} : t[j] = s[j],
           t[i].refs = s[i].refs /\ t[i].by_test = s[i].by_test /\ t[i].format = s[i].format,
           Sound(t, i)
    PROVE  Touches(s, t, i)
<1>1. \A j \in All \ {i} : Sound(t, j)
  BY DEF Sane, Sound
<1> QED
  BY <1>1 DEF Touches, Sane

(* Two changes to the same image are one.                                   *)
LEMMA TouchesTwice ==
    ASSUME NEW s, NEW i \in All, NEW t, NEW u, Touches(s, t, i), Touches(t, u, i)
    PROVE  Touches(s, u, i)
BY DEF Touches

(* No change is one too.                                                    *)
LEMMA TouchesNothing ==
    ASSUME NEW s, Sane(s), NEW i \in All
    PROVE  Touches(s, s, i)
BY DEF Touches

(* From s to t the objects of image i have gone.                            *)
Cleaned(s, t, i) ==
    /\ t \in States /\ \A j \in All \ {i} : t[j] = s[j]
    /\ t[i].handles = {} /\ t[i].held = s[i].held \ s[i].handles
    /\ t[i].staged = s[i].staged /\ t[i].pixels = s[i].pixels
    /\ t[i].access = s[i].access /\ t[i].refs = s[i].refs
    /\ t[i].format = s[i].format /\ t[i].by_test = s[i].by_test

LEMMA CleaningUp ==
    ASSUME NEW s \in States, NEW i \in All
    PROVE  Cleaned(s, CleanupMap(s, i), i)
<1> DEFINE r == [s[i] EXCEPT !.held = s[i].held \ s[i].handles, !.handles = {}]
<1>1. s[i] \in Record
  BY DEF States
<1>2. r \in Record
  BY <1>1 DEF Record
<1>3. CleanupMap(s, i) = [s EXCEPT ![i] = r]
  BY <1>1 DEF CleanupMap, States, Record
<1> HIDE DEF r
<1>4. /\ [s EXCEPT ![i] = r] \in States /\ [s EXCEPT ![i] = r][i] = r
      /\ \A j \in All \ {i} : [s EXCEPT ![i] = r][j] = s[j]
  BY <1>2 DEF States
<1>5. /\ r.handles = {} /\ r.held = s[i].held \ s[i].handles /\ r.staged = s[i].staged
      /\ r.pixels = s[i].pixels /\ r.access = s[i].access /\ r.refs = s[i].refs
      /\ r.format = s[i].format /\ r.by_test = s[i].by_test
  BY <1>1 DEF r, Record
<1> HIDE DEF r
<1> QED
  BY <1>3, <1>4, <1>5 DEF Cleaned

(* The staging buffer: made whole, or not at all.                           *)
LEMMA SettingUp ==
    ASSUME NEW s, Sane(s), NEW i \in Image, Type(i) = "vulkan", s[i].access = {},
           NEW o \in SetupMap(s, i)
    PROVE  /\ o.r \in {"true", "false"}
           /\ Touches(s, o.s, i)
           /\ o.s[i].pixels = s[i].pixels /\ o.s[i].access = {}
           /\ o.r = "true" => o.s[i].handles = Staging
<1>0. /\ i \in All /\ s \in States /\ \A j \in All : Sound(s, j)
      /\ s[i] \in Record
  BY DEF Sane, All, States
<1>1. CASE "map" \in s[i].handles
  <2>1. o.s = s /\ o.r = "true"
    BY <1>1 DEF SetupMap, Success, Return, Out
  <2>2. s[i].handles = Staging
    BY <1>0, <1>1 DEF Sound
  <2> QED
    BY <2>1, <2>2, <1>0, TouchesNothing
<1>2. CASE "map" \notin s[i].handles
  <2> DEFINE got(part) == [s EXCEPT ![i].handles = part, ![i].held = @ \cup part,
                                    ![i].staged = Garbage]
  <2>0. s[i].handles = {} /\ s[i].held = {}
    BY <1>0, <1>2 DEF Sound, Staging
  <2>1. \/ o = Out(got(Staging), "true")
        \/ \E part \in {{}, {"buffer"}, {"buffer", "memory"}} :
              o = Out(CleanupMap(got(part), i), "false")
    BY <1>2 DEF SetupMap, Success, Return
  <2>2. ASSUME NEW part \in SUBSET Staging
        PROVE  /\ got(part) \in States
               /\ \A j \in All \ {i} : got(part)[j] = s[j]
               /\ got(part)[i] = [s[i] EXCEPT !.handles = part, !.held = part, !.staged = Garbage]
    BY <1>0, <2>0 DEF States, Record
  <2> HIDE DEF got
  <2>3. CASE o = Out(got(Staging), "true")
    <3> DEFINE u == got(Staging)
    <3>1. o.s = u /\ o.r = "true"
      BY <2>3 DEF Out
    <3>2. /\ u \in States /\ \A j \in All \ {i} : u[j] = s[j]
          /\ u[i] = [s[i] EXCEPT !.handles = Staging, !.held = Staging, !.staged = Garbage]
      BY <2>2
    <3> HIDE DEF u
    <3>3. /\ u[i].handles = Staging /\ u[i].held = Staging /\ u[i].staged = Garbage
          /\ u[i].pixels = s[i].pixels /\ u[i].access = {} /\ u[i].refs = s[i].refs
          /\ u[i].by_test = s[i].by_test /\ u[i].format = s[i].format
      BY <1>0, <3>2 DEF Record
    <3>4. Sound(u, i)
      BY <1>0, <3>3 DEF Sound, Garbage
    <3> QED
      BY <1>0, <3>1, <3>2, <3>3, <3>4, Patching
  <2>4. ASSUME NEW part \in {{}, {"buffer"}, {"buffer", "memory"}},
               o = Out(CleanupMap(got(part), i), "false")
        PROVE  /\ o.r = "false" /\ Touches(s, o.s, i)
               /\ o.s[i].pixels = s[i].pixels /\ o.s[i].access = {}
    <3> DEFINE u == CleanupMap(got(part), i)
    <3>1. o.s = u /\ o.r = "false"
      BY <2>4 DEF Out
    <3>2. part \in SUBSET Staging
      BY DEF Staging
    <3>3. /\ got(part) \in States
          /\ \A j \in All \ {i} : got(part)[j] = s[j]
          /\ got(part)[i] = [s[i] EXCEPT !.handles = part, !.held = part, !.staged = Garbage]
      BY <3>2, <2>2
    <3>4. Cleaned(got(part), u, i)
      BY <1>0, <3>3, CleaningUp
    <3> HIDE DEF u
    <3>5. /\ u \in States /\ (\A j \in All \ {i} : u[j] = s[j])
          /\ u[i].handles = {} /\ u[i].held = {} /\ u[i].staged = Garbage
          /\ u[i].pixels = s[i].pixels
          /\ u[i].access = {} /\ u[i].refs = s[i].refs
          /\ u[i].by_test = s[i].by_test /\ u[i].format = s[i].format
      BY <1>0, <3>3, <3>4 DEF Cleaned, Record
    <3>6. Sound(u, i)
      BY <1>0, <3>5 DEF Sound, Garbage
    <3> QED
      BY <1>0, <3>1, <3>5, <3>6, Patching
  <2> QED
    BY <2>1, <2>3, <2>4
<1> QED
  BY <1>1, <1>2

(* A picture that an image of the format can hold.                          *)
Fits(p, format) ==
    p \in Picture \cup {Garbage} /\ (IsEightBit(format) => p # "p_and_more")

Filled(s, i, p) == [s EXCEPT ![i].staged = p]
Painted(s, i, p) == [s EXCEPT ![i].pixels = p]

(* Filling a staging buffer, or decoding a file.                            *)
LEMMA Filling ==
    ASSUME NEW s, Sane(s), NEW i \in All, NEW p, Fits(p, s[i].format),
           Type(i) = "png" => p = s[i].pixels
    PROVE  /\ Touches(s, Filled(s, i, p), i)
           /\ Filled(s, i, p)[i].staged = p
           /\ Filled(s, i, p)[i].pixels = s[i].pixels
           /\ Filled(s, i, p)[i].access = s[i].access
           /\ Filled(s, i, p)[i].handles = s[i].handles
<1> DEFINE t == Filled(s, i, p)
<1>1. s \in States /\ Sound(s, i)
  BY DEF Sane
<1>2. t \in States /\ \A j \in All \ {i} : t[j] = s[j]
  BY <1>1 DEF Filled, States, Record, Fits
<1>3. /\ t[i].access = s[i].access /\ t[i].pixels = s[i].pixels /\ t[i].staged = p
      /\ t[i].held = s[i].held /\ t[i].handles = s[i].handles
      /\ t[i].refs = s[i].refs /\ t[i].by_test = s[i].by_test /\ t[i].format = s[i].format
  BY <1>1 DEF Filled, States, Record
<1>4. p # "none"
  BY DEF Fits, Picture, EightBit, Garbage
<1> HIDE DEF t
<1>5. Sound(t, i)
  BY <1>1, <1>3, <1>4 DEF Sound, Fits
<1> QED
  BY <1>2, <1>3, <1>5, Patching DEF t

(* Changing the picture itself.                                             *)
LEMMA Painting ==
    ASSUME NEW s, Sane(s), NEW i \in All, NEW p, Fits(p, s[i].format), Type(i) # "png"
    PROVE  /\ Touches(s, Painted(s, i, p), i)
           /\ Painted(s, i, p)[i].pixels = p
           /\ Painted(s, i, p)[i].staged = s[i].staged
           /\ Painted(s, i, p)[i].access = s[i].access
           /\ Painted(s, i, p)[i].handles = s[i].handles
<1> DEFINE t == Painted(s, i, p)
<1>1. s \in States /\ Sound(s, i)
  BY DEF Sane
<1>2. t \in States /\ \A j \in All \ {i} : t[j] = s[j]
  BY <1>1 DEF Painted, States, Record, Fits
<1>3. /\ t[i].access = s[i].access /\ t[i].staged = s[i].staged /\ t[i].pixels = p
      /\ t[i].held = s[i].held /\ t[i].handles = s[i].handles
      /\ t[i].refs = s[i].refs /\ t[i].by_test = s[i].by_test /\ t[i].format = s[i].format
  BY <1>1 DEF Painted, States, Record
<1> HIDE DEF t
<1>4. Sound(t, i)
  BY <1>1, <1>3 DEF Sound, Fits
<1> QED
  BY <1>2, <1>3, <1>4, Patching DEF t

(* Only images of the test are files or Vulkan images.                      *)
LEMMA Types ==
    ASSUME NEW i \in All
    PROVE  /\ Type(i) \in {"pixels", "png", "vulkan"}
           /\ Type(i) # "pixels" => i \in Image
BY ImagesAssumption DEF Type, All

(* An image holds nothing that its format cannot.                           *)
LEMMA PixelsFit ==
    ASSUME NEW s, Sane(s), NEW i \in All
    PROVE  Fits(s[i].pixels, s[i].format)
BY DEF Sane, Sound, Fits, States, Record

-----------------------------------------------------------------------------
(* map_pixels() and unmap_pixels().                                         *)
Mappable(i, access) ==
    /\ access \in SUBSET {"read", "write"} /\ access # {}
    /\ Type(i) = "png" => access = {"read"}

(* What map_pixels() leaves: nothing mapped if it fails, and otherwise      *)
(* memory that shows the picture, if it is to be read.                      *)
AfterMap(s, o, i, access) ==
    /\ o.r \in {"true", "false"}
    /\ Touches(s, o.s, i) /\ o.s[i].pixels = s[i].pixels
    /\ o.r = "false" => o.s[i].access = {}
    /\ o.r = "true" => /\ Type(i) # "png" => o.s[i].access = access
                       /\ "read" \in access => Mapped(o.s, i) = s[i].pixels

(* Mapping an array of pixels cannot fail.                                  *)
LEMMA MappingArray ==
    ASSUME NEW s, Sane(s), NEW i \in All, NEW access, Mappable(i, access),
           s[i].access = {}, Type(i) = "pixels", NEW o \in MapArray(s, i, access)
    PROVE  AfterMap(s, o, i, access)
<1>1. o.s = Accessed(s, i, access) /\ o.r = "true"
  BY DEF MapArray, Asserting, Success, Return, Out
<1>2. /\ Touches(s, Accessed(s, i, access), i)
      /\ Accessed(s, i, access)[i].access = access
      /\ Accessed(s, i, access)[i].pixels = s[i].pixels
  BY Accessing DEF Mappable
<1> QED
  BY <1>1, <1>2 DEF AfterMap, Mapped

(* A file that is decoded already shows what it holds all the same.         *)
LEMMA MappingPng ==
    ASSUME NEW s, Sane(s), NEW i \in All, NEW access, Mappable(i, access),
           s[i].access = {}, Type(i) = "png", NEW o \in MapPng(s, i, access)
    PROVE  AfterMap(s, o, i, access)
<1>0. access = {"read"} /\ i \in Image
  BY Types DEF Mappable
<1>1. CASE s[i].staged # "none"
  <2>1. o.s = s /\ o.r = "true"
    BY <1>0, <1>1 DEF MapPng, Asserting, Success, Return, Out
  <2>2. s[i].staged = s[i].pixels
    BY <1>1 DEF Sane, Sound
  <2>3. Touches(s, s, i)
    BY TouchesNothing
  <2> QED
    BY <2>1, <2>2, <2>3 DEF AfterMap, Mapped
<1>2. CASE s[i].staged = "none"
  <2> DEFINE t == Filled(s, i, s[i].pixels)
  <2>1. \/ o.s = Accessed(t, i, access) /\ o.r = "true"
        \/ o.s = s /\ o.r = "false"
    BY <1>0, <1>2 DEF Filled, MapPng, Asserting, Success, Failure, Return, Out
  <2>2. /\ Touches(s, t, i) /\ t[i].staged = s[i].pixels /\ t[i].pixels = s[i].pixels
    BY Filling, PixelsFit
  <2> HIDE DEF t
  <2>3. /\ Touches(t, Accessed(t, i, access), i)
        /\ Accessed(t, i, access)[i].access = access
        /\ Accessed(t, i, access)[i].pixels = t[i].pixels
        /\ Accessed(t, i, access)[i].staged = t[i].staged
    BY <1>0, <2>2, Accessing DEF Touches
  <2>4. Touches(s, Accessed(t, i, access), i)
    BY <2>2, <2>3, TouchesTwice
  <2>5. Touches(s, s, i)
    BY TouchesNothing
  <2>6. CASE o.s = Accessed(t, i, access) /\ o.r = "true"
    BY <2>2, <2>3, <2>4, <2>6 DEF AfterMap, Mapped
  <2>7. CASE o.s = s /\ o.r = "false"
    BY <2>5, <2>7 DEF AfterMap
  <2> QED
    BY <2>1, <2>6, <2>7
<1> QED
  BY <1>1, <1>2

(* A staging buffer that is there already is filled anew.                   *)
LEMMA MappingVk ==
    ASSUME NEW s, Sane(s), NEW i \in All, NEW access, Mappable(i, access),
           s[i].access = {}, Type(i) = "vulkan", NEW o \in MapVk(s, i, access)
    PROVE  AfterMap(s, o, i, access)
<1>0. i \in Image /\ access \in SUBSET {"read", "write"}
  BY Types DEF Mappable
<1> DEFINE rest(t) == IF "read" \in access
                      THEN Then(CopyImageToBuffer(t, i), LAMBDA u : Success(Accessed(u, i, access)))
                      ELSE Success(Accessed(t, i, access))
<1>1. PICK m \in SetupMap(s, i) :
          \/ m.r = "true" /\ o \in rest(m.s)
          \/ m.r = "false" /\ o = Out(m.s, "false")
          \/ m.r \notin {"true", "false"} /\ o = m
  BY DEF MapVk, Asserting, Then, Branch, Failure, Return
<1> HIDE DEF rest
<1>2. /\ m.r \in {"true", "false"} /\ Touches(s, m.s, i)
      /\ m.s[i].pixels = s[i].pixels /\ m.s[i].access = {}
      /\ m.r = "true" => m.s[i].handles = Staging
  BY <1>0, SettingUp
<1>3. CASE m.r = "false" /\ o = Out(m.s, "false")
  BY <1>2, <1>3 DEF AfterMap, Out
<1>4. CASE m.r = "true" /\ o \in rest(m.s) /\ "read" \notin access
  <2>1. o.s = Accessed(m.s, i, access) /\ o.r = "true"
    <3>1. o \in Success(Accessed(m.s, i, access))
      BY <1>4 DEF rest
    <3> QED
      BY <3>1 DEF Success, Return, Out
  <2>2. /\ Touches(m.s, Accessed(m.s, i, access), i)
        /\ Accessed(m.s, i, access)[i].access = access
        /\ Accessed(m.s, i, access)[i].pixels = m.s[i].pixels
    BY <1>0, <1>2, <1>4, Accessing DEF Touches
  <2> QED
    BY <1>2, <1>4, <2>1, <2>2, TouchesTwice DEF AfterMap
<1>5. CASE m.r = "true" /\ o \in rest(m.s) /\ "read" \in access
  <2> DEFINE t == m.s
             u == Filled(t, i, t[i].pixels)
             v == Accessed(u, i, access)
  <2>1. \/ o.s = v /\ o.r = "true"
        \/ o.s \in {t, u} /\ o.r = "false"
    BY <1>5 DEF Filled, rest, CopyImageToBuffer, Then, Branch, Success, Failure, Return, Out
  <2>2. /\ Touches(t, u, i) /\ u[i].staged = t[i].pixels /\ u[i].pixels = t[i].pixels
        /\ u[i].access = {} /\ u[i].handles = Staging
    BY <1>2, <1>5, Filling, PixelsFit DEF Touches
  <2> HIDE DEF u
  <2>3. /\ Touches(u, v, i) /\ v[i].access = access
        /\ v[i].pixels = u[i].pixels /\ v[i].staged = u[i].staged
    BY <1>0, <1>2, <1>5, <2>2, Accessing DEF Touches
  <2> HIDE DEF v
  <2>4. Touches(s, u, i) /\ Touches(s, v, i)
    BY <1>2, <2>2, <2>3, TouchesTwice
  <2>5. v[i].staged = s[i].pixels /\ v[i].pixels = s[i].pixels /\ u[i].pixels = s[i].pixels
    BY <1>2, <2>2, <2>3
  <2>6. CASE o.s = v /\ o.r = "true"
    BY <2>3, <2>4, <2>5, <2>6 DEF AfterMap, Mapped
  <2>7. CASE o.s \in {t, u} /\ o.r = "false"
    BY <1>2, <2>2, <2>4, <2>5, <2>7 DEF AfterMap
  <2> QED
    BY <2>1, <2>6, <2>7
<1> QED
  BY <1>1, <1>2, <1>3, <1>4, <1>5

(* map_pixels() of whatever kind of image.                                  *)
LEMMA Mapping ==
    ASSUME NEW s, Sane(s), NEW i \in All, NEW access, Mappable(i, access),
           s[i].access = {}, NEW o \in MapPixels(s, i, access)
    PROVE  AfterMap(s, o, i, access)
<1>1. CASE Type(i) = "pixels"
  BY <1>1, MappingArray DEF MapPixels
<1>2. CASE Type(i) = "png"
  BY <1>2, MappingPng DEF MapPixels
<1>3. CASE Type(i) = "vulkan"
  BY <1>3, MappingVk DEF MapPixels
<1> QED
  BY <1>1, <1>2, <1>3, Types

(* What unmap_pixels() leaves: nothing mapped; an image that was mapped for *)
(* writing holds what the map held if the answer is true, and one that was  *)
(* not is as it was.                                                        *)
AfterUnmap(s, o, i) ==
    /\ o.r \in {"true", "false"}
    /\ Touches(s, o.s, i) /\ o.s[i].access = {}
    /\ "write" \notin s[i].access => o.r = "true" /\ o.s[i].pixels = s[i].pixels
    /\ o.r = "true" /\ "write" \in s[i].access => o.s[i].pixels = Mapped(s, i)

(* Clearing the access mask.                                                *)
LEMMA Closing ==
    ASSUME NEW s, Sane(s), NEW i \in All
    PROVE  /\ Touches(s, Accessed(s, i, {}), i)
           /\ Accessed(s, i, {})[i].access = {}
           /\ Accessed(s, i, {})[i].pixels = s[i].pixels
<1> DEFINE none == {}
<1>1. none \in SUBSET {"read", "write"} /\ none \subseteq {"read"} /\ none = {}
  OBVIOUS
<1> HIDE DEF none
<1>2. /\ Touches(s, Accessed(s, i, none), i) /\ Accessed(s, i, none)[i].access = none
      /\ Accessed(s, i, none)[i].pixels = s[i].pixels
  BY <1>1, Accessing
<1> QED
  BY <1>1, <1>2

(* What was staged is written back; if that fails, the mask is cleared too. *)
LEMMA UnmappingVk ==
    ASSUME NEW s, Sane(s), NEW i \in All, s[i].access # {}, Type(i) = "vulkan",
           NEW o \in UnmapVk(s, i)
    PROVE  AfterUnmap(s, o, i)
<1>0. s[i].handles = Staging /\ Fits(s[i].staged, s[i].format) /\ Type(i) # "png"
  BY DEF Sane, Sound, Fits, States, Record
<1>1. ASSUME NEW t, Sane(t)
      PROVE  /\ Touches(t, Accessed(t, i, {}), i) /\ Accessed(t, i, {})[i].access = {}
             /\ Accessed(t, i, {})[i].pixels = t[i].pixels
  BY <1>1, Closing
<1> DEFINE u == Painted(s, i, s[i].staged)
<1>2. Touches(s, u, i) /\ u[i].pixels = s[i].staged
  BY <1>0, Painting
<1>3. Touches(s, s, i)
  BY TouchesNothing
<1>4. \/ "write" \notin s[i].access /\ o.s = Accessed(s, i, {}) /\ o.r = "true"
      \/ "write" \in s[i].access /\ o.s = Accessed(u, i, {}) /\ o.r = "true"
      \/ "write" \in s[i].access /\ o.s \in {Accessed(u, i, {}), Accessed(s, i, {})} /\ o.r = "false"
  <2>1. CASE "write" \notin s[i].access
    <3>1. o \in FinallyAnd(Success(s), LAMBDA t : Success(Accessed(t, i, {})))
      BY <2>1 DEF UnmapVk, Asserting
    <3>2. o \in Success(Accessed(s, i, {}))
      BY <3>1 DEF FinallyAnd, Branch, Success, Return, Out
    <3> QED
      BY <2>1, <3>2 DEF Success, Return, Out
  <2>2. CASE "write" \in s[i].access
    <3>1. o \in FinallyAnd(CopyBufferToImage(s, i), LAMBDA t : Success(Accessed(t, i, {})))
      BY <2>2 DEF UnmapVk, Asserting
    <3>2. PICK m \in CopyBufferToImage(s, i) :
             \/ m.r = "true" /\ o \in Success(Accessed(m.s, i, {}))
             \/ m.r = "false" /\ o \in Branch(Success(Accessed(m.s, i, {})), Failure, Failure)
             \/ m.r \notin {"true", "false"} /\ o = m
      BY <3>1 DEF FinallyAnd, Branch
    <3>3. \/ m = Out(u, "true") \/ m = Out(u, "false") \/ m = Out(s, "false")
      BY DEF Painted, CopyBufferToImage, Success, Failure, Return
    <3> HIDE DEF u
    <3> QED
      BY <2>2, <3>2, <3>3 DEF Branch, Success, Failure, Return, Out
  <2> QED
    BY <2>1, <2>2
<1> HIDE DEF u
<1>5. Sane(u) /\ Sane(s)
  BY <1>2 DEF Touches
<1>6. /\ Touches(s, Accessed(s, i, {}), i) /\ Accessed(s, i, {})[i].access = {}
      /\ Accessed(s, i, {})[i].pixels = s[i].pixels
  BY <1>1, <1>5
<1>7. /\ Touches(s, Accessed(u, i, {}), i) /\ Accessed(u, i, {})[i].access = {}
      /\ Accessed(u, i, {})[i].pixels = s[i].staged
  BY <1>1, <1>2, <1>5, TouchesTwice
<1> QED
  BY <1>4, <1>6, <1>7 DEF AfterUnmap, Mapped

(* unmap_pixels() of whatever kind of image.                                *)
LEMMA Unmapping ==
    ASSUME NEW s, Sane(s), NEW i \in All, Type(i) # "png" => s[i].access # {},
           NEW o \in UnmapPixels(s, i)
    PROVE  AfterUnmap(s, o, i)
<1>1. CASE Type(i) = "vulkan"
  BY <1>1, UnmappingVk DEF UnmapPixels
<1>2. CASE Type(i) # "vulkan"
  <2>1. o \in Success(Accessed(s, i, {}))
    BY <1>2, Types DEF UnmapPixels, Asserting
  <2>2. o.s = Accessed(s, i, {}) /\ o.r = "true"
    BY <2>1 DEF Success, Return, Out
  <2>3. Type(i) = "png" => "write" \notin s[i].access
    BY DEF Sane, Sound
  <2>4. /\ Touches(s, Accessed(s, i, {}), i) /\ Accessed(s, i, {})[i].access = {}
        /\ Accessed(s, i, {})[i].pixels = s[i].pixels
    BY Closing
  <2>5. CASE Type(i) = "pixels"
    BY <2>2, <2>4, <2>5 DEF AfterUnmap, Mapped
  <2>6. CASE Type(i) = "png"
    BY <2>2, <2>3, <2>4, <2>6 DEF AfterUnmap
  <2> QED
    BY <1>2, <2>5, <2>6, Types
<1> QED
  BY <1>1, <1>2

(* Writing through a map.                                                   *)
LEMMA Writing ==
    ASSUME NEW s, Sane(s), NEW i \in All, Type(i) # "png", NEW p, Fits(p, s[i].format)
    PROVE  /\ Touches(s, WithMapped(s, i, p), i)
           /\ WithMapped(s, i, p)[i].access = s[i].access
           /\ Mapped(WithMapped(s, i, p), i) = p
<1>1. CASE Type(i) = "pixels"
  <2>1. WithMapped(s, i, p) = Painted(s, i, p)
    BY <1>1 DEF WithMapped, Painted
  <2> QED
    BY <1>1, <2>1, Painting DEF Mapped
<1>2. CASE Type(i) # "pixels"
  <2>1. WithMapped(s, i, p) = Filled(s, i, p)
    BY <1>2 DEF WithMapped, Filled
  <2> QED
    BY <1>2, <2>1, Filling DEF Mapped
<1> QED
  BY <1>1, <1>2

(* A copy function makes what the destination can hold.                     *)
LEMMA Converting ==
    ASSUME NEW p \in Picture \cup {Garbage}, NEW format
    PROVE  Fits(Converted(p, format), format)
BY DEF Fits, Converted, Picture, EightBit

-----------------------------------------------------------------------------
(* Operations on several images: only those in X change, and none in what   *)
(* calls never touch.                                                       *)
Kept(s, t, X) ==
    /\ Sane(t)
    /\ \A j \in All \ X : t[j] = s[j]
    /\ \A j \in All :
          t[j].refs = s[j].refs /\ t[j].by_test = s[j].by_test /\ t[j].format = s[j].format

(* A change to one of several images.                                       *)
LEMMA KeptByTouching ==
    ASSUME NEW s, NEW t, NEW i \in All, NEW X, i \in X, Touches(s, t, i)
    PROVE  Kept(s, t, X)
BY DEF Kept, Touches

(* Two changes to the same images.                                          *)
LEMMA KeptTwice ==
    ASSUME NEW s, NEW t, NEW u, NEW X, Kept(s, t, X), Kept(t, u, X)
    PROVE  Kept(s, u, X)
BY DEF Kept

(* An operation on unmapped images has unmapped them, and changed none but, *)
(* perhaps, the picture of one.                                             *)
GivenBack(s, t, X, dest) ==
    /\ Kept(s, t, X)
    /\ \A j \in X : t[j].access = {}
    /\ \A j \in X \ {dest} : t[j].pixels = s[j].pixels

AfterCall(s, o, X, dest) ==
    o.r \in {"true", "false"} /\ GivenBack(s, o.s, X, dest)

-----------------------------------------------------------------------------
(* cru_image_copy().                                                        *)

(* What cru_image_copy_pixels_to_pixels() does with the source mapped.      *)
Into(s, t, dest, src) ==
    Then(MapPixels(t, dest, {"write"}), LAMBDA u :
        FinallyAnd(
            IF HasCopyFunc(s[src].format, s[dest].format)
            THEN Success(WithMapped(u, dest, Converted(Mapped(u, src), s[dest].format)))
            ELSE Failure(u),
            LAMBDA v : UnmapPixels(v, dest)))

(* The destination is unmapped again, with the converted picture if true.   *)
LEMMA CopyingInto ==
    ASSUME NEW s, NEW t, Sane(t), NEW dest \in All, NEW src \in All, dest # src,
           Type(dest) # "png", t[dest].access = {}, t[dest].format = s[dest].format,
           Mapped(t, src) \in Picture \cup {Garbage},
           NEW o \in Into(s, t, dest, src)
    PROVE  /\ o.r \in {"true", "false"}
           /\ Touches(t, o.s, dest) /\ o.s[dest].access = {}
           /\ o.r = "true" => o.s[dest].pixels = Converted(Mapped(t, src), s[dest].format)
<1> DEFINE written(u) == WithMapped(u, dest, Converted(Mapped(u, src), s[dest].format))
           first(u) == IF HasCopyFunc(s[src].format, s[dest].format)
                       THEN Success(written(u)) ELSE Failure(u)
           rest(u) == FinallyAnd(first(u), LAMBDA v : UnmapPixels(v, dest))
<1>1. PICK m \in MapPixels(t, dest, {"write"}) :
          \/ m.r = "true" /\ o \in rest(m.s)
          \/ m.r = "false" /\ o = Out(m.s, "false")
          \/ m.r \notin {"true", "false"} /\ o = m
  BY DEF Into, Then, Branch, Failure, Return
<1>2. AfterMap(t, m, dest, {"write"})
  <2> DEFINE access == {"write"}
  <2>1. Mappable(dest, access)
    BY DEF Mappable
  <2> HIDE DEF access
  <2>2. \A n \in MapPixels(t, dest, access) : AfterMap(t, n, dest, access)
    BY <2>1, Mapping
  <2> QED
    BY <2>2 DEF access
<1>3. CASE m.r = "false"
  BY <1>1, <1>2, <1>3 DEF AfterMap, Out
<1>4. CASE m.r = "true"
  <2> DEFINE u == m.s
             p == Converted(Mapped(u, src), s[dest].format)
  <2>1. Touches(t, u, dest) /\ u[dest].access = {"write"}
    BY <1>2, <1>4 DEF AfterMap
  <2>2. u[src] = t[src] /\ Mapped(u, src) = Mapped(t, src) /\ Sane(u)
    BY <2>1 DEF Touches, Mapped
  <2>3. Fits(p, u[dest].format)
    BY <2>1, <2>2, Converting DEF Touches
  <2>4. /\ Touches(u, written(u), dest) /\ written(u)[dest].access = {"write"}
        /\ Mapped(written(u), dest) = p
    BY <2>1, <2>2, <2>3, Writing
  <2>5. o \in rest(u)
    BY <1>1, <1>4
  <2>6. PICK n \in first(u) :
            \/ n.r = "true" /\ o \in UnmapPixels(n.s, dest)
            \/ n.r = "false" /\ o \in Branch(UnmapPixels(n.s, dest), Failure, Failure)
            \/ n.r \notin {"true", "false"} /\ o = n
    <3> HIDE DEF first
    <3> QED
      BY <2>5 DEF FinallyAnd, Branch
  <2>7. n = Out(written(u), "true") \/ n = Out(u, "false")
    BY <2>6 DEF Success, Failure, Return
  <2> HIDE DEF rest, first, written, u
  <2>8. /\ Touches(t, n.s, dest) /\ n.s[dest].access = {"write"}
        /\ n.r \in {"true", "false"}
        /\ n.r = "true" => Mapped(n.s, dest) = p
    BY <2>1, <2>4, <2>7, TouchesTwice DEF Out
  <2> HIDE DEF p
  <2>9. PICK k \in UnmapPixels(n.s, dest) :
            \/ n.r = "true" /\ o = k
            \/ n.r = "false" /\ o.r \in {"false", k.r} /\ o.s = k.s /\ o.r # "true"
    <3>1. CASE n.r = "true"
      BY <2>6, <3>1
    <3>2. CASE n.r = "false"
      <4>1. PICK k \in UnmapPixels(n.s, dest) :
                \/ k.r = "true" /\ o \in Failure(k.s)
                \/ k.r = "false" /\ o \in Failure(k.s)
                \/ k.r \notin {"true", "false"} /\ o = k
        BY <2>6, <3>2 DEF Branch
      <4> QED
        BY <3>2, <4>1 DEF Failure, Return, Out
    <3> QED
      BY <2>8, <3>1, <3>2
  <2>10. AfterUnmap(n.s, k, dest)
    <3>1. Sane(n.s) /\ n.s[dest].access # {}
      BY <2>8 DEF Touches
    <3> QED
      BY <3>1, Unmapping
  <2>11. o.r \in {"true", "false"} /\ o.s = k.s
    BY <2>9, <2>10 DEF AfterUnmap
  <2>12. Touches(t, o.s, dest) /\ o.s[dest].access = {}
    BY <2>8, <2>10, <2>11, TouchesTwice DEF AfterUnmap
  <2>13. ASSUME o.r = "true" PROVE o.s[dest].pixels = p
    BY <2>8, <2>9, <2>10, <2>13 DEF AfterUnmap
  <2> QED
    BY <2>2, <2>11, <2>12, <2>13 DEF p, u
<1> QED
  BY <1>2, <1>3, <1>4 DEF AfterMap

(* The mapping that copies, comparisons and writes begin with.              *)
LEMMA MappingToRead ==
    ASSUME NEW s, Sane(s), NEW i \in All, s[i].access = {},
           NEW o \in MapPixels(s, i, {"read"})
    PROVE  AfterMap(s, o, i, {"read"})
<1> DEFINE access == {"read"}
<1>1. Mappable(i, access)
  BY DEF Mappable
<1> HIDE DEF access
<1>2. \A n \in MapPixels(s, i, access) : AfterMap(s, n, i, access)
  BY <1>1, Mapping
<1> QED
  BY <1>2 DEF access

(* An image mapped for reading is unmapped whatever the outcome so far.     *)
Readable(s, i) ==
    /\ Sane(s) /\ "write" \notin s[i].access
    /\ Type(i) # "png" => s[i].access # {}

Unmapped(outs, i) == Finally(outs, LAMBDA u : UnmapPixels(u, i))

(* Unmapping what was mapped for reading changes no outcome.                *)
LEMMA UnmappingAfter ==
    ASSUME NEW i \in All, NEW outs,
           \A m \in outs : m.r \in {"true", "false"} /\ Readable(m.s, i),
           NEW o \in Unmapped(outs, i)
    PROVE  \E m \in outs : /\ o.r = m.r
                           /\ Touches(m.s, o.s, i)
                           /\ o.s[i].access = {} /\ o.s[i].pixels = m.s[i].pixels
<1>1. PICK m \in outs :
          \/ m.r = "true" /\ o \in Branch(UnmapPixels(m.s, i), Success, Success)
          \/ m.r = "false" /\ o \in Branch(UnmapPixels(m.s, i), Failure, Failure)
          \/ m.r \notin {"true", "false"} /\ o = m
  BY DEF Unmapped, Finally, Branch
<1>2. m.r \in {"true", "false"} /\ Readable(m.s, i)
  OBVIOUS
<1>3. \A k \in UnmapPixels(m.s, i) : AfterUnmap(m.s, k, i) /\ k.r = "true"
  BY <1>2, Unmapping DEF Readable, AfterUnmap
<1>4. PICK k \in UnmapPixels(m.s, i) : o.s = k.s /\ o.r = m.r
  <2>1. CASE m.r = "true"
    <3>1. PICK k \in UnmapPixels(m.s, i) :
             \/ k.r \in {"true", "false"} /\ o \in Success(k.s)
             \/ k.r \notin {"true", "false"} /\ o = k
      BY <1>1, <2>1 DEF Branch
    <3> QED
      BY <1>3, <2>1, <3>1 DEF Success, Return, Out
  <2>2. CASE m.r = "false"
    <3>1. PICK k \in UnmapPixels(m.s, i) :
             \/ k.r \in {"true", "false"} /\ o \in Failure(k.s)
             \/ k.r \notin {"true", "false"} /\ o = k
      BY <1>1, <2>2 DEF Branch
    <3> QED
      BY <1>3, <2>2, <3>1 DEF Failure, Return, Out
  <2> QED
    BY <1>2, <2>1, <2>2
<1> QED
  BY <1>2, <1>3, <1>4 DEF AfterUnmap, Readable

(* A source that was mapped for reading stays so while others change.       *)
LEMMA StaysReadable ==
    ASSUME NEW s, NEW t, NEW i \in All, Readable(s, i), Sane(t), t[i] = s[i]
    PROVE  Readable(t, i) /\ Mapped(t, i) = Mapped(s, i)
BY DEF Readable, Mapped

(* What has been mapped for reading shows the picture.                      *)
LEMMA ReadableOnceMapped ==
    ASSUME NEW s, NEW i \in All, NEW m, AfterMap(s, m, i, {"read"}), m.r = "true"
    PROVE  Readable(m.s, i) /\ Mapped(m.s, i) = s[i].pixels
<1>1. Sane(m.s) /\ Mapped(m.s, i) = s[i].pixels /\ (Type(i) # "png" => m.s[i].access = {"read"})
  BY DEF AfterMap, Touches
<1>2. CASE Type(i) = "png"
  BY <1>1, <1>2 DEF Readable, Sane, Sound
<1>3. CASE Type(i) # "png"
  BY <1>1, <1>3 DEF Readable
<1> QED
  BY <1>1, <1>2, <1>3

(* cru_image_copy_pixels_to_pixels().                                       *)
LEMMA CopyingPixels ==
    ASSUME NEW s, Sane(s), NEW dest \in All, NEW src \in All, dest # src,
           Type(dest) # "png", s[dest].access = {}, s[src].access = {},
           NEW o \in CopyPixelsToPixels(s, dest, src)
    PROVE  /\ AfterCall(s, o, {dest, src}, dest)
           /\ o.r = "true" =>
                 o.s[dest].pixels = Converted(s[src].pixels, s[dest].format)
<1> DEFINE both == {dest, src}
<1>0. dest \in both /\ src \in both /\ \A j \in both : j = dest \/ j = src
  OBVIOUS
<1>1. PICK m \in MapPixels(s, src, {"read"}) :
          \/ m.r = "true" /\ o \in Unmapped(Into(s, m.s, dest, src), src)
          \/ m.r = "false" /\ o = Out(m.s, "false")
          \/ m.r \notin {"true", "false"} /\ o = m
  BY DEF CopyPixelsToPixels, Into, Unmapped, Then, Branch, Failure, Return
<1>2. AfterMap(s, m, src, {"read"})
  BY MappingToRead
<1>3. m.s[dest] = s[dest] /\ Touches(s, m.s, src) /\ m.r \in {"true", "false"}
  BY <1>2 DEF AfterMap, Touches
<1> HIDE DEF both
<1>4. CASE m.r = "false"
  <2>1. o.s = m.s /\ o.r = "false" /\ m.s[src].access = {} /\ m.s[src].pixels = s[src].pixels
    BY <1>1, <1>2, <1>4 DEF AfterMap, Out
  <2>2. Kept(s, o.s, both)
    BY <1>0, <1>3, <2>1, KeptByTouching
  <2>3. AfterCall(s, o, both, dest)
    BY <1>0, <1>3, <2>1, <2>2 DEF AfterCall, GivenBack
  <2> QED
    BY <2>1, <2>3 DEF both
<1>5. CASE m.r = "true"
  <2>1. Readable(m.s, src) /\ Mapped(m.s, src) = s[src].pixels
    BY <1>2, <1>5, ReadableOnceMapped
  <2>2. Mapped(m.s, src) \in Picture \cup {Garbage} /\ Sane(m.s)
    BY <1>3, <2>1, PixelsFit DEF Fits, Touches
  <2>3. ASSUME NEW k \in Into(s, m.s, dest, src)
        PROVE  /\ k.r \in {"true", "false"}
               /\ Touches(m.s, k.s, dest) /\ k.s[dest].access = {}
               /\ k.r = "true" => k.s[dest].pixels = Converted(s[src].pixels, s[dest].format)
               /\ Readable(k.s, src)
    <3>1. /\ k.r \in {"true", "false"}
          /\ Touches(m.s, k.s, dest) /\ k.s[dest].access = {}
          /\ k.r = "true" => k.s[dest].pixels = Converted(s[src].pixels, s[dest].format)
      BY <1>3, <2>1, <2>2, CopyingInto
    <3>2. k.s[src] = m.s[src] /\ Sane(k.s)
      BY <3>1 DEF Touches
    <3> QED
      BY <2>1, <3>1, <3>2, StaysReadable
  <2> DEFINE outs == Into(s, m.s, dest, src)
  <2>4. o \in Unmapped(outs, src)
    BY <1>1, <1>5
  <2> HIDE DEF outs
  <2>5. PICK k \in outs : /\ o.r = k.r
                          /\ Touches(k.s, o.s, src)
                          /\ o.s[src].access = {} /\ o.s[src].pixels = k.s[src].pixels
    <3>1. \A k \in outs : k.r \in {"true", "false"} /\ Readable(k.s, src)
      BY <2>3 DEF outs
    <3> QED
      BY <2>4, <3>1, UnmappingAfter
  <2>6. /\ k.r \in {"true", "false"}
        /\ Touches(m.s, k.s, dest) /\ k.s[dest].access = {}
        /\ k.r = "true" => k.s[dest].pixels = Converted(s[src].pixels, s[dest].format)
    BY <2>3 DEF outs
  <2>7. Kept(s, m.s, both) /\ Kept(m.s, k.s, both) /\ Kept(k.s, o.s, both)
    BY <1>0, <1>3, <2>5, <2>6, KeptByTouching
  <2>8. Kept(s, o.s, both)
    BY <2>7, KeptTwice
  <2>9. k.s[src] = m.s[src] /\ o.s[dest] = k.s[dest]
    BY <2>5, <2>6 DEF Touches
  <2>10. o.s[src].pixels = s[src].pixels
    BY <1>2, <2>5, <2>9 DEF AfterMap
  <2>11. AfterCall(s, o, both, dest)
    BY <1>0, <2>5, <2>6, <2>8, <2>9, <2>10 DEF AfterCall, GivenBack
  <2>12. o.r = "true" => o.s[dest].pixels = Converted(s[src].pixels, s[dest].format)
    BY <2>5, <2>6, <2>9
  <2> QED
    BY <2>11, <2>12 DEF both
<1> QED
  BY <1>3, <1>4, <1>5

-----------------------------------------------------------------------------
(* cru_image_compare().                                                     *)

(* With both images mapped.                                                 *)
Equal(u, a, b) ==
    Unmapped(Unmapped(IF Mapped(u, a) = Mapped(u, b) THEN Success(u) ELSE Failure(u), a), b)

(* Both are unmapped, and only equal memory makes true.                     *)
LEMMA ComparingMapped ==
    ASSUME NEW u, Sane(u), NEW a \in All, NEW b \in All, a # b,
           Readable(u, a), Readable(u, b), NEW o \in Equal(u, a, b)
    PROVE  /\ AfterCall(u, o, {a, b}, a) /\ o.s[a].pixels = u[a].pixels
           /\ o.r = "true" => Mapped(u, a) = Mapped(u, b)
<1> DEFINE both == {a, b}
           outs == IF Mapped(u, a) = Mapped(u, b) THEN Success(u) ELSE Failure(u)
           mid == Unmapped(outs, a)
<1>0. a \in both /\ b \in both /\ \A j \in both : j = a \/ j = b
  OBVIOUS
<1>1. \A m \in outs : /\ m.r \in {"true", "false"} /\ m.s = u
                      /\ m.r = "true" => Mapped(u, a) = Mapped(u, b)
  BY DEF Success, Failure, Return, Out
<1>2. o \in Unmapped(mid, b)
  BY DEF Equal
<1> HIDE DEF outs, both
<1>3. \A m \in mid : \E n \in outs :
          /\ m.r = n.r /\ Touches(n.s, m.s, a)
          /\ m.s[a].access = {} /\ m.s[a].pixels = n.s[a].pixels
  BY <1>1, UnmappingAfter
<1>4. \A m \in mid : /\ m.r \in {"true", "false"} /\ Touches(u, m.s, a)
                     /\ m.s[a].access = {} /\ m.s[a].pixels = u[a].pixels
                     /\ m.r = "true" => Mapped(u, a) = Mapped(u, b)
  BY <1>1, <1>3
<1> HIDE DEF mid
<1>5. \A m \in mid : m.s[b] = u[b] /\ Sane(m.s)
  BY <1>4 DEF Touches
<1>6. \A m \in mid : m.r \in {"true", "false"} /\ Readable(m.s, b)
  BY <1>4, <1>5, StaysReadable
<1>7. PICK m \in mid : /\ o.r = m.r /\ Touches(m.s, o.s, b)
                       /\ o.s[b].access = {} /\ o.s[b].pixels = m.s[b].pixels
  BY <1>2, <1>6, UnmappingAfter
<1>8. o.s[a] = m.s[a]
  BY <1>7 DEF Touches
<1>9. Kept(u, m.s, both) /\ Kept(m.s, o.s, both)
  BY <1>0, <1>4, <1>7, KeptByTouching
<1>10. Kept(u, o.s, both)
  BY <1>9, KeptTwice
<1>11. AfterCall(u, o, both, a)
  BY <1>0, <1>4, <1>5, <1>7, <1>8, <1>10 DEF AfterCall, GivenBack
<1> QED
  BY <1>4, <1>7, <1>8, <1>11 DEF both

(* cru_image_compare(), which may fail to map the second image.             *)
LEMMA Comparing ==
    ASSUME NEW s, Sane(s), NEW a \in All, NEW b \in All,
           s[a].access = {}, s[b].access = {}, NEW o \in CompareOutcomes(s, a, b)
    PROVE  /\ AfterCall(s, o, {a, b}, a) /\ o.s[a].pixels = s[a].pixels
           /\ o.r = "true" => s[a].pixels = s[b].pixels
<1> DEFINE both == {a, b}
           second(t) == Branch(MapPixels(t, b, {"read"}),
                LAMBDA u : Equal(u, a, b), LAMBDA u : Unmapped(Failure(u), a))
<1>0. a \in both /\ b \in both /\ \A j \in both : j = a \/ j = b
  OBVIOUS
<1>1. \/ a = b /\ o = Out(s, "true")
      \/ o = Out(s, "false")
      \/ a # b /\ o \in Then(MapPixels(s, a, {"read"}), LAMBDA t : second(t))
  BY DEF CompareOutcomes, Equal, Unmapped, Success, Failure, Return
<1> HIDE DEF both
<1>2. CASE o \in {Out(s, "true"), Out(s, "false")} /\ (o.r = "true" => a = b)
  <2>1. o.s = s /\ o.r \in {"true", "false"}
    BY <1>2 DEF Out
  <2>2. Kept(s, o.s, both)
    BY <2>1 DEF Kept
  <2>3. AfterCall(s, o, both, a)
    BY <1>0, <2>1, <2>2 DEF AfterCall, GivenBack
  <2> QED
    BY <1>2, <2>1, <2>3 DEF both
<1>3. CASE a # b /\ o \in Then(MapPixels(s, a, {"read"}), LAMBDA t : second(t))
  <2>1. PICK m \in MapPixels(s, a, {"read"}) :
            \/ m.r = "true" /\ o \in second(m.s)
            \/ m.r = "false" /\ o = Out(m.s, "false")
            \/ m.r \notin {"true", "false"} /\ o = m
    <3> HIDE DEF second
    <3> QED
      BY <1>3 DEF Then, Branch, Failure, Return
  <2>2. AfterMap(s, m, a, {"read"})
    BY MappingToRead
  <2>3. /\ m.r \in {"true", "false"} /\ Touches(s, m.s, a) /\ m.s[b] = s[b]
        /\ m.s[a].pixels = s[a].pixels /\ Sane(m.s)
    BY <1>3, <2>2 DEF AfterMap, Touches
  <2>4. Kept(s, m.s, both)
    BY <1>0, <2>3, KeptByTouching
  <2>5. CASE m.r = "false"
    <3>1. o.s = m.s /\ o.r = "false" /\ m.s[a].access = {}
      BY <2>1, <2>2, <2>5 DEF AfterMap, Out
    <3>2. AfterCall(s, o, both, a)
      BY <1>0, <2>3, <2>4, <3>1 DEF AfterCall, GivenBack
    <3> QED
      BY <2>3, <3>1, <3>2 DEF both
  <2>6. CASE m.r = "true"
    <3>1. Readable(m.s, a) /\ Mapped(m.s, a) = s[a].pixels
      BY <2>2, <2>6, ReadableOnceMapped
    <3>2. PICK k \in MapPixels(m.s, b, {"read"}) :
              \/ k.r = "true" /\ o \in Equal(k.s, a, b)
              \/ k.r = "false" /\ o \in Unmapped(Failure(k.s), a)
              \/ k.r \notin {"true", "false"} /\ o = k
      BY <2>1, <2>6 DEF Branch
    <3>3. AfterMap(m.s, k, b, {"read"})
      BY <2>3, MappingToRead
    <3>4. /\ k.r \in {"true", "false"} /\ Touches(m.s, k.s, b) /\ k.s[a] = m.s[a]
          /\ k.s[b].pixels = s[b].pixels /\ Sane(k.s)
      BY <1>3, <2>3, <3>3 DEF AfterMap, Touches
    <3>5. Kept(s, k.s, both)
      <4>1. Kept(m.s, k.s, both)
        BY <1>0, <3>4, KeptByTouching
      <4> QED
        BY <2>4, <4>1, KeptTwice
    <3>6. Readable(k.s, a) /\ Mapped(k.s, a) = s[a].pixels
      BY <3>1, <3>4, StaysReadable
    <3>7. CASE k.r = "true"
      <4>1. Readable(k.s, b) /\ Mapped(k.s, b) = s[b].pixels
        BY <2>3, <3>3, <3>7, ReadableOnceMapped
      <4>2. /\ AfterCall(k.s, o, {a, b}, a) /\ o.s[a].pixels = k.s[a].pixels
            /\ o.r = "true" => Mapped(k.s, a) = Mapped(k.s, b)
        BY <1>3, <3>2, <3>4, <3>6, <3>7, <4>1, ComparingMapped
      <4>3. AfterCall(k.s, o, both, a)
        BY <4>2 DEF both
      <4>4. Kept(s, o.s, both)
        BY <3>5, <4>3, KeptTwice DEF AfterCall, GivenBack
      <4>5. AfterCall(s, o, both, a)
        BY <1>0, <3>4, <4>3, <4>4 DEF AfterCall, GivenBack
      <4> QED
        BY <2>3, <3>4, <3>6, <4>1, <4>2, <4>5 DEF both
    <3>8. CASE k.r = "false"
      <4> DEFINE outs == Failure(k.s)
      <4>1. \A n \in outs : n.s = k.s /\ n.r = "false"
        BY DEF Failure, Return, Out
      <4>2. o \in Unmapped(outs, a)
        BY <3>2, <3>8
      <4> HIDE DEF outs
      <4>3. PICK n \in outs : /\ o.r = n.r /\ Touches(n.s, o.s, a)
                              /\ o.s[a].access = {} /\ o.s[a].pixels = n.s[a].pixels
        BY <3>6, <4>1, <4>2, UnmappingAfter
      <4>4. o.r = "false" /\ Touches(k.s, o.s, a) /\ o.s[a].pixels = s[a].pixels
        BY <2>3, <3>4, <4>1, <4>3
      <4>5. o.s[b] = k.s[b] /\ k.s[b].access = {}
        BY <1>3, <3>3, <3>8, <4>4 DEF AfterMap, Touches
      <4>6. Kept(s, o.s, both)
        BY <1>0, <3>5, <4>4, KeptByTouching, KeptTwice
      <4>7. AfterCall(s, o, both, a)
        BY <1>0, <3>4, <4>3, <4>4, <4>5, <4>6 DEF AfterCall, GivenBack
      <4> QED
        BY <4>4, <4>7 DEF both
    <3> QED
      BY <3>4, <3>7, <3>8
  <2> QED
    BY <2>3, <2>5, <2>6
<1> QED
  <2>1. CASE a = b /\ o = Out(s, "true")
    BY <1>2, <2>1
  <2>2. CASE o = Out(s, "false")
    <3>1. o.r = "false"
      BY <2>2 DEF Out
    <3> QED
      BY <1>2, <2>2, <3>1
  <2> QED
    BY <1>1, <1>3, <2>1, <2>2

-----------------------------------------------------------------------------
(* PNG files and the temporary image.                                       *)
LEMMA WritingDirect ==
    ASSUME NEW s, Sane(s), NEW i \in All, s[i].access = {}, NEW o \in WriteDirect(s, i)
    PROVE  AfterCall(s, o, {i}, i)
<1> DEFINE outs(t) == Success(t) \cup Failure(t)
           X == {i}
<1>0. i \in X /\ \A j \in X : j = i
  OBVIOUS
<1>1. PICK m \in MapPixels(s, i, {"read"}) :
          \/ m.r = "true" /\ o \in Unmapped(outs(m.s), i)
          \/ m.r = "false" /\ o = Out(m.s, "false")
          \/ m.r \notin {"true", "false"} /\ o = m
  BY DEF WriteDirect, Unmapped, Then, Branch, Failure, Return
<1>2. AfterMap(s, m, i, {"read"})
  BY MappingToRead
<1>3. \A n \in outs(m.s) : n.s = m.s /\ n.r \in {"true", "false"}
  BY DEF Success, Failure, Return, Out
<1> HIDE DEF outs, X
<1>4. CASE m.r = "false"
  <2>1. o.s = m.s /\ o.r = "false"
    BY <1>1, <1>4 DEF Out
  <2> QED
    BY <1>0, <1>2, <1>4, <2>1, KeptByTouching DEF AfterMap, AfterCall, GivenBack, X
<1>5. CASE m.r = "true"
  <2>1. Readable(m.s, i)
    BY <1>2, <1>5, ReadableOnceMapped
  <2>2. o \in Unmapped(outs(m.s), i)
    BY <1>1, <1>5
  <2>3. PICK n \in outs(m.s) : o.r = n.r /\ Touches(n.s, o.s, i) /\ o.s[i].access = {}
    BY <1>3, <2>1, <2>2, UnmappingAfter
  <2>4. Touches(s, m.s, i) /\ Touches(m.s, o.s, i) /\ o.r \in {"true", "false"}
    BY <1>2, <1>3, <2>3 DEF AfterMap
  <2>5. Kept(s, o.s, X)
    BY <1>0, <2>4, TouchesTwice, KeptByTouching
  <2> QED
    BY <1>0, <2>3, <2>4, <2>5 DEF AfterCall, GivenBack, X
<1> QED
  BY <1>2, <1>4, <1>5 DEF AfterMap

(* copy_direct_from_png(), which may abort.                                 *)
LEMMA CopyingDirect ==
    ASSUME NEW s, Sane(s), NEW dest \in All, NEW png \in All, Type(dest) # "png",
           s[dest].access = {}, s[png].format = s[dest].format,
           NEW o \in CopyDirectFromPng(s, dest, png)
    PROVE  /\ o.r \in {"true", "false", "abort"}
           /\ Touches(s, o.s, dest) /\ o.s[dest].access = {}
           /\ o.r = "true" => o.s[dest].pixels = s[png].pixels
<1> DEFINE p == s[png].pixels
           outs(t) == Success(WithMapped(t, dest, p)) \cup Failure(t)
           dies(u) == Return(u, "abort")
           rest(t) == Branch(outs(t),
               LAMBDA u : Branch(UnmapPixels(u, dest), Success, LAMBDA v : dies(v)),
               LAMBDA u : Branch(UnmapPixels(u, dest), Failure, LAMBDA v : dies(v)))
           access == {"write"}
<1>1. PICK m \in MapPixels(s, dest, access) :
          \/ m.r = "true" /\ o \in rest(m.s)
          \/ m.r = "false" /\ o = Out(m.s, "false")
          \/ m.r \notin {"true", "false"} /\ o = m
  BY DEF CopyDirectFromPng, Then, Branch, Failure, Return
<1>2. Mappable(dest, access)
  BY DEF Mappable
<1>3. Fits(p, s[dest].format)
  BY PixelsFit
<1>4. \A t, n : n \in outs(t) =>
          n = Out(WithMapped(t, dest, p), "true") \/ n = Out(t, "false")
  BY DEF Success, Failure, Return
<1> HIDE DEF p, outs, access
<1>5. AfterMap(s, m, dest, access)
  BY <1>2, Mapping
<1>6. CASE m.r = "false"
  BY <1>1, <1>5, <1>6 DEF AfterMap, Out
<1>7. CASE m.r = "true"
  <2> DEFINE t == m.s
  <2>1. Touches(s, t, dest) /\ t[dest].access = {"write"}
    BY <1>5, <1>7 DEF AfterMap, access
  <2>2. Sane(t) /\ Fits(p, t[dest].format)
    BY <1>3, <2>1 DEF Touches
  <2>3. /\ Touches(t, WithMapped(t, dest, p), dest)
        /\ WithMapped(t, dest, p)[dest].access = {"write"}
        /\ Mapped(WithMapped(t, dest, p), dest) = p
    BY <2>1, <2>2, Writing
  <2>4. PICK n \in outs(t) :
            \/ n.r = "true" /\ o \in Branch(UnmapPixels(n.s, dest), Success, LAMBDA v : dies(v))
            \/ n.r = "false" /\ o \in Branch(UnmapPixels(n.s, dest), Failure, LAMBDA v : dies(v))
            \/ n.r \notin {"true", "false"} /\ o = n
    BY <1>1, <1>7 DEF Branch
  <2>5. /\ Touches(s, n.s, dest) /\ n.s[dest].access = {"write"}
        /\ n.r \in {"true", "false"}
        /\ n.r = "true" => Mapped(n.s, dest) = p
    BY <1>4, <2>1, <2>3, TouchesTwice DEF Out
  <2>6. PICK k \in UnmapPixels(n.s, dest) :
            \/ k.r = "true" /\ o = Out(k.s, n.r)
            \/ k.r = "false" /\ o = Out(k.s, "abort")
            \/ k.r \notin {"true", "false"} /\ o = k
    <3>1. CASE n.r = "true"
      <4>1. o \in Branch(UnmapPixels(n.s, dest), Success, LAMBDA v : dies(v))
        BY <2>4, <3>1
      <4> QED
        BY <3>1, <4>1 DEF Branch, Success, Return
    <3>2. CASE n.r = "false"
      <4>1. o \in Branch(UnmapPixels(n.s, dest), Failure, LAMBDA v : dies(v))
        BY <2>4, <3>2
      <4> QED
        BY <3>2, <4>1 DEF Branch, Failure, Return
    <3> QED
      BY <2>5, <3>1, <3>2
  <2>7. AfterUnmap(n.s, k, dest)
    <3>1. Sane(n.s) /\ n.s[dest].access # {}
      BY <2>5 DEF Touches
    <3> QED
      BY <3>1, Unmapping
  <2>8. /\ o.s = k.s /\ o.r \in {"true", "false", "abort"}
        /\ o.r = "true" => n.r = "true" /\ k.r = "true"
    BY <2>5, <2>6, <2>7 DEF AfterUnmap, Out
  <2>9. Touches(s, o.s, dest) /\ o.s[dest].access = {}
    BY <2>5, <2>7, <2>8, TouchesTwice DEF AfterUnmap
  <2>10. o.r = "true" => o.s[dest].pixels = p
    BY <2>5, <2>7, <2>8 DEF AfterUnmap
  <2> QED
    BY <2>8, <2>9, <2>10 DEF p
<1> QED
  BY <1>5, <1>6, <1>7 DEF AfterMap

(* The temporary image comes and goes.                                      *)
WithTmp(s, format, refs) == [s EXCEPT ![Tmp] = Fresh(format, refs, Garbage)]

(* Creating it and releasing it leave the images of the test alone.         *)
LEMMA TmpComesAndGoes ==
    ASSUME NEW s, Sane(s), NEW format \in Format, NEW refs \in Nat
    PROVE  /\ Sane(WithTmp(s, format, refs))
           /\ WithTmp(s, format, refs)[Tmp] = Fresh(format, refs, Garbage)
           /\ \A j \in Image : WithTmp(s, format, refs)[j] = s[j]
<1> DEFINE t == WithTmp(s, format, refs)
           f == Fresh(format, refs, Garbage)
<1>1. s \in States /\ Tmp \in All /\ \A j \in Image : j \in All /\ j # Tmp
  BY TmpAssumption DEF Sane, All
<1>2. /\ f.held = {} /\ f.handles = {} /\ f.access = {} /\ f.staged = "none"
      /\ f.pixels = Garbage /\ f.format = format
  BY DEF Fresh
<1>3. f \in Record
  BY DEF Fresh, Record
<1> HIDE DEF f
<1>4. t \in States /\ t[Tmp] = f /\ \A j \in Image : t[j] = s[j]
  BY <1>1, <1>3 DEF f, WithTmp, States
<1> HIDE DEF t
<1>5. Type(Tmp) = "pixels"
  BY DEF Type
<1>6. Sound(t, Tmp)
  BY <1>2, <1>4, <1>5, TmpAssumption DEF Sound, Garbage
<1>7. \A j \in Image : Sound(t, j)
  BY <1>1, <1>4 DEF Sane, Sound
<1> QED
  BY <1>4, <1>6, <1>7 DEF t, f, Sane, All

TmpReleased(outs) == Finally(outs, ReleaseTmp)

(* Releasing it changes no outcome.                                         *)
LEMMA ReleasingTmp ==
    ASSUME NEW outs, NEW o \in TmpReleased(outs)
    PROVE  \E m \in outs :
              \/ m.r \in {"true", "false"} /\ o = Out(WithTmp(m.s, "r8", 0), m.r)
              \/ m.r \notin {"true", "false"} /\ o = m
<1>1. PICK m \in outs :
          \/ m.r = "true" /\ o \in Branch(ReleaseTmp(m.s), Success, Success)
          \/ m.r = "false" /\ o \in Branch(ReleaseTmp(m.s), Failure, Failure)
          \/ m.r \notin {"true", "false"} /\ o = m
  BY DEF TmpReleased, Finally, Branch
<1>2. \A n \in ReleaseTmp(m.s) : n.s = WithTmp(m.s, "r8", 0) /\ n.r = "true"
  BY DEF ReleaseTmp, WithTmp, Success, Return, Out
<1>3. CASE m.r = "true" /\ o \in Branch(ReleaseTmp(m.s), Success, Success)
  <2>1. PICK n \in ReleaseTmp(m.s) : n.r = "true" => o \in Success(n.s)
    BY <1>3 DEF Branch
  <2> QED
    BY <1>2, <1>3, <2>1 DEF Success, Return
<1>4. CASE m.r = "false" /\ o \in Branch(ReleaseTmp(m.s), Failure, Failure)
  <2>1. PICK n \in ReleaseTmp(m.s) : n.r = "true" => o \in Failure(n.s)
    BY <1>4 DEF Branch
  <2> QED
    BY <1>2, <1>4, <2>1 DEF Failure, Return
<1> QED
  BY <1>1, <1>3, <1>4

(* What cru_image_copy() leaves: true or false, the two images given back,  *)
(* with the picture converted if true; other pictures as they were even if  *)
(* the process dies.                                                        *)
AfterCopy(s, o, dest, src) ==
    /\ o.r \in {"true", "false", "abort"} /\ Sane(o.s)
    /\ \A i \in Image \ {dest} : o.s[i].pixels = s[i].pixels
    /\ o.r # "abort" => GivenBack(s, o.s, {dest, src}, dest)
    /\ o.r = "true" => o.s[dest].pixels = Converted(s[src].pixels, s[dest].format)

(* copy_indirect_from_png().                                                *)
LEMMA CopyingIndirect ==
    ASSUME NEW s, Sane(s), NEW dest \in Image, NEW png \in Image, dest # png,
           Type(dest) # "png", s[Tmp] = Idle, s[dest].access = {}, s[png].access = {},
           NEW o \in CopyIndirectFromPng(s, dest, png)
    PROVE  AfterCopy(s, o, dest, png)
<1>0. dest \in All /\ png \in All /\ Tmp \in All /\ dest # Tmp /\ png # Tmp
  BY TmpAssumption DEF All
<1> DEFINE format == s[png].format
           s1 == WithTmp(s, format, 1)
           outs == Then(CopyDirectFromPng(s1, Tmp, png), LAMBDA t :
                        CopyPixelsToPixels(t, dest, Tmp))
           X == {dest, png}
           Y == {dest, Tmp}
<1>1. dest \in X /\ png \in X /\ dest \in Y /\ Tmp \in Y /\ \A j \in X : j = dest \/ j = png
  OBVIOUS
<1>2. o \in TmpReleased(outs)
  BY DEF CopyIndirectFromPng, TmpReleased, CreateTmp, WithTmp
<1>3. format \in Format
  BY <1>0 DEF Sane, States, Record
<1>4. /\ Sane(s1) /\ s1[Tmp] = Fresh(format, 1, Garbage) /\ \A j \in Image : s1[j] = s[j]
  BY <1>3, TmpComesAndGoes
<1> HIDE DEF X, Y
<1>5. /\ Type(Tmp) # "png" /\ s1[Tmp].access = {} /\ s1[png].format = s1[Tmp].format
  BY <1>4 DEF Type, Fresh
<1> HIDE DEF s1, format
(* What reaches the release of the temporary image.                         *)
<1>6. ASSUME NEW m \in outs
      PROVE  /\ m.r \in {"true", "false", "abort"} /\ Sane(m.s)
             /\ \A j \in Image \ {dest} : m.s[j] = s[j]
             /\ m.s[dest].refs = s[dest].refs /\ m.s[dest].by_test = s[dest].by_test
             /\ m.s[dest].format = s[dest].format
             /\ m.s[dest].access = {}
             /\ m.r = "true" => m.s[dest].pixels = Converted(s[png].pixels, s[dest].format)
  <2>1. PICK k \in CopyDirectFromPng(s1, Tmp, png) :
            \/ k.r = "true" /\ m \in CopyPixelsToPixels(k.s, dest, Tmp)
            \/ k.r = "false" /\ m = Out(k.s, "false")
            \/ k.r \notin {"true", "false"} /\ m = k
    BY <1>6 DEF Then, Branch, Failure, Return
  <2>2. /\ k.r \in {"true", "false", "abort"}
        /\ Touches(s1, k.s, Tmp) /\ k.s[Tmp].access = {}
        /\ k.r = "true" => k.s[Tmp].pixels = s1[png].pixels
    BY <1>0, <1>4, <1>5, CopyingDirect
  <2>3. \A j \in Image : k.s[j] = s[j]
    BY <1>4, <2>2, TmpAssumption DEF Touches, All
  <2>4. CASE k.r # "true"
    <3>1. m.s = k.s /\ m.r = k.r
      BY <2>1, <2>2, <2>4 DEF Out
    <3> QED
      BY <2>2, <2>3, <2>4, <3>1 DEF Touches
  <2>5. CASE k.r = "true"
    <3>0. m \in CopyPixelsToPixels(k.s, dest, Tmp)
      BY <2>1, <2>5
    <3>1. /\ Sane(k.s) /\ k.s[dest] = s[dest] /\ k.s[Tmp].pixels = s[png].pixels
      BY <1>4, <2>2, <2>3, <2>5 DEF Touches
    <3>2. /\ AfterCall(k.s, m, {dest, Tmp}, dest)
          /\ m.r = "true" => m.s[dest].pixels = Converted(k.s[Tmp].pixels, k.s[dest].format)
      BY <1>0, <2>2, <3>0, <3>1, CopyingPixels
    <3>3. AfterCall(k.s, m, Y, dest)
      BY <3>2 DEF Y
    <3>4. \A j \in Image \ {dest} : j \in All \ Y
      BY TmpAssumption DEF All, Y
    <3>5. \A j \in Image \ {dest} : m.s[j] = s[j]
      BY <2>3, <3>3, <3>4 DEF AfterCall, GivenBack, Kept
    <3> QED
      BY <1>0, <1>1, <3>1, <3>2, <3>3, <3>5 DEF AfterCall, GivenBack, Kept
  <2> QED
    BY <2>4, <2>5
<1> HIDE DEF outs
<1>7. PICK m \in outs :
          \/ m.r \in {"true", "false"} /\ o = Out(WithTmp(m.s, "r8", 0), m.r)
          \/ m.r \notin {"true", "false"} /\ o = m
  BY <1>2, ReleasingTmp
<1>8. CASE m.r \notin {"true", "false"} /\ o = m
  BY <1>6, <1>8 DEF AfterCopy
<1>9. CASE m.r \in {"true", "false"} /\ o = Out(WithTmp(m.s, "r8", 0), m.r)
  <2> DEFINE t == WithTmp(m.s, "r8", 0)
  <2>1. o.s = t /\ o.r = m.r
    BY <1>9 DEF Out
  <2>2. Sane(t) /\ t[Tmp] = Idle /\ \A j \in Image : t[j] = m.s[j]
    <3>1. "r8" \in Format /\ 0 \in Nat
      BY DEF Format
    <3> QED
      BY <1>6, <3>1, TmpComesAndGoes DEF Idle
  <2> HIDE DEF t
  <2>3. \A j \in All \ {dest} : t[j] = s[j]
    BY <1>6, <2>2 DEF All
  <2>4. /\ t[dest].refs = s[dest].refs /\ t[dest].by_test = s[dest].by_test
        /\ t[dest].format = s[dest].format /\ t[dest].access = {}
    BY <1>6, <2>2
  <2>5. Kept(s, t, X)
    BY <1>1, <2>2, <2>3, <2>4 DEF Kept
  <2>6. GivenBack(s, t, X, dest)
    BY <1>0, <1>1, <2>3, <2>4, <2>5 DEF GivenBack
  <2>7. GivenBack(s, o.s, {dest, png}, dest)
    BY <2>1, <2>6 DEF X
  <2>8. \A i \in Image \ {dest} : t[i].pixels = s[i].pixels
    BY <2>3 DEF All
  <2>9. o.r = "true" => o.s[dest].pixels = Converted(s[png].pixels, s[dest].format)
    BY <1>6, <2>1, <2>2
  <2> QED
    BY <1>9, <2>1, <2>2, <2>7, <2>8, <2>9 DEF AfterCopy
<1> QED
  BY <1>7, <1>8, <1>9

(* cru_image_copy() of whatever kinds of image.                             *)
LEMMA Copying ==
    ASSUME NEW s, Sane(s), NEW dest \in All, NEW src \in Image,
           Type(src) = "png" => dest \in Image /\ s[Tmp] = Idle,
           s[dest].access = {}, s[src].access = {}, NEW o \in CopyOutcomes(s, dest, src)
    PROVE  AfterCopy(s, o, dest, src)
<1>0. src \in All /\ \A i \in Image : i \in All
  BY DEF All
<1> DEFINE X == {dest, src}
<1>1. dest \in X /\ src \in X /\ \A j \in X : j = dest \/ j = src
  OBVIOUS
<1> HIDE DEF X
<1>2. \/ o = Out(s, "false")
      \/ dest # src /\ Type(dest) # "png" /\ Type(src) # "png" /\ o \in CopyPixelsToPixels(s, dest, src)
      \/ dest # src /\ Type(dest) # "png" /\ Type(src) = "png" /\ s[src].format = s[dest].format
         /\ o \in CopyDirectFromPng(s, dest, src)
      \/ dest # src /\ Type(dest) # "png" /\ Type(src) = "png"
         /\ o \in CopyIndirectFromPng(s, dest, src)
  BY DEF CopyOutcomes, Failure, Return
<1>3. CASE o = Out(s, "false")
  <2>1. o.s = s /\ o.r = "false"
    BY <1>3 DEF Out
  <2>2. GivenBack(s, s, X, dest)
    BY <1>1 DEF GivenBack, Kept
  <2> QED
    BY <2>1, <2>2 DEF AfterCopy, X
<1>4. CASE dest # src /\ Type(dest) # "png" /\ o \in CopyPixelsToPixels(s, dest, src)
  <2>1. /\ AfterCall(s, o, {dest, src}, dest)
        /\ o.r = "true" => o.s[dest].pixels = Converted(s[src].pixels, s[dest].format)
    BY <1>0, <1>4, CopyingPixels
  <2>2. GivenBack(s, o.s, X, dest) /\ o.r \in {"true", "false"}
    BY <2>1 DEF AfterCall, X
  <2>3. \A i \in Image \ {dest} : o.s[i].pixels = s[i].pixels
    BY <1>0, <1>1, <2>2 DEF GivenBack, Kept
  <2>4. Sane(o.s)
    BY <2>2 DEF GivenBack, Kept
  <2> QED
    BY <2>1, <2>2, <2>3, <2>4 DEF AfterCopy, X
<1>5. CASE /\ dest # src /\ Type(dest) # "png" /\ Type(src) = "png"
           /\ s[src].format = s[dest].format /\ o \in CopyDirectFromPng(s, dest, src)
  <2>1. /\ o.r \in {"true", "false", "abort"}
        /\ Touches(s, o.s, dest) /\ o.s[dest].access = {}
        /\ o.r = "true" => o.s[dest].pixels = s[src].pixels
    BY <1>0, <1>5, CopyingDirect
  <2>2. Converted(s[src].pixels, s[dest].format) = s[src].pixels
    BY <1>0, <1>5, PixelsFit DEF Converted, Fits
  <2>3. Kept(s, o.s, X) /\ Sane(o.s)
    BY <1>1, <2>1, KeptByTouching DEF Touches
  <2>4. \A i \in All \ {dest} : o.s[i] = s[i]
    BY <2>1 DEF Touches
  <2>5. GivenBack(s, o.s, X, dest)
    BY <1>0, <1>1, <1>5, <2>1, <2>3, <2>4 DEF GivenBack
  <2> QED
    BY <1>0, <2>1, <2>2, <2>3, <2>4, <2>5 DEF AfterCopy, X
<1>6. CASE /\ dest # src /\ Type(dest) # "png" /\ Type(src) = "png"
           /\ o \in CopyIndirectFromPng(s, dest, src)
  BY <1>6, CopyingIndirect
<1> QED
  BY <1>2, <1>3, <1>4, <1>5, <1>6

(* cru_png_image_write_file().                                              *)
AfterWrite(s, o, i) ==
    /\ o.r \in {"true", "false", "abort"} /\ Sane(o.s)
    /\ o.r # "abort" => GivenBack(s, o.s, {i}, i)

(* cru_png_image_write_file(), directly or by way of a temporary image.     *)
LEMMA WritingFile ==
    ASSUME NEW s, Sane(s), NEW i \in Image, s[Tmp] = Idle, s[i].access = {},
           NEW o \in WriteOutcomes(s, i)
    PROVE  AfterWrite(s, o, i)
<1>0. i \in All /\ Tmp \in All /\ i # Tmp
  BY TmpAssumption DEF All
<1>1. CASE s[i].format \in {"rgba", "r8"}
  <2>1. o \in WriteDirect(s, i)
    BY <1>1 DEF WriteOutcomes
  <2>2. AfterCall(s, o, {i}, i)
    BY <1>0, <2>1, WritingDirect
  <2> QED
    BY <2>2 DEF AfterCall, AfterWrite, GivenBack, Kept
<1>2. CASE s[i].format \notin {"rgba", "r8"}
  <2> DEFINE s1 == WithTmp(s, "r8", 1)
             outs == Then(CopyOutcomes(s1, Tmp, i), LAMBDA t : WriteDirect(t, Tmp))
             X == {i}
             Y == {Tmp, i}
             Z == {Tmp}
  <2>0. /\ \A j \in X : j = i
        /\ i \in X /\ i \in Y /\ Tmp \in Y /\ i \notin Z /\ Tmp \in Z
        /\ \A j \in Image \ {i} : j \in All \ Y
    BY <1>0, TmpAssumption DEF All
  <2>1. o \in TmpReleased(outs)
    BY <1>2 DEF WriteOutcomes, TmpReleased, CreateTmp, WithTmp
  <2>2. /\ Sane(s1) /\ s1[Tmp] = Fresh("r8", 1, Garbage) /\ \A j \in Image : s1[j] = s[j]
    <3>1. "r8" \in Format /\ 1 \in Nat
      BY DEF Format
    <3> QED
      BY <3>1, TmpComesAndGoes
  <2>3. s1[Tmp].access = {} /\ Type(i) # "png"
    <3>1. Type(i) = TypeOf[i] /\ s[i].format = FormatOf[i]
      BY <1>0 DEF Type, Sane, Sound
    <3> QED
      BY <1>2, <2>2, <3>1, ImagesAssumption DEF Fresh
  <2> HIDE DEF s1, X, Y, Z
  <2>4. ASSUME NEW m \in outs
        PROVE  /\ m.r \in {"true", "false", "abort"} /\ Sane(m.s)
               /\ m.r # "abort" =>
                    /\ \A j \in Image \ {i} : m.s[j] = s[j]
                    /\ m.s[i].refs = s[i].refs /\ m.s[i].by_test = s[i].by_test
                    /\ m.s[i].format = s[i].format /\ m.s[i].access = {}
    <3>1. PICK k \in CopyOutcomes(s1, Tmp, i) :
              \/ k.r = "true" /\ m \in WriteDirect(k.s, Tmp)
              \/ k.r = "false" /\ m = Out(k.s, "false")
              \/ k.r \notin {"true", "false"} /\ m = k
      BY <2>4 DEF Then, Branch, Failure, Return
    <3>2. AfterCopy(s1, k, Tmp, i)
      BY <1>0, <2>2, <2>3, Copying
    <3>3. k.r \in {"true", "false", "abort"} /\ Sane(k.s)
      BY <3>2 DEF AfterCopy
    <3>4. CASE k.r = "abort"
      BY <3>1, <3>3, <3>4
    <3>5. CASE k.r # "abort"
      <4>1. GivenBack(s1, k.s, Y, Tmp)
        BY <3>2, <3>5 DEF AfterCopy, Y
      <4>2. /\ \A j \in Image \ {i} : k.s[j] = s[j]
            /\ k.s[i].refs = s[i].refs /\ k.s[i].by_test = s[i].by_test
            /\ k.s[i].format = s[i].format /\ k.s[i].access = {} /\ k.s[Tmp].access = {}
        BY <1>0, <2>0, <2>2, <4>1 DEF GivenBack, Kept
      <4>3. CASE k.r = "false"
        BY <3>1, <3>3, <4>2, <4>3 DEF Out
      <4>4. CASE k.r = "true"
        <5>1. AfterCall(k.s, m, {Tmp}, Tmp)
          BY <1>0, <3>1, <3>3, <4>2, <4>4, WritingDirect
        <5>2. m.r \in {"true", "false"} /\ Kept(k.s, m.s, Z)
          BY <5>1 DEF AfterCall, GivenBack, Z
        <5>3. \A j \in Image : j \in All \ Z
          BY TmpAssumption DEF All, Z
        <5>4. \A j \in Image : m.s[j] = k.s[j]
          BY <5>2, <5>3 DEF Kept
        <5> QED
          BY <4>2, <5>2, <5>4 DEF Kept
      <4> QED
        BY <3>3, <3>5, <4>3, <4>4
    <3> QED
      BY <3>4, <3>5
  <2> HIDE DEF outs
  <2>5. PICK m \in outs :
            \/ m.r \in {"true", "false"} /\ o = Out(WithTmp(m.s, "r8", 0), m.r)
            \/ m.r \notin {"true", "false"} /\ o = m
    BY <2>1, ReleasingTmp
  <2>6. CASE m.r \notin {"true", "false"} /\ o = m
    BY <2>4, <2>6 DEF AfterWrite
  <2>7. CASE m.r \in {"true", "false"} /\ o = Out(WithTmp(m.s, "r8", 0), m.r)
    <3> DEFINE t == WithTmp(m.s, "r8", 0)
    <3>1. o.s = t /\ o.r = m.r
      BY <2>7 DEF Out
    <3>2. Sane(t) /\ t[Tmp] = Idle /\ \A j \in Image : t[j] = m.s[j]
      <4>1. "r8" \in Format /\ 0 \in Nat
        BY DEF Format
      <4> QED
        BY <2>4, <4>1, TmpComesAndGoes DEF Idle
    <3> HIDE DEF t
    <3>3. \A j \in All \ {i} : t[j] = s[j]
      BY <2>4, <2>7, <3>2 DEF All
    <3>4. /\ t[i].refs = s[i].refs /\ t[i].by_test = s[i].by_test
          /\ t[i].format = s[i].format /\ t[i].access = {}
      BY <2>4, <2>7, <3>2
    <3>5. Kept(s, t, X)
      BY <2>0, <3>2, <3>3, <3>4 DEF Kept
    <3>6. GivenBack(s, t, X, i)
      BY <2>0, <3>4, <3>5 DEF GivenBack
    <3> QED
      BY <2>7, <3>1, <3>2, <3>6 DEF AfterWrite, X
  <2> QED
    BY <2>5, <2>6, <2>7
<1> QED
  BY <1>1, <1>2

-----------------------------------------------------------------------------
(* The calls of a test preserve the invariant.                              *)

(* What a call leaves becomes the state.                                    *)
Becomes(o) ==
    /\ img' = o.s
    /\ ended' = IF o.r \in {"assert", "abort"} THEN o.r ELSE "no"

(* An outcome that is sane and settled becomes a state of the invariant.    *)
LEMMA Becoming ==
    ASSUME NEW o, Becomes(o), Sane(o.s), o.r \in {"true", "false", "abort"},
           o.r # "abort" => Settled(o.s)
    PROVE  Inv'
<1>1. ended' \in {"no", "abort"} /\ (ended' = "no" => o.r # "abort")
  BY DEF Becomes
<1>2. img' = o.s
  BY DEF Becomes
<1>3. Sane(img') /\ (ended' = "no" => Settled(img'))
  BY <1>1, <1>2
<1> QED
  BY <1>1, <1>3 DEF Inv

(* Images that were given back are as a test may leave them.                *)
LEMMA Settling ==
    ASSUME NEW s, Settled(s), NEW t, NEW X \in SUBSET Image, NEW dest,
           GivenBack(s, t, X, dest), \A i \in X : s[i].refs # 0 /\ ~s[i].by_test
    PROVE  Settled(t)
<1>1. Tmp \in All \ X /\ \A i \in Image \ X : i \in All \ X
  BY TmpAssumption DEF All
<1>2. t[Tmp] = Idle /\ \A i \in Image \ X : t[i] = s[i]
  BY <1>1 DEF Settled, GivenBack, Kept
<1>3. ASSUME NEW i \in X
      PROVE  ~t[i].by_test /\ t[i].access = {} /\ t[i].refs # 0
  BY <1>3 DEF GivenBack, Kept, All
<1>4. ASSUME NEW i \in Image
      PROVE  /\ ~t[i].by_test => t[i].access = {}
             /\ t[i].by_test => t[i].refs # 0 /\ (Type(i) = "png" \/ t[i].access # {})
             /\ t[i].refs = 0 => t[i].held = {}
  <2>1. CASE i \in X
    BY <1>3, <2>1
  <2>2. CASE i \notin X
    BY <1>2, <2>2 DEF Settled
  <2> QED
    BY <2>1, <2>2
<1> QED
  BY <1>2, <1>4 DEF Settled

(* What the test may call the functions on has not been mapped.             *)
LEMMA Unoccupied ==
    ASSUME Inv, NEW i \in Image, Usable(i)
    PROVE  /\ Sane(img) /\ Settled(img) /\ i \in All /\ ended = "no"
           /\ img[i].access = {} /\ img[i].refs # 0 /\ ~img[i].by_test
<1>1. img[i].refs \in Nat /\ i \in All
  BY DEF Inv, Sane, States, Record, All
<1> QED
  BY <1>1 DEF Inv, Settled, Usable

(* Each call of the test, one by one.                                       *)
LEMMA CopySafe == Inv /\ Copy => Inv'
<1> SUFFICES ASSUME Inv, Copy PROVE Inv'
  OBVIOUS
<1>1. PICK dest, src \in Image : Usable(dest) /\ Usable(src) /\ Do(CopyOutcomes(img, dest, src))
  BY DEF Copy
<1>2. PICK o \in CopyOutcomes(img, dest, src) : Becomes(o)
  BY <1>1 DEF Do, Becomes
<1>3. /\ Sane(img) /\ Settled(img) /\ img[Tmp] = Idle /\ dest \in All
      /\ img[dest].access = {} /\ img[src].access = {}
      /\ img[dest].refs # 0 /\ img[src].refs # 0 /\ ~img[dest].by_test /\ ~img[src].by_test
  BY <1>1, Unoccupied DEF Settled
<1>4. AfterCopy(img, o, dest, src)
  BY <1>3, Copying
<1> DEFINE X == {dest, src}
<1>5. X \in SUBSET Image /\ \A i \in X : img[i].refs # 0 /\ ~img[i].by_test
  BY <1>3
<1> HIDE DEF X
<1>6. o.r # "abort" => GivenBack(img, o.s, X, dest)
  BY <1>4 DEF AfterCopy, X
<1>7. o.r # "abort" => Settled(o.s)
  BY <1>3, <1>5, <1>6, Settling
<1> QED
  BY <1>2, <1>4, <1>7, Becoming DEF AfterCopy

LEMMA CompareSafe == Inv /\ Compare => Inv'
<1> SUFFICES ASSUME Inv, Compare PROVE Inv'
  OBVIOUS
<1>1. PICK a, b \in Image : Usable(a) /\ Usable(b) /\ Do(CompareOutcomes(img, a, b))
  BY DEF Compare
<1>2. PICK o \in CompareOutcomes(img, a, b) : Becomes(o)
  BY <1>1 DEF Do, Becomes
<1>3. /\ Sane(img) /\ Settled(img) /\ a \in All /\ b \in All
      /\ img[a].access = {} /\ img[b].access = {}
      /\ img[a].refs # 0 /\ img[b].refs # 0 /\ ~img[a].by_test /\ ~img[b].by_test
  BY <1>1, Unoccupied
<1>4. AfterCall(img, o, {a, b}, a)
  BY <1>3, Comparing
<1> DEFINE X == {a, b}
<1>5. X \in SUBSET Image /\ \A i \in X : img[i].refs # 0 /\ ~img[i].by_test
  BY <1>3
<1> HIDE DEF X
<1>6. GivenBack(img, o.s, X, a) /\ o.r \in {"true", "false"}
  BY <1>4 DEF AfterCall, X
<1>7. Settled(o.s)
  BY <1>3, <1>5, <1>6, Settling
<1>8. Sane(o.s)
  BY <1>6 DEF GivenBack, Kept
<1> QED
  BY <1>2, <1>6, <1>7, <1>8, Becoming

LEMMA WriteFileSafe == Inv /\ WriteFile => Inv'
<1> SUFFICES ASSUME Inv, WriteFile PROVE Inv'
  OBVIOUS
<1>1. PICK i \in Image : Usable(i) /\ Do(WriteOutcomes(img, i))
  BY DEF WriteFile
<1>2. PICK o \in WriteOutcomes(img, i) : Becomes(o)
  BY <1>1 DEF Do, Becomes
<1>3. /\ Sane(img) /\ Settled(img) /\ img[Tmp] = Idle
      /\ img[i].access = {} /\ img[i].refs # 0 /\ ~img[i].by_test
  BY <1>1, Unoccupied DEF Settled
<1>4. AfterWrite(img, o, i)
  BY <1>3, WritingFile
<1> DEFINE X == {i}
<1>5. X \in SUBSET Image /\ \A j \in X : img[j].refs # 0 /\ ~img[j].by_test
  BY <1>3
<1> HIDE DEF X
<1>6. o.r # "abort" => GivenBack(img, o.s, X, i)
  BY <1>4 DEF AfterWrite, X
<1>7. o.r # "abort" => Settled(o.s)
  BY <1>3, <1>5, <1>6, Settling
<1> QED
  BY <1>2, <1>4, <1>7, Becoming DEF AfterWrite

(* The test's own note that it has mapped an image.                         *)
Marked(s, i, b) == [s EXCEPT ![i].by_test = b]

LEMMA Marking ==
    ASSUME NEW s, Sane(s), NEW i \in All, NEW b \in BOOLEAN
    PROVE  /\ Sane(Marked(s, i, b))
           /\ \A j \in All \ {i} : Marked(s, i, b)[j] = s[j]
           /\ Marked(s, i, b)[i] = [s[i] EXCEPT !.by_test = b]
<1> DEFINE t == Marked(s, i, b)
<1>1. s \in States /\ Sound(s, i) /\ s[i] \in Record
  BY DEF Sane, States
<1>2. /\ t \in States /\ \A j \in All \ {i} : t[j] = s[j]
      /\ t[i] = [s[i] EXCEPT !.by_test = b]
  BY <1>1 DEF Marked, States, Record
<1> HIDE DEF t
<1>3. /\ t[i].access = s[i].access /\ t[i].staged = s[i].staged /\ t[i].pixels = s[i].pixels
      /\ t[i].held = s[i].held /\ t[i].handles = s[i].handles /\ t[i].format = s[i].format
  BY <1>1, <1>2 DEF Record
<1>4. Sound(t, i)
  BY <1>1, <1>3 DEF Sound
<1>5. \A j \in All \ {i} : Sound(t, j)
  BY <1>2 DEF Sane, Sound
<1> QED
  BY <1>2, <1>4, <1>5 DEF t, Sane

(* Only image i has changed, and it is as a test may leave it.              *)
LEMMA SettlingOne ==
    ASSUME NEW s, Settled(s), NEW t, NEW i \in Image, \A j \in All \ {i} : t[j] = s[j],
           ~t[i].by_test => t[i].access = {},
           t[i].by_test => t[i].refs # 0 /\ (Type(i) = "png" \/ t[i].access # {}),
           t[i].refs = 0 => t[i].held = {}
    PROVE  Settled(t)
<1>1. t[Tmp] = Idle /\ \A j \in Image \ {i} : t[j] = s[j]
  BY TmpAssumption DEF Settled, All
<1> QED
  BY <1>1 DEF Settled

LEMMA MapSafe == Inv /\ Map => Inv'
<1> SUFFICES ASSUME Inv, Map PROVE Inv'
  OBVIOUS
<1> DEFINE yes == TRUE
           marks(s, i) == Success([s EXCEPT ![i].by_test = TRUE])
<1>1. PICK i \in Image, access \in {{"read"}, {"write"}, {"read", "write"}} :
          /\ Usable(i) /\ (Type(i) = "png" => access = {"read"})
          /\ Do(Then(MapPixels(img, i, access), LAMBDA s : marks(s, i)))
  BY DEF Map
<1>2. PICK o \in Then(MapPixels(img, i, access), LAMBDA s : marks(s, i)) : Becomes(o)
  BY <1>1 DEF Do, Becomes
<1>3. /\ Sane(img) /\ Settled(img) /\ i \in All
      /\ img[i].access = {} /\ img[i].refs # 0 /\ ~img[i].by_test
  BY <1>1, Unoccupied
<1>4. Mappable(i, access)
  BY <1>1 DEF Mappable
<1>5. PICK m \in MapPixels(img, i, access) :
          \/ m.r = "true" /\ o = Out(Marked(m.s, i, yes), "true")
          \/ m.r = "false" /\ o = Out(m.s, "false")
          \/ m.r \notin {"true", "false"} /\ o = m
  BY <1>2 DEF Then, Branch, Success, Failure, Return, Marked
<1>0. yes \in BOOLEAN
  OBVIOUS
<1>10. yes
  OBVIOUS
<1> HIDE DEF yes
<1>6. AfterMap(img, m, i, access)
  BY <1>3, <1>4, Mapping
<1>7. /\ m.r \in {"true", "false"} /\ Sane(m.s)
      /\ m.s[i].refs # 0 /\ ~m.s[i].by_test /\ \A j \in All \ {i} : m.s[j] = img[j]
  BY <1>3, <1>6 DEF AfterMap, Touches
<1>8. CASE m.r = "false"
  <2>1. o.s = m.s /\ o.r = "false" /\ m.s[i].access = {}
    BY <1>5, <1>6, <1>8 DEF AfterMap, Out
  <2>2. Settled(o.s)
    BY <1>3, <1>7, <2>1, SettlingOne
  <2> QED
    BY <1>2, <1>7, <2>1, <2>2, Becoming
<1>9. CASE m.r = "true"
  <2> DEFINE t == Marked(m.s, i, yes)
  <2>1. o.s = t /\ o.r = "true"
    BY <1>5, <1>9 DEF Out
  <2>2. Sane(t) /\ (\A j \in All \ {i} : t[j] = m.s[j]) /\ t[i] = [m.s[i] EXCEPT !.by_test = yes]
    BY <1>0, <1>3, <1>7, Marking
  <2> HIDE DEF t
  <2>3. m.s[i] \in Record
    BY <1>3, <1>7 DEF Sane, States
  <2>4. t[i].by_test = yes /\ t[i].refs = m.s[i].refs /\ t[i].access = m.s[i].access
    BY <2>2, <2>3 DEF Record
  <2>5. Type(i) = "png" \/ t[i].access # {}
    BY <1>4, <1>6, <1>9, <2>4 DEF AfterMap, Mappable
  <2>6. \A j \in All \ {i} : t[j] = img[j]
    BY <1>7, <2>2
  <2>7. Settled(t)
    <3>1. t[i].by_test
      BY <1>10, <2>4
    <3> QED
      BY <1>3, <1>7, <2>4, <2>5, <2>6, <3>1, SettlingOne
  <2> QED
    BY <1>2, <2>1, <2>2, <2>7, Becoming
<1> QED
  BY <1>7, <1>8, <1>9

LEMMA UnmapSafe == Inv /\ Unmap => Inv'
<1> SUFFICES ASSUME Inv, Unmap PROVE Inv'
  OBVIOUS
<1>1. PICK i \in Image : /\ ended = "no" /\ img[i].by_test
                         /\ Do(UnmapPixels(Marked(img, i, FALSE), i))
  BY DEF Unmap, Marked
<1> DEFINE s == Marked(img, i, FALSE)
<1>2. PICK o \in UnmapPixels(s, i) : Becomes(o)
  BY <1>1 DEF Do, Becomes
<1>3. /\ Sane(img) /\ Settled(img) /\ i \in All /\ img[i] \in Record
      /\ img[i].refs # 0 /\ (Type(i) = "png" \/ img[i].access # {})
  BY <1>1 DEF Inv, Settled, Sane, States, All
<1>4. Sane(s) /\ (\A j \in All \ {i} : s[j] = img[j]) /\ s[i] = [img[i] EXCEPT !.by_test = FALSE]
  BY <1>3, Marking
<1> HIDE DEF s
<1>5. ~s[i].by_test /\ s[i].refs = img[i].refs /\ s[i].access = img[i].access
  BY <1>3, <1>4 DEF Record
<1>6. AfterUnmap(s, o, i)
  BY <1>3, <1>4, <1>5, Unmapping
<1>7. /\ o.r \in {"true", "false"} /\ Sane(o.s) /\ o.s[i].access = {}
      /\ o.s[i].refs # 0 /\ ~o.s[i].by_test /\ \A j \in All \ {i} : o.s[j] = img[j]
  BY <1>3, <1>4, <1>5, <1>6 DEF AfterUnmap, Touches
<1>8. Settled(o.s)
  BY <1>3, <1>7, SettlingOne
<1> QED
  BY <1>2, <1>7, <1>8, Becoming

LEMMA DrawSafe == Inv /\ Draw => Inv'
<1> SUFFICES ASSUME Inv, Draw PROVE Inv'
  OBVIOUS
<1>1. PICK i \in Image : \E p \in IF IsEightBit(FormatOf[i]) THEN EightBit ELSE Picture :
          \/ /\ ended = "no" /\ "write" \in img[i].access
             /\ Do(Success(WithMapped(img, i, p)))
          \/ /\ Usable(i) /\ Type(i) = "vulkan"
             /\ Do(Success(Painted(img, i, p)))
  BY DEF Draw, Painted
<1> PICK p \in IF IsEightBit(FormatOf[i]) THEN EightBit ELSE Picture :
          \/ /\ ended = "no" /\ "write" \in img[i].access
             /\ Do(Success(WithMapped(img, i, p)))
          \/ /\ Usable(i) /\ Type(i) = "vulkan"
             /\ Do(Success(Painted(img, i, p)))
  BY <1>1
<1>2. i \in All /\ Sane(img) /\ img[i].format = FormatOf[i]
  BY DEF Inv, Sane, Sound, All
<1>3. Fits(p, img[i].format)
  BY <1>2 DEF Fits, Picture, EightBit
<1>4. ASSUME NEW t, Do(Success(t)), Touches(img, t, i), t[i].access = img[i].access,
             ended = "no", img[i].refs # 0
      PROVE  Inv'
  <2> DEFINE o == Out(t, "true")
  <2>1. Becomes(o) /\ o.s = t /\ o.r = "true"
    BY <1>4 DEF Do, Becomes, Success, Return, Out
  <2> HIDE DEF o
  <2>2. Settled(img)
    BY <1>4 DEF Inv
  <2>3. Settled(t)
    BY <1>4, <2>2, SettlingOne DEF Settled, Touches
  <2> QED
    BY <1>4, <2>1, <2>3, Becoming DEF Touches
<1>5. CASE /\ ended = "no" /\ "write" \in img[i].access
           /\ Do(Success(WithMapped(img, i, p)))
  <2>1. Type(i) # "png" /\ img[i].refs # 0
    BY <1>2, <1>5 DEF Inv, Settled, Sane, Sound
  <2>2. /\ Touches(img, WithMapped(img, i, p), i)
        /\ WithMapped(img, i, p)[i].access = img[i].access
    BY <1>2, <1>3, <2>1, Writing
  <2> QED
    BY <1>4, <1>5, <2>1, <2>2
<1>6. CASE /\ Usable(i) /\ Type(i) = "vulkan"
           /\ Do(Success(Painted(img, i, p)))
  <2>1. ended = "no" /\ img[i].refs # 0
    BY <1>6, Unoccupied
  <2>2. /\ Touches(img, Painted(img, i, p), i)
        /\ Painted(img, i, p)[i].access = img[i].access
    BY <1>2, <1>3, <1>6, Painting
  <2> QED
    BY <1>4, <1>6, <2>1, <2>2
<1> QED
  BY <1>5, <1>6

(* Another number of references, and the resources of an image that has     *)
(* none left.                                                               *)
LEMMA Counting ==
    ASSUME NEW s, Sane(s), NEW i \in Image, NEW n \in Nat
    PROVE  LET t == [s EXCEPT ![i].refs = n]
           IN  /\ Sane(t) /\ \A j \in All \ {i} : t[j] = s[j]
               /\ t[i] = [s[i] EXCEPT !.refs = n]
<1> DEFINE t == [s EXCEPT ![i].refs = n]
<1>1. s \in States /\ Sound(s, i) /\ s[i] \in Record /\ i \in All
  BY DEF Sane, States, All
<1>2. /\ t \in States /\ \A j \in All \ {i} : t[j] = s[j]
      /\ t[i] = [s[i] EXCEPT !.refs = n]
  BY <1>1 DEF States, Record
<1> HIDE DEF t
<1>3. /\ t[i].access = s[i].access /\ t[i].staged = s[i].staged /\ t[i].pixels = s[i].pixels
      /\ t[i].held = s[i].held /\ t[i].handles = s[i].handles /\ t[i].format = s[i].format
  BY <1>1, <1>2 DEF Record
<1>4. Sound(t, i)
  BY <1>1, <1>3 DEF Sound
<1>5. \A j \in All \ {i} : Sound(t, j)
  BY <1>2 DEF Sane, Sound
<1> QED
  BY <1>2, <1>4, <1>5 DEF t, Sane

Emptied(s, i) == CleanupMap([s EXCEPT ![i].staged = "none"], i)

LEMMA Emptying ==
    ASSUME NEW s, Sane(s), NEW i \in Image, s[i].access = {}
    PROVE  /\ Sane(Emptied(s, i)) /\ \A j \in All \ {i} : Emptied(s, i)[j] = s[j]
           /\ Emptied(s, i)[i].held = {} /\ Emptied(s, i)[i].access = {}
           /\ Emptied(s, i)[i].by_test = s[i].by_test
<1> DEFINE u == [s EXCEPT ![i].staged = "none"]
           t == Emptied(s, i)
<1>1. s \in States /\ Sound(s, i) /\ s[i] \in Record /\ i \in All
  BY DEF Sane, States, All
<1>2. /\ u \in States /\ \A j \in All \ {i} : u[j] = s[j]
      /\ u[i] = [s[i] EXCEPT !.staged = "none"]
  BY <1>1 DEF States, Record
<1> HIDE DEF u
<1>3. u[i].handles = u[i].held /\ u[i] \in Record
  BY <1>1, <1>2 DEF Record, Sound, States
<1>4. Cleaned(u, t, i)
  <2>1. t = CleanupMap(u, i)
    BY DEF Emptied, u
  <2> HIDE DEF t
  <2> QED
    BY <1>1, <1>2, <2>1, CleaningUp
<1> HIDE DEF t
<1>5. /\ t \in States /\ (\A j \in All \ {i} : t[j] = s[j])
      /\ t[i].access = {} /\ t[i].staged = "none" /\ t[i].pixels = s[i].pixels
      /\ t[i].held = {} /\ t[i].handles = {} /\ t[i].format = s[i].format
      /\ t[i].refs = s[i].refs /\ t[i].by_test = s[i].by_test
  BY <1>1, <1>2, <1>3, <1>4 DEF Cleaned, Record
<1>6. Sound(t, i)
  BY <1>1, <1>5 DEF Sound, Staging
<1>7. \A j \in All \ {i} : Sound(t, j)
  BY <1>5 DEF Sane, Sound
<1> QED
  BY <1>5, <1>6, <1>7 DEF t, Sane

LEMMA ReferenceSafe == Inv /\ Reference => Inv'
<1> SUFFICES ASSUME Inv, Reference PROVE Inv'
  OBVIOUS
<1>1. PICK i \in Image : Usable(i) /\ Do(Success([img EXCEPT ![i].refs = @ + 1]))
  BY DEF Reference
<1> DEFINE n == img[i].refs + 1
           t == [img EXCEPT ![i].refs = n]
           o == Out(t, "true")
<1>2. /\ Sane(img) /\ Settled(img) /\ i \in All
      /\ img[i].access = {} /\ img[i].refs # 0 /\ ~img[i].by_test
  BY <1>1, Unoccupied
<1>3. n \in Nat /\ n # 0 /\ img[i] \in Record
  BY <1>2 DEF Sane, States, Record
<1>4. Becomes(o) /\ o.s = t /\ o.r = "true"
  BY <1>1 DEF Do, Becomes, Success, Return, Out
<1> HIDE DEF n, o
<1>5. /\ Sane(t) /\ \A j \in All \ {i} : t[j] = img[j]
      /\ t[i] = [img[i] EXCEPT !.refs = n]
  BY <1>2, <1>3, Counting
<1> HIDE DEF t
<1>6. t[i].refs = n /\ ~t[i].by_test /\ t[i].access = {}
  BY <1>2, <1>3, <1>5 DEF Record
<1>7. Settled(t)
  BY <1>2, <1>3, <1>5, <1>6, SettlingOne
<1> QED
  BY <1>4, <1>5, <1>7, Becoming

LEMMA ReleaseSafe == Inv /\ Release => Inv'
<1> SUFFICES ASSUME Inv, Release PROVE Inv'
  OBVIOUS
<1>1. PICK i \in Image : Usable(i) /\ Do(Success(Released(img, i)))
  BY DEF Release
<1> DEFINE n == img[i].refs - 1
           t == [img EXCEPT ![i].refs = n]
           u == Emptied(t, i)
           v == Released(img, i)
           o == Out(v, "true")
<1>2. /\ Sane(img) /\ Settled(img) /\ i \in All
      /\ img[i].access = {} /\ img[i].refs # 0 /\ ~img[i].by_test
  BY <1>1, Unoccupied
<1>3. n \in Nat /\ img[i] \in Record
  BY <1>2 DEF Sane, States, Record
<1>4. Becomes(o) /\ o.s = v /\ o.r = "true"
  <2>1. Do(Success(v))
    BY <1>1
  <2> HIDE DEF v
  <2> QED
    BY <2>1 DEF Do, Becomes, Success, Return, Out
<1>5. v = IF t[i].refs > 0 THEN t ELSE u
  BY DEF Released, Emptied
<1> HIDE DEF o, v, n
<1>6. /\ Sane(t) /\ \A j \in All \ {i} : t[j] = img[j]
      /\ t[i] = [img[i] EXCEPT !.refs = n]
  BY <1>2, <1>3, Counting
<1> HIDE DEF t
<1>7. t[i].refs = n /\ ~t[i].by_test /\ t[i].access = {}
  BY <1>2, <1>3, <1>6 DEF Record
<1>8. CASE t[i].refs > 0
  <2>1. v = t
    BY <1>5, <1>8
  <2>2. t[i].refs # 0
    BY <1>3, <1>7, <1>8
  <2>3. Settled(t)
    BY <1>2, <1>6, <1>7, <2>2, SettlingOne
  <2> QED
    BY <1>4, <1>6, <2>1, <2>3, Becoming
<1>9. CASE ~(t[i].refs > 0)
  <2>1. v = u
    BY <1>5, <1>9
  <2>2. /\ Sane(u) /\ \A j \in All \ {i} : u[j] = t[j]
        /\ u[i].held = {} /\ u[i].access = {} /\ u[i].by_test = t[i].by_test
    BY <1>6, <1>7, Emptying
  <2> HIDE DEF u
  <2>3. Settled(u)
    BY <1>2, <1>6, <1>7, <2>2, SettlingOne
  <2> QED
    BY <1>4, <2>1, <2>2, <2>3, Becoming
<1> QED
  BY <1>8, <1>9

(* The images as they are made.                                             *)
LEMMA InitEstablishes == Init => Inv
<1> SUFFICES ASSUME Init PROVE Inv
  OBVIOUS
<1>1. PICK p \in [Image -> Picture] :
          /\ \A i \in Image : IsEightBit(FormatOf[i]) => p[i] \in EightBit
          /\ img = [i \in Image \cup {Tmp} |->
                      IF i = Tmp THEN Fresh("r8", 0, Garbage)
                      ELSE Fresh(FormatOf[i], 1, p[i])]
  BY DEF Init
<1>2. img[Tmp] = Idle /\ \A i \in Image : img[i] = Fresh(FormatOf[i], 1, p[i])
  BY <1>1, TmpAssumption DEF Idle
<1>3. "r8" \in Format /\ "p_and_more" \notin EightBit
  BY DEF Format, EightBit
<1>4. Idle \in Record /\ Sound(img, Tmp)
  <2>1. /\ Idle.held = {} /\ Idle.handles = {} /\ Idle.access = {} /\ Idle.staged = "none"
        /\ Idle.pixels = Garbage
    BY DEF Idle, Fresh
  <2>2. Type(Tmp) = "pixels"
    BY DEF Type
  <2> QED
    BY <1>2, <1>3, <2>1, <2>2, TmpAssumption DEF Idle, Fresh, Record, Sound, Garbage
<1>5. ASSUME NEW i \in Image
      PROVE  /\ img[i] \in Record /\ Sound(img, i)
             /\ img[i].access = {} /\ img[i].refs # 0 /\ ~img[i].by_test
  <2> DEFINE f == Fresh(FormatOf[i], 1, p[i])
  <2>1. /\ f.held = {} /\ f.handles = {} /\ f.access = {} /\ f.staged = "none"
        /\ f.pixels = p[i] /\ f.format = FormatOf[i] /\ f.refs = 1 /\ ~f.by_test
    BY DEF Fresh
  <2>2. f \in Record
    BY <1>1, ImagesAssumption DEF Fresh, Record
  <2> HIDE DEF f
  <2>3. img[i] = f
    BY <1>2 DEF f
  <2>4. Sound(img, i)
    BY <1>1, <1>3, <2>1, <2>3 DEF Sound, Staging
  <2> QED
    BY <2>1, <2>2, <2>3, <2>4
<1>6. img \in States
  <2>1. DOMAIN img = All /\ img = [i \in All |-> img[i]]
    BY <1>1 DEF All
  <2>2. \A i \in All : img[i] \in Record
    BY <1>2, <1>4, <1>5 DEF All
  <2> QED
    BY <2>1, <2>2 DEF States
<1>7. Sane(img)
  BY <1>4, <1>5, <1>6 DEF Sane, All
<1>8. Settled(img)
  BY <1>2, <1>5 DEF Settled
<1>9. ended = "no"
  BY DEF Init
<1> QED
  BY <1>7, <1>8, <1>9 DEF Inv

(* The invariant holds from the first state on.                             *)
LEMMA Invariance == Spec => []Inv
<1>1. Inv /\ [Next]_vars => Inv'
  <2> SUFFICES ASSUME Inv, [Next]_vars PROVE Inv'
    OBVIOUS
  <2>1. CASE Next
    <3>1. CASE Ended
      BY <3>1 DEF Ended, vars, Inv, Sane, Settled, Sound
    <3> QED
      BY <2>1, <3>1, CopySafe, CompareSafe, WriteFileSafe, MapSafe, UnmapSafe,
         ReferenceSafe, ReleaseSafe, DrawSafe DEF Next
  <2>2. CASE UNCHANGED vars
    BY <2>2 DEF vars, Inv, Sane, Settled, Sound
  <2> QED
    BY <2>1, <2>2
<1> QED
  BY InitEstablishes, <1>1, PTL DEF Spec

-----------------------------------------------------------------------------
(* Whatever failed on the way, no function of cru_image.c leaves an image   *)
(* mapped that the test has not mapped, and no assertion of map_pixels() or *)
(* unmap_pixels() on the access mask is ever false.                         *)
THEOREM EveryMapIsReturned == Spec => []MapsReturned
<1>1. Inv => MapsReturned
  <2>1. Idle.access = {}
    BY DEF Idle, Fresh
  <2> QED
    BY <2>1 DEF Inv, Settled, MapsReturned
<1> QED
  BY <1>1, Invariance, PTL

(* Every variable keeps its type.  The Vulkan objects that exist are those  *)
(* an image knows: cleanup_map() and destroy() free all of a staging buffer *)
(* or there was none, and no temporary image of a copy outlives it.         *)
THEOREM NothingLeaks == Spec => []NoLeak
<1>1. Inv => NoLeak
  <2> SUFFICES ASSUME Inv PROVE NoLeak
    OBVIOUS
  <2>1. TypeOK
    BY DEF Inv, Sane, States, All, TypeOK
  <2>2. Idle.refs = 0
    BY DEF Idle, Fresh
  <2>3. \A i \in Image : img[i].held = img[i].handles /\ img[i].held \in {{}, Staging}
    BY DEF Inv, Sane, Sound, All
  <2> QED
    BY <2>1, <2>2, <2>3 DEF Inv, Settled, NoLeak
<1> QED
  BY <1>1, Invariance, PTL

(* When cru_image_copy() says it has copied, the destination holds what the *)
(* source holds, as far as its format can, through staging buffers, decoded *)
(* files and temporary images alike; it changes no other image.             *)
THEOREM CopiesTellTheTruth == Spec => []CopyTells
<1>1. Inv => CopyTells
  <2> SUFFICES ASSUME Inv, NEW dest \in Image, NEW src \in Image,
                      Usable(dest), Usable(src), NEW o \in CopyOutcomes(img, dest, src)
               PROVE  /\ o.r = "true" =>
                            o.s[dest].pixels = Converted(img[src].pixels, img[dest].format)
                      /\ \A i \in Image \ {dest} : o.s[i].pixels = img[i].pixels
    BY DEF CopyTells
  <2>1. /\ Sane(img) /\ img[Tmp] = Idle /\ dest \in All
        /\ img[dest].access = {} /\ img[src].access = {}
    BY Unoccupied DEF Settled
  <2>2. AfterCopy(img, o, dest, src)
    BY <2>1, Copying
  <2> QED
    BY <2>2 DEF AfterCopy
<1> QED
  BY <1>1, Invariance, PTL

(* When cru_image_compare() says that two images are equal, they are so at  *)
(* that moment, whatever was staged or decoded of them before; comparing    *)
(* changes no image.                                                        *)
THEOREM ComparisonsAreHonest == Spec => []CompareHonest
<1>1. Inv => CompareHonest
  <2> SUFFICES ASSUME Inv, NEW a \in Image, NEW b \in Image,
                      Usable(a), Usable(b), NEW o \in CompareOutcomes(img, a, b)
               PROVE  /\ o.r = "true" => img[a].pixels = img[b].pixels
                      /\ \A i \in Image : o.s[i].pixels = img[i].pixels
    BY DEF CompareHonest
  <2> DEFINE X == {a, b}
  <2>0. b \in X /\ \A j \in X : j = a \/ j = b
    OBVIOUS
  <2>1. /\ Sane(img) /\ a \in All /\ b \in All
        /\ img[a].access = {} /\ img[b].access = {}
    BY Unoccupied
  <2>2. /\ AfterCall(img, o, {a, b}, a) /\ o.s[a].pixels = img[a].pixels
        /\ o.r = "true" => img[a].pixels = img[b].pixels
    BY <2>1, Comparing
  <2>3. AfterCall(img, o, X, a)
    BY <2>2
  <2> HIDE DEF X
  <2>4. \A i \in Image \ {a} : o.s[i].pixels = img[i].pixels
    BY <2>0, <2>3 DEF AfterCall, GivenBack, Kept, All
  <2> QED
    BY <2>2, <2>4
<1> QED
  BY <1>1, Invariance, PTL
=============================================================================
