-------------------------------- MODULE Images --------------------------------
(***************************************************************************)
(* Crucible images (src/util/cru_image.c and the kinds of image beside it):*)
(* arrays of pixels, PNG files and Vulkan images that are read and written *)
(* through map_pixels() and unmap_pixels().  A Vulkan image is mapped by   *)
(* way of a staging buffer that stays until the image goes, a PNG file is  *)
(* decoded once.  Nearly every call on the way may fail.                   *)
(*                                                                         *)
(* An operation maps a state to the set of its outcomes, each a state and  *)
(* what the function returns; a state gives every image its record.        *)
(***************************************************************************)
EXTENDS Integers, FiniteSets, TLC

CONSTANTS
    Image,      \* the images that a test has made, all of one size
    TypeOf,     \* "pixels", "png" or "vulkan" for each
    FormatOf,   \* and its format
    MaxRefs     \* bounds on the references to each image

(* Pictures: p and q have eight bits per channel; p_and_more rounds to p.   *)
EightBit == {"p", "q"}
Picture == EightBit \cup {"p_and_more"}
Garbage == "garbage"    \* what uninitialized memory holds

Format == {"rgba", "r8", "s8", "d32", "r32f", "r32u"}
Channels(format) == IF format = "rgba" THEN 4 ELSE 1
IsEightBit(format) == format \in {"rgba", "r8", "s8"}

ASSUME ImagesAssumption ==
    /\ TypeOf \in [Image -> {"pixels", "png", "vulkan"}]
    /\ FormatOf \in [Image -> Format]
    /\ \A i \in Image : TypeOf[i] = "png" => FormatOf[i] \in {"rgba", "r8"}
    /\ MaxRefs \in [Image -> Nat \ {0}]

(* The temporary image of an indirect copy.                                 *)
Tmp == "tmp"
ASSUME TmpAssumption == Tmp \notin Image

VARIABLES
    img,    \* the state of the images
    ended   \* "assert" or "abort" if the process died of one

vars == <<img, ended>>

Type(i) == IF i = Tmp THEN "pixels" ELSE TypeOf[i]
Staging == {"buffer", "memory", "map"}

(* refs: references.  pixels: the array, the file or the VkImage.  staged:  *)
(* what the staging buffer or the decoded file holds.  handles: those in    *)
(* cru_vk_image::map, held: the Vulkan objects that exist.  access: the     *)
(* access mask; by_test: the test itself has mapped the image.              *)
Record ==
    [refs: Nat, format: Format, pixels: Picture \cup {Garbage},
     staged: Picture \cup {Garbage, "none"}, handles: SUBSET Staging,
     held: SUBSET Staging, access: SUBSET {"read", "write"}, by_test: BOOLEAN]

Fresh(format, refs, pixels) ==
    [refs |-> refs, format |-> format, pixels |-> pixels, staged |-> "none",
     handles |-> {}, held |-> {}, access |-> {}, by_test |-> FALSE]

Init ==
    /\ \E p \in [Image -> Picture] :
          /\ \A i \in Image : IsEightBit(FormatOf[i]) => p[i] \in EightBit
          /\ img = [i \in Image \cup {Tmp} |->
                      IF i = Tmp THEN Fresh("r8", 0, Garbage)
                      ELSE Fresh(FormatOf[i], 1, p[i])]
    /\ ended = "no"

-----------------------------------------------------------------------------
(* Outcomes.                                                                *)
Out(s, r) == [s |-> s, r |-> r]
Return(s, r) == {Out(s, r)}
Success(s) == Return(s, "true")
Failure(s) == Return(s, "false")

(* What follows depends on what was returned, unless the process is dead.   *)
Branch(outs, then(_), else(_)) ==
    UNION {CASE o.r = "true" -> then(o.s)
             [] o.r = "false" -> else(o.s)
             [] OTHER -> {o} : o \in outs}
Then(outs, then(_)) == Branch(outs, then, Failure)
(* The same clean-up whatever was returned; its own result is ignored.      *)
Finally(outs, cleanup(_)) ==
    Branch(outs, LAMBDA s : Branch(cleanup(s), Success, Success),
                 LAMBDA s : Branch(cleanup(s), Failure, Failure))
(* The same, and its result counts.                                         *)
FinallyAnd(outs, cleanup(_)) ==
    Branch(outs, cleanup, LAMBDA s : Branch(cleanup(s), Failure, Failure))
Asserting(cond, s, outs) == IF cond THEN outs ELSE Return(s, "assert")

-----------------------------------------------------------------------------
(* cru_vk_image.c.                                                          *)

(* MUTANT: the memory of a map that could not be bound or mapped is kept.   *)
CleanupMapKeeps(s, i) ==
    LET freed == IF "map" \in s[i].handles THEN Staging ELSE s[i].handles \ {"memory"}
    IN  [s EXCEPT ![i].held = @ \ freed, ![i].handles = {}]

CleanupMap(s, i) == [s EXCEPT ![i].held = @ \ s[i].handles, ![i].handles = {}]

SetupMap(s, i) ==
    LET got(part) == [s EXCEPT ![i].handles = part, ![i].held = @ \cup part,
                               ![i].staged = Garbage]
    IN  IF "map" \in s[i].handles THEN Success(s)
        ELSE Success(got(Staging))
             \cup {Out(CleanupMap(got(part), i), "false") :
                      part \in {{}, {"buffer"}, {"buffer", "memory"}}}

(* copy(): it may fail before the GPU has copied, or after.                 *)
CopyImageToBuffer(s, i) ==
    LET copied == [s EXCEPT ![i].staged = s[i].pixels]
    IN  Success(copied) \cup Failure(copied) \cup Failure(s)
CopyBufferToImage(s, i) ==
    LET copied == [s EXCEPT ![i].pixels = s[i].staged]
    IN  Success(copied) \cup Failure(copied) \cup Failure(s)

Accessed(s, i, access) == [s EXCEPT ![i].access = access]

(* MUTANT: a buffer that is there already is taken to be up to date.        *)
MapVkCached(s, i, access) ==
    Asserting(s[i].access = {}, s,
        Then(SetupMap(s, i), LAMBDA t :
            IF "read" \in access /\ "map" \notin s[i].handles
            THEN Then(CopyImageToBuffer(t, i), LAMBDA u : Success(Accessed(u, i, access)))
            ELSE Success(Accessed(t, i, access))))

MapVk(s, i, access) ==
    Asserting(s[i].access = {}, s,
        Then(SetupMap(s, i), LAMBDA t :
            IF "read" \in access
            THEN Then(CopyImageToBuffer(t, i), LAMBDA u : Success(Accessed(u, i, access)))
            ELSE Success(Accessed(t, i, access))))

UnmapVk(s, i) ==
    Asserting(s[i].access # {}, s,
        FinallyAnd(IF "write" \in s[i].access THEN CopyBufferToImage(s, i) ELSE Success(s),
                   LAMBDA t : Success(Accessed(t, i, {}))))

(* cru_png_image.c.  A file that has been decoded stays so, and is mapped   *)
(* again without setting the access mask.  Mapping one for writing is left  *)
(* out: it ends in cru_image_release(NULL).                                 *)
MapPng(s, i, access) ==
    Asserting(s[i].access = {} /\ access = {"read"}, s,
        IF s[i].staged # "none" THEN Success(s)
        ELSE Success(Accessed([s EXCEPT ![i].staged = s[i].pixels], i, access))
             \cup Failure(s))

(* cru_pixel_image.c.                                                       *)
MapArray(s, i, access) ==
    Asserting(s[i].access = {}, s, Success(Accessed(s, i, access)))

(* The functions behind the pointers of a cru_image.                        *)
MapPixels(s, i, access) ==
    CASE Type(i) = "pixels" -> MapArray(s, i, access)
      [] Type(i) = "png"    -> MapPng(s, i, access)
      [] Type(i) = "vulkan" -> MapVk(s, i, access)

UnmapPixels(s, i) ==
    CASE Type(i) = "pixels" -> Asserting(s[i].access # {}, s, Success(Accessed(s, i, {})))
      [] Type(i) = "png"    -> Success(Accessed(s, i, {}))
      [] Type(i) = "vulkan" -> UnmapVk(s, i)

(* What the memory holds to which map_pixels() has returned a pointer.      *)
Mapped(s, i) == IF Type(i) = "pixels" THEN s[i].pixels ELSE s[i].staged
WithMapped(s, i, p) ==
    IF Type(i) = "pixels" THEN [s EXCEPT ![i].pixels = p] ELSE [s EXCEPT ![i].staged = p]

-----------------------------------------------------------------------------
(* cru_image.c.                                                             *)
HasCopyFunc(from, to) ==
    \/ from = to
    \/ <<from, to>> \in {<<"r8", "d32">>, <<"r32f", "r8">>, <<"r32u", "r8">>,
                         <<"d32", "r8">>, <<"r8", "s8">>, <<"s8", "r8">>}

(* The copy functions; those to eight bits drop the rest.                   *)
Converted(p, to) == IF IsEightBit(to) /\ p = "p_and_more" THEN "p" ELSE p

(* MUTANT: the destination is not unmapped if there is no copy function.    *)
CopyPixelsToPixelsEarly(s, dest, src) ==
    Then(MapPixels(s, src, {"read"}), LAMBDA t :
        Finally(
            Then(MapPixels(t, dest, {"write"}), LAMBDA u :
                IF HasCopyFunc(s[src].format, s[dest].format)
                THEN FinallyAnd(
                       Success(WithMapped(u, dest, Converted(Mapped(u, src), s[dest].format))),
                       LAMBDA v : UnmapPixels(v, dest))
                ELSE Failure(u)),
            LAMBDA u : UnmapPixels(u, src)))

(* MUTANT: the result of the write-back is ignored.                         *)
CopyPixelsToPixelsDeaf(s, dest, src) ==
    Then(MapPixels(s, src, {"read"}), LAMBDA t :
        Finally(
            Then(MapPixels(t, dest, {"write"}), LAMBDA u :
                Finally(
                    IF HasCopyFunc(s[src].format, s[dest].format)
                    THEN Success(WithMapped(u, dest, Converted(Mapped(u, src), s[dest].format)))
                    ELSE Failure(u),
                    LAMBDA v : UnmapPixels(v, dest))),
            LAMBDA u : UnmapPixels(u, src)))

(* cru_image_copy_pixels_to_pixels().  Without a copy function the          *)
(* destination is unmapped all the same, and what its map held written back.*)
CopyPixelsToPixels(s, dest, src) ==
    Then(MapPixels(s, src, {"read"}), LAMBDA t :
        Finally(
            Then(MapPixels(t, dest, {"write"}), LAMBDA u :
                FinallyAnd(
                    IF HasCopyFunc(s[src].format, s[dest].format)
                    THEN Success(WithMapped(u, dest, Converted(Mapped(u, src), s[dest].format)))
                    ELSE Failure(u),
                    LAMBDA v : UnmapPixels(v, dest))),
            LAMBDA u : UnmapPixels(u, src)))

(* copy_direct_from_png(): libpng may fail to start, and a failure to write *)
(* back aborts the process.                                                 *)
CopyDirectFromPng(s, dest, png) ==
    Then(MapPixels(s, dest, {"write"}), LAMBDA t :
        LET unmapped(outs) ==
                Branch(outs, LAMBDA u : Branch(UnmapPixels(u, dest), Success,
                                               LAMBDA v : Return(v, "abort")),
                             LAMBDA u : Branch(UnmapPixels(u, dest), Failure,
                                               LAMBDA v : Return(v, "abort")))
        IN  unmapped(Success(WithMapped(t, dest, s[png].pixels)) \cup Failure(t)))

CreateTmp(s, format) == [s EXCEPT ![Tmp] = Fresh(format, 1, Garbage)]
ReleaseTmp(s) == Success([s EXCEPT ![Tmp] = Fresh("r8", 0, Garbage)])

(* copy_indirect_from_png().                                                *)
CopyIndirectFromPng(s, dest, png) ==
    Finally(
        Then(CopyDirectFromPng(CreateTmp(s, s[png].format), Tmp, png), LAMBDA t :
            CopyPixelsToPixels(t, dest, Tmp)),
        ReleaseTmp)

(* cru_image_copy().  PNG images are the read-only ones.                    *)
CopyOutcomes(s, dest, src) ==
    IF \/ dest = src
       \/ Channels(s[dest].format) # Channels(s[src].format)
       \/ Type(dest) = "png"
    THEN Failure(s)
    ELSE IF Type(src) # "png" THEN CopyPixelsToPixels(s, dest, src)
    ELSE IF s[src].format = s[dest].format THEN CopyDirectFromPng(s, dest, src)
    ELSE CopyIndirectFromPng(s, dest, src)

(* cru_image_compare(): pixels are compared byte by byte.                   *)
CompareOutcomes(s, a, b) ==
    IF a = b THEN Success(s)
    ELSE IF s[a].format # s[b].format /\ {s[a].format, s[b].format} # {"s8", "r8"}
    THEN Failure(s)
    ELSE Then(MapPixels(s, a, {"read"}), LAMBDA t :
            Branch(MapPixels(t, b, {"read"}),
                LAMBDA u : Finally(
                    Finally(IF Mapped(u, a) = Mapped(u, b) THEN Success(u) ELSE Failure(u),
                            LAMBDA v : UnmapPixels(v, a)),
                    LAMBDA v : UnmapPixels(v, b)),
                LAMBDA u : Finally(Failure(u), LAMBDA v : UnmapPixels(v, a))))

(* write_direct_to_png(): the file cannot be written, or holds the picture. *)
WriteDirect(s, i) ==
    Then(MapPixels(s, i, {"read"}), LAMBDA t :
        Finally(Success(t) \cup Failure(t), LAMBDA u : UnmapPixels(u, i)))

(* cru_png_image_write_file().                                              *)
WriteOutcomes(s, i) ==
    IF s[i].format \in {"rgba", "r8"} THEN WriteDirect(s, i)
    ELSE Finally(
            Then(CopyOutcomes(CreateTmp(s, "r8"), Tmp, i), LAMBDA t : WriteDirect(t, Tmp)),
            ReleaseTmp)

(* cru_image_release(): the last reference takes all that the image has.    *)
Released(s, i) ==
    LET t == [s EXCEPT ![i].refs = @ - 1]
    IN  IF t[i].refs > 0 THEN t
        ELSE CleanupMap([t EXCEPT ![i].staged = "none"], i)

-----------------------------------------------------------------------------
(* What a test does.  It calls the functions on images that it holds and    *)
(* has not mapped.                                                          *)
Usable(i) == ended = "no" /\ img[i].refs > 0 /\ ~img[i].by_test

(* One of the outcomes of an operation becomes the state.                   *)
Do(outs) ==
    \E o \in outs :
        /\ img' = o.s
        /\ ended' = IF o.r \in {"assert", "abort"} THEN o.r ELSE "no"

Copy == \E dest, src \in Image :
    Usable(dest) /\ Usable(src) /\ Do(CopyOutcomes(img, dest, src))

Compare == \E a, b \in Image :
    Usable(a) /\ Usable(b) /\ Do(CompareOutcomes(img, a, b))

WriteFile == \E i \in Image : Usable(i) /\ Do(WriteOutcomes(img, i))

Map == \E i \in Image : \E access \in {{"read"}, {"write"}, {"read", "write"}} :
    /\ Usable(i)
    /\ Type(i) = "png" => access = {"read"}
    /\ Do(Then(MapPixels(img, i, access),
               LAMBDA s : Success([s EXCEPT ![i].by_test = TRUE])))

Unmap == \E i \in Image :
    /\ ended = "no" /\ img[i].by_test
    /\ Do(UnmapPixels([img EXCEPT ![i].by_test = FALSE], i))

Reference == \E i \in Image :
    /\ Usable(i) /\ img[i].refs < MaxRefs[i]
    /\ Do(Success([img EXCEPT ![i].refs = @ + 1]))

Release == \E i \in Image : Usable(i) /\ Do(Success(Released(img, i)))

(* The test writes through a map, or has the GPU draw on a Vulkan image.    *)
Draw == \E i \in Image : \E p \in IF IsEightBit(FormatOf[i]) THEN EightBit ELSE Picture :
    \/ /\ ended = "no" /\ "write" \in img[i].access
       /\ Do(Success(WithMapped(img, i, p)))
    \/ /\ Usable(i) /\ Type(i) = "vulkan"
       /\ Do(Success([img EXCEPT ![i].pixels = p]))

Ended ==
    /\ ended # "no" \/ \A i \in Image : img[i].refs = 0
    /\ UNCHANGED vars

Next ==
    \/ Copy \/ Compare \/ WriteFile \/ Map \/ Unmap
    \/ Reference \/ Release \/ Draw \/ Ended

Spec == Init /\ [][Next]_vars

-----------------------------------------------------------------------------
TypeOK ==
    /\ img \in [Image \cup {Tmp} -> Record]
    /\ ended \in {"no", "assert", "abort"}

(* Whatever failed on the way, an operation leaves no image mapped that the *)
(* test has not mapped itself, and no assertion on an access mask is ever   *)
(* false.                                                                   *)
MapsReturned ==
    /\ ended # "assert"
    /\ ended = "no" => \A i \in Image \cup {Tmp} : img[i].access # {} => img[i].by_test

(* Every variable keeps its type.  The Vulkan objects that exist are those  *)
(* an image still knows, all of a staging buffer or none; none outlives the *)
(* last reference, and no temporary image outlives its operation.           *)
NoLeak ==
    /\ TypeOK
    /\ ended = "no" =>
          /\ \A i \in Image : /\ img[i].held = img[i].handles
                              /\ img[i].held \in {{}, Staging}
                              /\ img[i].refs = 0 => img[i].held = {}
          /\ img[Tmp].refs = 0

(* In every state that calls can lead to, cru_image_copy() returns true     *)
(* only if the destination then holds what the source holds, as far as its  *)
(* format can; true or false, it changes no other image.                    *)
CopyTells ==
    \A dest, src \in Image : Usable(dest) /\ Usable(src) =>
        \A o \in CopyOutcomes(img, dest, src) :
            /\ o.r = "true" =>
                  o.s[dest].pixels = Converted(img[src].pixels, img[dest].format)
            /\ \A i \in Image \ {dest} : o.s[i].pixels = img[i].pixels

(* cru_image_compare() returns true only if the images are the same at that *)
(* time, whatever was staged or decoded of them earlier, and changes none.  *)
CompareHonest ==
    \A a, b \in Image : Usable(a) /\ Usable(b) =>
        \A o \in CompareOutcomes(img, a, b) :
            /\ o.r = "true" => img[a].pixels = img[b].pixels
            /\ \A i \in Image : o.s[i].pixels = img[i].pixels
=============================================================================
