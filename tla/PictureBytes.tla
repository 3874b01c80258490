---- MODULE PictureBytes ----
(***************************************************************************)
(* What the API concludes from the bytes of a picture, never from what is  *)
(* said of them: the upload (sniffImageType, uploadFile), the registration *)
(* of an original (inspectImage, validateOriginalBytes), the output of the *)
(* background removal (validateTransparentOutput) and the bounds of its    *)
(* subject (png-alpha-bounds.ts, a decoder of PNG of its own).             *)
(*                                                                         *)
(* A behaviour follows one picture through these stages. Its bytes are     *)
(* abstracted to what the code reads of them; a pixel is its alpha value,  *)
(* which the decoder treats as it treats each of the four channels.        *)
(***************************************************************************)
EXTENDS Integers, Sequences, FiniteSets

CONSTANTS ByteSize,     \* values of a byte of a pixel (256)
          SizeByte,     \* values of a byte of a width or height (256)
          Side,         \* widths and heights
          Threshold,    \* alpha from which a pixel is visible (16)
          MaxDimension, \* MAX_DIMENSION (12 000)
          MaxPixels     \* MAX_PIXELS (40 000 000)

ASSUME PictureAssumption ==
  /\ ByteSize \in Nat \ {0} /\ Threshold \in 0..(ByteSize - 1)
  /\ SizeByte \in Nat \ {0} /\ Side \subseteq Nat
  /\ MaxDimension \in Nat /\ MaxPixels \in Nat

VARIABLES stage,   \* how far the picture has come, or how it was refused
          bytes,   \* the bytes under judgement
          concluded     \* what was concluded of them
pictureVars == <<stage, bytes, concluded>>

\* The containers, with the brands of HEIF that only one of the two lists
\* knows ("heim" stands for hevx, heim, heis and msf1, "heic" for heic, heix,
\* hevc and mif1). A WebP is "lossy" when its first chunk is a VP8 frame.
Container == {"jpeg", "png", "webp", "lossyWebp", "gif", "heic", "heim", "heif", "other"}
Mime == {"image/jpeg", "image/png", "image/webp", "image/gif", "image/heic", "image/heif", "text/html"}

\* A file as it is uploaded. "tiny" is less than 12 bytes, "cut" ends before its
\* width and height can be read, "huge" is over 10 MB. A VP8 frame has 14 bits for
\* each of them.
File ==
  {f \in [container: Container, length: {"tiny", "cut", "whole", "huge"}, declared: Mime,
          width: Side, height: Side] :
     f.container = "lossyWebp" => \A v \in {f.width, f.height} : 4 * v < SizeByte * SizeByte}

NothingTold == [type |-> "none", as |-> "none", box |-> {}]

----
(* The two readings of a file's type. *)

TypeOf(c) ==
  CASE c = "jpeg" -> "image/jpeg" [] c = "png" -> "image/png" [] c \in {"webp", "lossyWebp"} -> "image/webp"
    [] c = "gif" -> "image/gif" [] OTHER -> "image/heic"

\* Mutant of SniffImageType: a signature is not looked for.
SniffDeclaredType(f) == IF f.length = "tiny" THEN "none" ELSE f.declared

\* sniffImageType
SniffImageType(f) ==
  IF f.length = "tiny" \/ f.container \in {"heif", "other"} THEN "none" ELSE TypeOf(f.container)

\* inspectImage: GIF is not looked for, and the list of HEIF brands is another.
Inspected(f) ==
  IF f.length = "tiny" \/ f.container \in {"gif", "heim", "other"} THEN "none" ELSE TypeOf(f.container)

\* Whether inspectImage reads a width and a height: not of HEIF, nor of the other
\* WebP files.
Measured(f) == f.container \in {"jpeg", "png", "lossyWebp"} /\ f.length # "cut"

\* A VP8 frame has the low byte of a side first; it is read as the high one, and
\* the upper two of the 16 bits are dropped (a side that is not to be scaled has
\* none set).
Swapped(v) == ((v % SizeByte) * SizeByte + v \div SizeByte) % ((SizeByte * SizeByte) \div 4)
SideRead(f, v) == IF f.container = "lossyWebp" THEN Swapped(v) ELSE v

Oversize(w, h) == w > MaxDimension \/ h > MaxDimension \/ w * h > MaxPixels

\* Mutant of TooLarge: long and narrow is the only way to be too large.
TooLargeBySides(f) ==
  Measured(f) /\ (SideRead(f, f.width) > MaxDimension \/ SideRead(f, f.height) > MaxDimension)

\* validateOriginalBytes: the sides that are read are too large.
TooLarge(f) == Measured(f) /\ Oversize(SideRead(f, f.width), SideRead(f, f.height))

----
(* The original. *)

RefusePicture(why) == stage' = why /\ UNCHANGED <<bytes, concluded>>

\* uploadFile: the declared type must be one of the six, the file not too long
\* and its signature known; its name and the type it is served with come from
\* the signature.
UploadFile ==
  /\ stage = "chosen"
  /\ LET type == SniffImageType(bytes)
     IN IF bytes.declared = "text/html" \/ bytes.length = "huge" \/ type = "none"
        THEN RefusePicture("notUploaded")
        ELSE stage' = "uploaded" /\ concluded' = [concluded EXCEPT !.type = type] /\ UNCHANGED bytes

\* registerFromUpload and validateOriginalBytes: the type that is declared this
\* time must be the bytes' own, any HEIF name standing for HEIC. The dimensions
\* of a PNG are read before it is known that there are so many bytes: the read
\* throws.
RegisterFromUpload ==
  /\ stage = "uploaded"
  /\ LET type == Inspected(bytes)
         matches == bytes.declared = type \/ (bytes.declared = "image/heif" /\ type = "image/heic")
     IN IF bytes.container = "png" /\ bytes.length = "cut" THEN RefusePicture("broken")
        ELSE IF type = "none" \/ ~matches \/ TooLarge(bytes) THEN RefusePicture("notRegistered")
        ELSE stage' = "registered" /\ concluded' = [NothingTold EXCEPT !.as = type] /\ UNCHANGED bytes

----
(* The output of the provider. *)

\* The predictor of a PNG row filter, as the standard defines it: Paeth's takes,
\* of left, above and upper left, the first that is nearest to their gradient.
Distance(p, v) == IF p > v THEN p - v ELSE v - p
Nearest(a, b, c) ==
  LET near == <<a, b, c>>
      i == CHOOSE i \in 1..3 :
             /\ \A j \in 1..3 : Distance(a + b - c, near[i]) <= Distance(a + b - c, near[j])
             /\ \A j \in 1..(i - 1) : Distance(a + b - c, near[i]) < Distance(a + b - c, near[j])
  IN near[i]
StandardPredictor(filter, a, b, c) ==
  CASE filter = 0 -> 0 [] filter = 1 -> a [] filter = 2 -> b
    [] filter = 3 -> (a + b) \div 2 [] filter = 4 -> Nearest(a, b, c)

Size == 1..2
Pixels == UNION {[(1..size[1]) \X (1..size[2]) -> 0..(ByteSize - 1)] : size \in Size \X Size}
Width(pixels) == Cardinality({p[2] : p \in DOMAIN pixels})
Height(pixels) == Cardinality({p[1] : p \in DOMAIN pixels})
PixelAt(pixels, y, x) == IF <<y, x>> \in DOMAIN pixels THEN pixels[<<y, x>>] ELSE 0

\* An encoder's rows of a picture under a choice of filters.
Encoded(pixels, filters) ==
  [p \in DOMAIN pixels |->
    LET y == p[1]
        x == p[2]
    IN (pixels[p] - StandardPredictor(filters[y], PixelAt(pixels, y, x - 1), PixelAt(pixels, y - 1, x),
                                      PixelAt(pixels, y - 1, x - 1))) % ByteSize]

\* What may come back: not a PNG, or too short to be one; a PNG without alpha, of
\* too many pixels, of another depth or interlaced, whose first chunk is shorter than a header is, or
\* whose data does not inflate; and a PNG the decoder reads. A filter of 5 is none
\* of the standard's.
Unfit == {"json", "jpeg", "truncated", "opaque", "immense"}
Oddity == Unfit \cup {"otherDepth", "shortHeader", "badData"}
OddOutput == [odd: Oddity, rows: {<<>>}, filters: {<<>>}, pixels: {<<>>}]

\* paeth()
Paeth(a, b, c) ==
  LET p == a + b - c
  IN IF Distance(p, a) <= Distance(p, b) /\ Distance(p, a) <= Distance(p, c) THEN a
     ELSE IF Distance(p, b) <= Distance(p, c) THEN b ELSE c

\* Mutant of Predictor: the average of left and above is rounded up.
PredictorRoundsUp(filter, a, b, c) ==
  CASE filter = 0 -> 0 [] filter = 1 -> a [] filter = 2 -> b
    [] filter = 3 -> (a + b + 1) \div 2 [] filter = 4 -> Paeth(a, b, c)

\* The filters of decodeRgbaPng.
Predictor(filter, a, b, c) ==
  CASE filter = 0 -> 0 [] filter = 1 -> a [] filter = 2 -> b
    [] filter = 3 -> (a + b) \div 2 [] filter = 4 -> Paeth(a, b, c)

\* decodeRgbaPng: each value from the row's filter and the values decoded so far.
Decoded(rows, filters) ==
  LET value[p \in (0..Height(rows)) \X (0..Width(rows))] ==
        LET y == p[1]
            x == p[2]
        IN IF y = 0 \/ x = 0 THEN 0
           ELSE (rows[p] + Predictor(filters[y], value[<<y, x - 1>>], value[<<y - 1, x>>],
                                     value[<<y - 1, x - 1>>])) % ByteSize
  IN [p \in DOMAIN rows |-> value[p]]

\* Mutant of VisibleBounds: the size is the distance of the edges.
VisibleBoundsShort(pixels) ==
  LET seen == {p \in DOMAIN pixels : pixels[p] >= Threshold}
      least(S) == CHOOSE m \in S : \A n \in S : m <= n
      most(S) == CHOOSE m \in S : \A n \in S : m >= n
      xs == {p[2] : p \in seen}
      ys == {p[1] : p \in seen}
  IN IF seen = {} THEN {}
     ELSE {[x |-> least(xs) - 1, y |-> least(ys) - 1,
            width |-> most(xs) - least(xs), height |-> most(ys) - least(ys)]}

\* computeVisibleAlphaBounds: no box, or one, in pixels from the top left corner.
VisibleBounds(pixels) ==
  LET seen == {p \in DOMAIN pixels : pixels[p] >= Threshold}
      least(S) == CHOOSE m \in S : \A n \in S : m <= n
      most(S) == CHOOSE m \in S : \A n \in S : m >= n
      xs == {p[2] : p \in seen}
      ys == {p[1] : p \in seen}
  IN IF seen = {} THEN {}
     ELSE {[x |-> least(xs) - 1, y |-> least(ys) - 1,
            width |-> most(xs) - least(xs) + 1, height |-> most(ys) - least(ys) + 1]}

\* The provider answers.
Provide ==
  /\ stage = "registered"
  /\ stage' = "provided"
  /\ \/ bytes' \in OddOutput
     \/ \E pixels \in Pixels : \E filters \in [1..Height(pixels) -> 0..5] :
          bytes' = [odd |-> "no", pixels |-> pixels, filters |-> filters,
                    rows |-> IF \E y \in DOMAIN filters : filters[y] = 5 THEN pixels
                             ELSE Encoded(pixels, filters)]
  /\ UNCHANGED concluded

\* validateTransparentOutput, with classifyProviderBytes: a PNG of 67 bytes at
\* least whose header byte, or a transparency chunk, says that it has alpha, and
\* of at most MAX_PIXELS. Nothing is stored of the rest.
ValidateTransparentOutput ==
  /\ stage = "provided"
  /\ IF bytes.odd \in Unfit THEN RefusePicture("notIsolated")
     ELSE stage' = "stored" /\ concluded' = [concluded EXCEPT !.type = "image/png"] /\ UNCHANGED bytes

\* computePngVisibleBounds, once the picture is stored: no bounds for a shape or
\* a filter the decoder does not know, or a picture nothing is visible of. A first
\* chunk that is too short makes the read throw.
ComputePngVisibleBounds ==
  /\ stage = "stored"
  /\ IF bytes.odd = "shortHeader" THEN RefusePicture("broken")
     ELSE /\ stage' = "processed"
          /\ concluded' = [concluded EXCEPT !.box =
               IF bytes.odd # "no" \/ (\E y \in DOMAIN bytes.filters : bytes.filters[y] > 4) THEN {}
               ELSE VisibleBounds(Decoded(bytes.rows, bytes.filters))]
          /\ UNCHANGED bytes

----
PictureInit == stage = "chosen" /\ bytes \in File /\ concluded = NothingTold

PictureNext ==
  \/ UploadFile \/ RegisterFromUpload
  \/ Provide \/ ValidateTransparentOutput \/ ComputePngVisibleBounds

PictureSpec == PictureInit /\ [][PictureNext]_pictureVars

----
Stage == {"chosen", "uploaded", "registered", "provided", "stored", "processed",
          "notUploaded", "notRegistered", "notIsolated", "broken"}
PictureTypeOK ==
  /\ stage \in Stage
  /\ concluded.type \in Mime \cup {"none"} /\ concluded.as \in Mime \cup {"none"}

\* Whether a box is the smallest that holds every visible pixel: all of them are
\* inside, and each edge touches one.
Tight(boxes, pixels) ==
  LET seen == {p \in DOMAIN pixels : pixels[p] >= Threshold}
      column(x) == \E p \in seen : p[2] = x
      row(y) == \E p \in seen : p[1] = y
  IN IF boxes = {} THEN seen = {}
     ELSE \A box \in boxes :
            /\ \A p \in seen : /\ p[2] \in (box.x + 1)..(box.x + box.width)
                              /\ p[1] \in (box.y + 1)..(box.y + box.height)
            /\ column(box.x + 1) /\ column(box.x + box.width)
            /\ row(box.y + 1) /\ row(box.y + box.height)

FalselyDeclared(f, type) ==
  f.declared # type /\ ~(f.declared = "image/heif" /\ type = "image/heic")

\* A picture is judged by its bytes at every stage: it is served with the type of
\* its bytes, whatever the client declared; an upload that was taken is refused
\* later only for a type or a brand the second reading does not know, a false
\* declaration or its size, and none whose size is read and too large is taken,
\* but for a lossy WebP, whose sides are misread; a subject's bounds are the
\* smallest around what is visible of the picture the provider encoded, or missing
\* when the decoder does not know its shape; and nothing but a PNG cut short in
\* its header breaks a request.
BytesDecide ==
  /\ stage = "uploaded" => concluded.type = TypeOf(bytes.container) /\ bytes.container # "other"
  /\ stage = "notRegistered" =>
       \/ bytes.container \in {"gif", "heim", "lossyWebp"}
       \/ Measured(bytes) /\ Oversize(bytes.width, bytes.height)
       \/ FalselyDeclared(bytes, concluded.type)
  /\ stage = "registered" /\ Measured(bytes) /\ bytes.container # "lossyWebp" =>
       ~Oversize(bytes.width, bytes.height)
  /\ stage = "processed" /\ bytes.odd = "no" /\ (\A y \in DOMAIN bytes.filters : bytes.filters[y] < 5) =>
       Tight(concluded.box, bytes.pixels)
  /\ stage = "processed" /\ bytes.odd # "no" => concluded.box = {}
  /\ stage = "broken" /\ concluded.as # "none" => bytes.odd = "shortHeader"
  /\ stage = "broken" /\ concluded.as = "none" => bytes.container = "png" /\ bytes.length = "cut"

\* What the comments say of the registration (media-image-validation.ts:25 "Detect
\* container + dimensions + alpha from magic bytes", :80 "Rejects unknown/unsupported
\* containers, decompression bombs"): a picture of which dimensions are read, and
\* whose type is declared as it is, is refused if it is too large, and only then.
JudgedBySize ==
  Measured(bytes) =>
    /\ stage = "registered" => ~Oversize(bytes.width, bytes.height)
    /\ stage = "notRegistered" /\ ~FalselyDeclared(bytes, concluded.type) =>
         Oversize(bytes.width, bytes.height)

\* What a comment says (png-alpha-bounds.ts:159 "never throws"): looking for the bounds of a picture that was paid for
\* and stored breaks no run.
BoundsNeverThrow == stage = "broken" => concluded.as = "none"
====
