------------------------------ MODULE PngFile ------------------------------
(***************************************************************************)
(* Textures before they are stored: sanitizePng.  A file is its colour     *)
(* type and its chunks after the signature; a chunk is its type and its    *)
(* length: of PLTE and of tRNS in colours, of IDAT in units of the image.  *)
(* Files that are cut off or whose checksums are wrong are rejected first  *)
(* and left out.                                                           *)
(***************************************************************************)
EXTENDS Naturals, Sequences, FiniteSets

CONSTANTS
  MaxChunks,  \* bound: chunks between IHDR and IEND
  Reject,     \* a PngStructureError
  None

VARIABLES file, sanitized
vars == <<file, sanitized>>

Colours == {0, 2, 3, 6}
Chunk(type, length) == [type |-> type, length |-> length]
Middle == {Chunk("IHDR", 1), Chunk("PLTE", 1), Chunk("tRNS", 1), Chunk("tRNS", 2),
           Chunk("IDAT", 0), Chunk("IDAT", 1), Chunk("tEXt", 1)}
Chunks == [type : {"IHDR", "PLTE", "tRNS", "IDAT", "tEXt", "IEND"}, length : Nat]
Files == [colour : Colours, inflates : BOOLEAN, chunks : Seq(Chunks)]

TypeOK == file \in Files /\ (sanitized \in {None, Reject} \/ sanitized \in Files)

Init ==
  /\ \E colour \in Colours, inflates \in BOOLEAN, n \in 0..MaxChunks :
     \E middle \in [1..n -> Middle], end \in {<<>>, <<Chunk("IEND", 1)>>} :
       file = [colour |-> colour, inflates |-> inflates,
               chunks |-> <<Chunk("IHDR", 1)>> \o middle \o end]
  /\ sanitized = None
-----------------------------------------------------------------------------
Places(f, type) == {i \in DOMAIN f.chunks : f.chunks[i].type = type}

\* chunks.find: the first chunk of the type, if there is one.
Find(f, type) ==
  IF Places(f, type) = {} THEN <<>>
  ELSE <<f.chunks[CHOOSE i \in Places(f, type) : \A j \in Places(f, type) : i <= j]>>

Before(f, i, type) == \E k \in 1..i - 1 : f.chunks[k].type = type

\* What validatePngStructure asks of a chunk, given those before it.  The
\* palette has one colour, and one value is right for tRNS without a palette.
ChunkValid(f, i) ==
  LET c == f.chunks[i] IN
  /\ i = 1 <=> c.type = "IHDR"
  /\ c.type = "PLTE" => ~Before(f, i, "PLTE") /\ f.colour # 0
  /\ c.type = "tRNS" => /\ ~Before(f, i, "tRNS")
                        /\ f.colour = 3 => Before(f, i, "PLTE")
                        /\ f.colour \in {0, 2, 3} => c.length = 1
  /\ c.type = "IDAT" => c.length > 0 /\ (f.colour = 3 => Before(f, i, "PLTE"))
  /\ c.type = "IEND" => Before(f, i, "IDAT") /\ i = Len(f.chunks)

Valid(f) ==
  /\ \A i \in DOMAIN f.chunks : ChunkValid(f, i)
  /\ f.chunks[Len(f.chunks)].type = "IEND"

\* The units of all IDAT chunks, which are one stream.  pngImageDataLimit bounds what is
\* inflated; the image is inflated in any case.
Units(f) == UNION {{i} \X (1..f.chunks[i].length) : i \in Places(f, "IDAT")}
Image(f) == Cardinality(Units(f))

Palette(f) == IF f.colour = 3 THEN Find(f, "PLTE") ELSE <<>>
Transparency(f) == IF f.colour \in {0, 2, 3} THEN Find(f, "tRNS") ELSE <<>>

\* BUG: the order of the chunks is forgotten.
TransparencyFirst(f) == Find(f, "IHDR") \o Transparency(f) \o Palette(f)

Kept(f) == Find(f, "IHDR") \o Palette(f) \o Transparency(f)

Rebuilt(f) ==
  [f EXCEPT !.chunks = Kept(f) \o <<Chunk("IDAT", Image(f)), Chunk("IEND", 1)>>]

Foreign(f, c) ==
  /\ c.type \notin {"IHDR", "IEND", "IDAT"}
  /\ ~(c.type = "PLTE" /\ f.colour = 3)
  /\ ~(c.type = "tRNS" /\ f.colour \in {0, 2, 3})

\* A file without foreign chunks whose image is one chunk stays as it is.
Clean(f) ==
  /\ \A i \in DOMAIN f.chunks : ~Foreign(f, f.chunks[i])
  /\ Cardinality(Places(f, "IDAT")) = 1
Sanitize(f) ==
  IF ~Valid(f) \/ ~f.inflates THEN Reject
  ELSE IF Clean(f) THEN f ELSE Rebuilt(f)

SanitizePng == sanitized = None /\ sanitized' = Sanitize(file) /\ UNCHANGED file
Next == SanitizePng
Spec == Init /\ [][Next]_vars
-----------------------------------------------------------------------------
(***************************************************************************)
(* What is stored is a valid file of the same image, in one chunk, with    *)
(* its palette and its transparency and nothing else, and is stored        *)
(* unchanged when it is uploaded again.                                    *)
(***************************************************************************)
StoredIsClean ==
  sanitized \notin {None, Reject} =>
    /\ Valid(sanitized) /\ sanitized.colour = file.colour
    /\ Image(sanitized) = Image(file)
    /\ Cardinality(Places(sanitized, "IDAT")) = 1
    /\ Places(sanitized, "tEXt") = {}
    /\ Find(sanitized, "PLTE") = (IF file.colour = 3 THEN Find(file, "PLTE") ELSE <<>>)
    /\ Find(sanitized, "tRNS") = (IF file.colour = 6 THEN <<>> ELSE Find(file, "tRNS"))
    /\ Sanitize(sanitized) = sanitized
=============================================================================
