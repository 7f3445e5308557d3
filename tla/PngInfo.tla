------------------------------ MODULE PngInfo ------------------------------
(***************************************************************************)
(* pnginfo (p1/src/pnginfo.c) with the chunk readers and crc_check of      *)
(* lab_png.c: a PNG of three chunks is read, its dimensions are printed,   *)
(* and each chunk's CRC is compared with the one computed of its type and  *)
(* data. The file is a sound image in which bits may have been flipped,    *)
(* wherever they are, or which was cut off.                                *)
(***************************************************************************)
EXTENDS Crc

CONSTANTS
    Pictures,  \* sound images: the data of IHDR (13 bytes) and of IDAT
    Damages    \* the bits that were flipped, and the length the file was cut to

\* Sound data is shorter than 256 bytes here.
ASSUME PictureAssumption ==
    \A p \in Pictures : /\ p.ihdr \in Seq(SUBSET (0..7)) /\ Len(p.ihdr) = 13
                        /\ p.idat \in Seq(SUBSET (0..7)) /\ Len(p.idat) < 256

ASSUME DamageAssumption == \A d \in Damages : d.cut \in Nat

VARIABLES
    picture, file,
    stage,
    pos,      \* the position in the file
    chunks,   \* the chunks that have been read
    shown,    \* the width and the height that were printed
    nth,      \* the chunk being checked
    through,  \*   how many bytes of it crc has been through
    running,  \*   and the running CRC of update_crc
    errors    \* the chunks for which an error has been printed

pngVars == <<picture, file, stage, pos, chunks, shown, nth, through, running, errors>>

-----------------------------------------------------------------------------
(* What is in a file. *)

\* A word as four bytes, the highest first, and back (htonl, ntohl).
Bytes4(w)  == [b \in 1..4 |-> {e \in 0..7 : e + 32 - 8 * b \in w}]
Word(four) == {e \in Ones : e % 8 \in four[4 - e \div 8]}

\* The value of a word, or of one without high bits; the others are more than any file has.
Huge == 2^16
Value(w) ==
    LET v[b \in 0..16] == IF b = 0 THEN 0 ELSE 2 * v[b - 1] + IF 16 - b \in w THEN 1 ELSE 0
    IN  IF w \subseteq 0..15 THEN v[16] ELSE Huge

Types == [IHDR |-> <<Bits(73), Bits(72), Bits(68), Bits(82)>>,
          IDAT |-> <<Bits(73), Bits(68), Bits(65), Bits(84)>>,
          IEND |-> <<Bits(73), Bits(69), Bits(78), Bits(68)>>]

Signature == <<Bits(137), Bits(80), Bits(78), Bits(71), Bits(13), Bits(10), Bits(26), Bits(10)>>

SoundChunk(type, data) == [type |-> type, data |-> data, crc |-> CrcOf(type \o data)]

\* The chunks of a picture, and its file.
Sound(p) == <<SoundChunk(Types.IHDR, p.ihdr), SoundChunk(Types.IDAT, p.idat),
              SoundChunk(Types.IEND, <<>>)>>

Laid(ch) == Bytes4(Bits(Len(ch.data))) \o ch.type \o ch.data \o Bytes4(ch.crc)

SoundFile(p) == Signature \o Laid(Sound(p)[1]) \o Laid(Sound(p)[2]) \o Laid(Sound(p)[3])

\* bytes with some of its bits, counted from the least significant of the first, flipped.
Flipped(bytes, bits) ==
    [b \in DOMAIN bytes |-> SymDiff(bytes[b], {q \in 0..7 : 8 * (b - 1) + q \in bits})]

DamagedFile(p, d) ==
    LET whole == SoundFile(p)
    IN  SubSeq(Flipped(whole, d.bits), 1, IF d.cut < Len(whole) THEN d.cut ELSE Len(whole))

PngInit ==
    /\ picture \in Pictures
    /\ \E d \in Damages : file = DamagedFile(picture, d)
    /\ stage = "signature"
    /\ pos = 0 /\ chunks = <<>> /\ shown = <<>>
    /\ nth = 1 /\ through = 0 /\ running = Ones
    /\ errors = {}

-----------------------------------------------------------------------------
(* Reading. *)

\* is_png looks at the second to the fourth byte; a file without them leaves it memory
\* that nothing was written to.
IsPng ==
    /\ stage = "signature"
    /\ stage' = IF Len(file) < 4 THEN "undefined"
             ELSE IF SubSeq(file, 2, 4) = SubSeq(Signature, 2, 4) THEN "read" ELSE "done"
    /\ pos' = IF Len(file) < 8 THEN Len(file) ELSE 8
    /\ UNCHANGED <<picture, file, chunks, shown, nth, through, running, errors>>

\* The next m bytes from offset o.
At(o, m) == SubSeq(file, pos + o + 1, pos + o + m)

LengthField == Value(Word(At(0, 4)))

\* The readers find all they look for. get_png_data_IHDR allocates what the length
\* says and reads 13 bytes.
Readable ==
    /\ pos + 4 <= Len(file)
    /\ pos + 12 + LengthField <= Len(file)
    /\ chunks = <<>> => LengthField = 13

\* get_png_data_IHDR, get_png_data_IDAT and get_png_data_IEND, of which none tells when
\* the file ends too soon: members of the chunk stay as malloc left them, or an IHDR
\* of another length overruns its buffer.
ReadChunk ==
    /\ stage = "read"
    /\ IF Readable
       THEN /\ chunks' = Append(chunks, [type |-> At(4, 4), data |-> At(8, LengthField),
                                         crc |-> Word(At(8 + LengthField, 4))])
            /\ pos' = pos + 12 + LengthField
            /\ stage' = IF Len(chunks) = 2 THEN "show" ELSE "read"
       ELSE stage' = "undefined" /\ UNCHANGED <<chunks, pos>>
    /\ UNCHANGED <<picture, file, shown, nth, through, running, errors>>

Dimensions(ihdr) == <<Word(SubSeq(ihdr, 1, 4)), Word(SubSeq(ihdr, 5, 8))>>

\* copy_IHDR copies nothing if the type is another; what main then prints is
\* what malloc left, and here nothing.
ShowDimensions ==
    /\ stage = "show"
    /\ shown' = IF chunks[1].type = Types.IHDR THEN Dimensions(chunks[1].data) ELSE <<>>
    /\ stage' = "check"
    /\ UNCHANGED <<picture, file, pos, chunks, nth, through, running, errors>>

-----------------------------------------------------------------------------
(* Checking. *)

\* What crc_check copies to buf.
Covered(ch) == ch.type \o ch.data

\* A turn of the loop in update_crc, called for type and data of the chunk.
UpdateByte ==
    /\ stage = "check"
    /\ through < Len(Covered(chunks[nth]))
    /\ running' = Update(running, Covered(chunks[nth])[through + 1])
    /\ through' = through + 1
    /\ UNCHANGED <<picture, file, stage, pos, chunks, shown, nth, errors>>

\* is_IHDR, is_IDAT, is_IEND: one of them accepts the type.
KnownType(ch) == \E t \in DOMAIN Types : ch.type = Types[t]

BugMatches(computed, ch) ==  \* half of the CRC is compared
    SymDiff(computed, Ones) \cap (0..15) = ch.crc \cap (0..15)

\* crc_val is the 1's complement of the running CRC.
Matches(computed, ch) == SymDiff(computed, Ones) = ch.crc

NextChunk == nth' = nth + 1 /\ through' = 0 /\ running' = Ones

\* The end of crc_check: an error is printed if the type is known. Its result is not
\* used.
Compare ==
    /\ stage = "check"
    /\ through = Len(Covered(chunks[nth]))
    /\ errors' = IF Matches(running, chunks[nth]) \/ ~KnownType(chunks[nth]) THEN errors
                 ELSE errors \cup {nth}
    /\ \/ nth < 3 /\ NextChunk /\ UNCHANGED stage
       \/ nth = 3 /\ stage' = "done" /\ UNCHANGED <<nth, through, running>>
    /\ UNCHANGED <<picture, file, pos, chunks, shown>>

PngNext == IsPng \/ ReadChunk \/ ShowDimensions \/ UpdateByte \/ Compare

PngSpec == PngInit /\ [][PngNext]_pngVars

-----------------------------------------------------------------------------
(* What the check is worth. *)

\* The running CRC, computed a byte at a time from a table, is at every byte what the
\* standard's division makes of the bytes so far.
Divides == stage = "check" => running = Reference(SubSeq(Covered(chunks[nth]), 1, through))

\* The length fields of the file, which lie where a sound file has them.
LengthsWhole ==
    LET sound == SoundFile(picture)
        fields == 9..12 \cup 34..37 \cup {46 + Len(picture.idat) + b : b \in 0..3}
    IN  Len(file) = Len(sound) /\ \A b \in fields : file[b] = sound[b]

\* What pnginfo says of a damaged file can be relied on. A run that gets to its end
\* prints an error for each chunk that is not the one that was written, and for no
\* other, as long as the chunk's type is known: damage to the type itself goes
\* unreported, since main does not use crc_check's result (pnginfo.c:51-53). The
\* dimensions it prints are then right. Only damage to a length, or a file cut off, leaves it
\* without defined behaviour, of which nothing more is said; a run with a damaged length
\* that does get to its end has not taken it for a sound chunk.
DataChecked ==
    /\ stage = "done" /\ Len(chunks) = 3 =>
          /\ \A j \in 1..3 :
                KnownType(chunks[j]) => (j \in errors <=> chunks[j] # Sound(picture)[j])
          /\ 1 \notin errors /\ shown # <<>> => shown = Dimensions(picture.ihdr)
    /\ stage = "undefined" => ~LengthsWhole
============================================================================
