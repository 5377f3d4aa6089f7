--------------------------- MODULE ProjectBundle ---------------------------
(***************************************************************************)
(* The DCP1 project stream, read twice: as the self-hosted compiler reads  *)
(* it (struct DynProjectReader, selfhost/src/compiler.c) and as the host   *)
(* tools decode it (decode_project, symphony/project.py).                  *)
(*                                                                         *)
(* Persistent memory is a function from word numbers to words; addresses   *)
(* and positions are byte addresses, as in the code.  A text is the range  *)
(* of bytes it was read from.  The compiler asks nothing of what a text    *)
(* says; the host's decoder does, of its bytes.                            *)
(***************************************************************************)
EXTENDS Integers, SequencesExt

CONSTANTS Modulus,        \* 2^32 in the code: words are 0 .. Modulus - 1
          ByteValues,     \* 2^8 in the code: how many values a byte has
          BundleMagic,    \* "DCP1"
          Slash, Dot,     \* the bytes that paths are cut at and made of
          Utf8(_)         \* what bytes.decode takes: the well-formed texts

ASSUME BundleAssumption ==
    /\ Modulus \in Nat /\ Modulus % 4 = 0 /\ Modulus > 4
    /\ BundleMagic \in 0 .. Modulus - 1

\* Four bytes make a word.
ASSUME ByteAssumption ==
    /\ ByteValues \in Nat /\ Modulus = ByteValues * ByteValues * ByteValues * ByteValues
    /\ {Slash, Dot} \subseteq 1 .. ByteValues - 1 /\ Slash # Dot

\* The persistent device; what it answers outside its size is not relied on.
Load(mem, address) ==
    IF address \div 4 \in DOMAIN mem THEN mem[address \div 4] ELSE 0

Padded(size) == ((size + 3) \div 4) * 4

----------------------------------------------------------------------------
(* The compiler's reader.  A field of text that was never filled in is what *)
(* calloc left there.                                                       *)

Reader(address, length) ==
    [address |-> address, length |-> length, position |-> 0, error |-> FALSE]

NoText == [address |-> 0, length |-> 0]

\* Slip: any byte left is taken for a word.
ShortOnlyAtEnd(r) == r.position >= r.length

Short(r) == r.position > r.length \/ r.length - r.position < 4

U32(r) ==
    IF Short(r) THEN [r EXCEPT !.error = TRUE] ELSE [r EXCEPT !.position = @ + 4]

\* n reads in a row.
U32s(r, n) ==
    LET there == (r.length - r.position) \div 4
    IN  IF n <= there THEN [r EXCEPT !.position = @ + 4 * n]
        ELSE [r EXCEPT !.position = @ + 4 * there, !.error = TRUE]

Value(mem, r) == IF Short(r) THEN 0 ELSE Load(mem, r.address + r.position)

\* The largest size dyn_project_skip_blob can pad without overflow.
LargestBlob == Modulus - 4

Overruns(r, size) == r.position > r.length \/ Padded(size) > r.length - r.position

\* dyn_project_skip_blob: too large a size fails without an error.
Blob(mem, r) ==
    LET size == Value(mem, r)
        s == U32(r)
    IN  CASE s.error \/ size > LargestBlob -> [reader |-> s, text |-> NoText]
          [] ~s.error /\ size <= LargestBlob /\ Overruns(s, size) ->
                [reader |-> [s EXCEPT !.error = TRUE], text |-> NoText]
          [] OTHER -> [reader |-> [s EXCEPT !.position = @ + Padded(size)],
                       text |-> [address |-> s.address + s.position, length |-> size]]

\* dyn_project_read_text; room says whether malloc finds memory.
Text(mem, r, room) ==
    LET blob == Blob(mem, r)
    IN  IF blob.text # NoText /\ ~room
        THEN [reader |-> [blob.reader EXCEPT !.error = TRUE], text |-> NoText]
        ELSE blob

----------------------------------------------------------------------------
(* The host's decoder: first the frame of the stream, the positions its      *)
(* counts and lengths lead to.                                              *)

Bad == -1        \* ProjectFormatError

\* _Reader.u32: where the next field starts.
AfterWord(length, p) == IF p = Bad \/ p + 4 > length THEN Bad ELSE p + 4

\* _Reader.blob: where the blob ends.  (ZeroPadded is the rest of it.)
BlobEnd(mem, address, length, p) ==
    LET start == AfterWord(length, p)
        end == start + Padded(Load(mem, address + p))
    IN  IF start = Bad \/ end > length THEN Bad ELSE end

FileCount(mem, address) == Load(mem, address + 12)
TextCount(mem, address) == Load(mem, address + 16) + Load(mem, address + 20)

\* Where entry k ends that starts at p: roots and definitions, then files.
EntryEnd(mem, address, length, k, p) ==
    LET After(q) == BlobEnd(mem, address, length, q)
    IN  IF p = Bad THEN Bad
        ELSE IF k <= TextCount(mem, address) THEN After(p)
        ELSE IF Load(mem, address + p) \notin {1, 2} THEN Bad
        ELSE After(After(AfterWord(length, p)))

EntryEnds(mem, address, length) ==
    LET ends[k \in 0 .. TextCount(mem, address) + FileCount(mem, address)] ==
            IF k = 0 THEN 24 ELSE EntryEnd(mem, address, length, k, ends[k - 1])
    IN  ends

\* The entries the header counts fit the stream and end with it.  (Every entry
\* takes a word, so a stream shorter than its counts has not as many.)
Framed(mem, address, length) ==
    LET texts == TextCount(mem, address)
        files == FileCount(mem, address)
    IN  /\ length >= 24
        /\ Load(mem, address) = BundleMagic
        /\ Load(mem, address + 4) = 1
        /\ Load(mem, address + 8) = 0
        /\ texts + files <= length
        /\ EntryEnds(mem, address, length)[texts + files] = length

\* The texts of the stream, in order, as the (address, length) of each blob: one
\* of a root or a definition, the path and the contents of a file.
DecodedTexts(mem, address, length) ==
    LET texts == TextCount(mem, address)
        ends == EntryEnds(mem, address, length)
        At(p) == [address |-> address + p + 4, length |-> Load(mem, address + p)]
        path(i) == ends[texts + (i - texts + 1) \div 2 - 1] + 4
    IN  [i \in 1 .. texts + 2 * FileCount(mem, address) |->
            IF i <= texts THEN At(ends[i - 1])
            ELSE IF (i - texts) % 2 = 1 THEN At(path(i))
            ELSE At(BlobEnd(mem, address, length, path(i)))]

----------------------------------------------------------------------------
(* Then what the decoder asks of the texts.                                 *)

\* The first byte of a word is in its highest bits.
ByteAt(mem, a) ==
    LET place == <<ByteValues * ByteValues * ByteValues, ByteValues * ByteValues, ByteValues, 1>>
    IN  (Load(mem, a) \div place[(a % 4) + 1]) % ByteValues

BytesOf(mem, text) == [i \in 1 .. text.length |-> ByteAt(mem, text.address + i - 1)]

\* _Reader.blob: no byte behind the text that is not zero.
ZeroPadded(mem, text) ==
    \A i \in text.length .. Padded(text.length) - 1 : ByteAt(mem, text.address + i) = 0

\* PurePosixPath: a name is cut at its slashes; empty components and single
\* dots vanish.
Components(name) ==
    LET cuts == {0, Len(name) + 1} \cup {i \in DOMAIN name : name[i] = Slash}
        cut == SetToSortSeq(cuts, <)
        all == [k \in 1 .. Len(cut) - 1 |-> SubSeq(name, cut[k] + 1, cut[k + 1] - 1)]
    IN  SelectSeq(all, LAMBDA c : c \notin {<<>>, <<Dot>>})

\* as_posix, of a relative path: the components that are left.
PathName(name) == Tail(FlattenSeq([i \in DOMAIN Components(name) |-> <<Slash>> \o Components(name)[i]]))

\* _path: something is left, not at the root and never upwards.
ValidPath(name) ==
    /\ Components(name) # <<>>
    /\ name[1] # Slash
    /\ <<Dot, Dot>> \notin Range(Components(name))

\* The order of strings; of UTF-8, byte by byte.
Before(a, b) ==
    \E i \in DOMAIN b :
        /\ i <= Len(a) + 1 /\ SubSeq(a, 1, i - 1) = SubSeq(b, 1, i - 1)
        /\ i \in DOMAIN a => a[i] < b[i]

\* decode_project: the stream is a bundle.  Contents may be any bytes; the
\* paths of the files, once normal, ascend, none of them twice.
Decodes(mem, address, length) ==
    /\ Framed(mem, address, length)
    /\ LET texts == DecodedTexts(mem, address, length)
           Name(i) == BytesOf(mem, texts[i])
           roots == 1 .. Load(mem, address + 16)
           path == [k \in 1 .. FileCount(mem, address) |-> TextCount(mem, address) + 2 * k - 1]
       IN  /\ \A i \in DOMAIN texts : ZeroPadded(mem, texts[i])
           /\ \A i \in 1 .. TextCount(mem, address) : Utf8(Name(i))
           /\ \A k \in DOMAIN path : Utf8(Name(path[k]))
           /\ \A i \in roots \cup Range(path) : ValidPath(Name(i))
           /\ \A k \in DOMAIN path \ {1} :
                Before(PathName(Name(path[k - 1])), PathName(Name(path[k])))

\* The compiler also wants a translation unit.
HasSource(mem, address, length) ==
    LET texts == TextCount(mem, address)
        ends == EntryEnds(mem, address, length)
    IN  \E k \in 1 .. FileCount(mem, address) :
            Load(mem, address + ends[texts + k - 1]) = 1
=============================================================================
