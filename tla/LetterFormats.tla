---------------------------- MODULE LetterFormats ----------------------------
(***************************************************************************)
(* The formats of packages/protocol: GBYL (media), GTX1 (text), GPK1 (the  *)
(* seed under a passkey), and the wraps of the letter key.                 *)
(*                                                                         *)
(* Bytes are a sequence of chunks, each a field's value and its size in    *)
(* bytes, as a ByteWriter appends them; a ByteReader that asks for fields  *)
(* of other sizes fails.  Cryptography is ideal: a ciphertext is the key,  *)
(* the nonce, the additional data and the plaintext it was made of, and    *)
(* opens under just those.                                                 *)
(***************************************************************************)
EXTENDS Naturals, Sequences, SequencesExt

CONSTANTS
    Bad,               \* an error, or a value that no one produced
    MaxArchiveBytes,   \* MAX_ARCHIVE_BYTES
    MaxTextBytes       \* MAX_ENCRYPTED_TEXT_BYTES

ASSUME FormatAssumption ==
    /\ {MaxArchiveBytes, MaxTextBytes} \subseteq Nat

Chunk(value, size) == [value |-> value, size |-> size]
Sizes(s) == [i \in DOMAIN s |-> s[i].size]
Total(s) == FoldLeft(LAMBDA n, c : n + c.size, 0, s)

-----------------------------------------------------------------------------
(* crypto.ts and context.ts. *)

TextKey(letterKey) == <<"text", letterKey>>
MediaKey(letterKey, index) == <<"media", letterKey, index>>

Context(letter, sender, recipient) ==
    [letter |-> letter, sender |-> sender, recipient |-> recipient]
TextAad(context) == <<context, "TEXT">>
MediaAad(context, index) == <<context, "MEDIA", index>>

\* encryptAesGcm: the nonce and the ciphertext with its tag.
Iv == "iv"
TagBytes == 16
Encrypt(key, aad, plain, size) ==
    <<Chunk(Iv, 12),
      Chunk([key |-> key, iv |-> Iv, aad |-> aad, plain |-> plain,
             size |-> size + TagBytes], size + TagBytes)>>

\* decryptAesGcm.
Decrypt(key, aad, iv, cipher) ==
    IF /\ cipher.size >= TagBytes /\ cipher.size = cipher.value.size
       /\ iv.value = cipher.value.iv
       /\ cipher.value.key = key /\ cipher.value.aad = aad
    THEN cipher.value.plain ELSE Bad

-----------------------------------------------------------------------------
(* gbyl.ts: an item is its type, its codec, its content and its size. *)

MediaMapping == {<<1, 1>>, <<1, 2>>, <<2, 16>>, <<2, 17>>}

\* A count of two bytes.
MaxItems == 65535

PackItem(item, index, letterKey, context) ==
    LET sealed == Encrypt(MediaKey(letterKey, index), MediaAad(context, index),
                          item.content, item.size)
    IN <<Chunk(item.type, 1), Chunk(item.codec, 1), Chunk(0, 2), sealed[1],
         Chunk(sealed[2].size, 4), sealed[2]>>

\* The items one after the other, six chunks each.
Joined(packed) ==
    [k \in 1..(6 * Len(packed)) |-> packed[(k + 5) \div 6][((k - 1) % 6) + 1]]

PackGbyl(items, letterKey, context) ==
    LET archive ==
            <<Chunk("GBYL", 4), Chunk(1, 1), Chunk(0, 1), Chunk(Len(items), 2)>>
            \o Joined([i \in DOMAIN items |->
                   PackItem(items[i], i - 1, letterKey, context)])
    IN IF /\ \A i \in DOMAIN items :
                <<items[i].type, items[i].codec>> \in MediaMapping
          /\ Len(items) <= MaxItems /\ Total(archive) <= MaxArchiveBytes
       THEN archive ELSE Bad

\* The chunks of item i of an archive.
Item(archive, i) == SubSeq(archive, 6 * i - 1, 6 * i + 4)

ItemParses(f) ==
    /\ <<f[1].value, f[2].value>> \in MediaMapping /\ f[3].value = 0
    /\ Sizes(f) = <<1, 1, 2, 12, 4, f[5].value>>
    /\ f[5].value >= TagBytes

HeaderParses(s) ==
    /\ Len(s) >= 4 /\ Sizes(SubSeq(s, 1, 4)) = <<4, 1, 1, 2>>
    /\ s[1].value = "GBYL" /\ s[2].value = 1 /\ s[3].value = 0

\* parseGbyl: the items' chunks, nothing missing and nothing left.
GbylParses(archive) ==
    LET n == archive[4].value
    IN /\ HeaderParses(archive) /\ Len(archive) = 4 + 6 * n
       /\ \A i \in 1..n : ItemParses(Item(archive, i))
       /\ Total(archive) <= MaxArchiveBytes

DecryptGbyl(archive, letterKey, context) ==
    LET n == archive[4].value
        opened(i) ==
            Decrypt(MediaKey(letterKey, i - 1), MediaAad(context, i - 1),
                    Item(archive, i)[4], Item(archive, i)[6])
    IN IF ~GbylParses(archive) \/ \E i \in 1..n : opened(i) = Bad THEN Bad
       ELSE [i \in 1..n |->
                LET f == Item(archive, i)
                IN [type |-> f[1].value, codec |-> f[2].value,
                    content |-> opened(i), size |-> f[6].size - TagBytes]]

-----------------------------------------------------------------------------
(* GbylValidator.php and put of PackageStore.php: the store reads an archive *)
(* by itself, without a key, before it keeps it.                             *)

ItemValid(f) ==
    /\ \/ f[1].value = 1 /\ f[2].value \in {1, 2}
       \/ f[1].value = 2 /\ f[2].value \in {16, 17}
    /\ f[3].value = 0 /\ f[5].value >= 16
    /\ Sizes(f) = <<1, 1, 2, 12, 4, f[5].value>>

\* validate: as many items as the header says, and after them the end of the
\* file, where it was expected.
Validates(file, expectedSize) ==
    LET itemCount == file[4].value
    IN /\ Len(file) >= 4 /\ Sizes(SubSeq(file, 1, 4)) = <<4, 1, 1, 2>>
       /\ file[1].value = "GBYL" /\ file[2].value = 1 /\ file[3].value = 0
       /\ \A i \in 1..itemCount :
             6 * i + 4 <= Len(file) /\ ItemValid(Item(file, i))
       /\ Total(file) = expectedSize /\ Len(file) = 4 + 6 * itemCount

\* Mutant: an archive that is nothing but a header is too short.
StoreAcceptsLonger(body, contentLength) ==
    /\ contentLength > 8 /\ contentLength <= MaxArchiveBytes
    /\ Total(body) = contentLength
    /\ Validates(body, contentLength)

\* put, of a body that came with this Content-Length.
StoreAccepts(body, contentLength) ==
    /\ contentLength >= 8 /\ contentLength <= MaxArchiveBytes
    /\ Total(body) = contentLength
    /\ Validates(body, contentLength)

-----------------------------------------------------------------------------
(* gtx1.ts: a text is its words, whether they begin with a byte order mark, *)
(* and its sizes as it is and compressed.                                   *)

EncryptText(text, letterKey, context) ==
    LET zipped == text.gzip < text.size
        size == IF zipped THEN text.gzip ELSE text.size
        output == <<Chunk("GTX1", 4), Chunk(IF zipped THEN 1 ELSE 0, 1),
                    Chunk(text.size, 4)>>
                  \o Encrypt(TextKey(letterKey), TextAad(context),
                             [text |-> text, zipped |-> zipped], size)
    IN IF Total(output) <= MaxTextBytes THEN output ELSE Bad

\* parseGtx1.
TextParses(s) ==
    /\ Total(s) <= MaxTextBytes /\ Len(s) = 5 /\ s[1].value = "GTX1"
    /\ Sizes(s) = <<4, 1, 4, 12, s[5].size>> /\ s[2].value \in {0, 1}
    /\ s[5].size >= TagBytes

\* Mutant: a flag that says "not compressed" is taken at its word.
DecryptTextAnyLength(s, letterKey, context) ==
    LET plain == Decrypt(TextKey(letterKey), TextAad(context), s[4], s[5])
    IN IF ~TextParses(s) \/ plain = Bad THEN Bad
       ELSE IF s[2].value = 1 /\ ~plain.zipped THEN Bad
       ELSE [plain.text EXCEPT !.mark = FALSE]

\* decryptTextGtx1: gunzip fails on what is no gzip, the length tells what was
\* not unzipped, and TextDecoder takes a leading byte order mark away.
DecryptText(s, letterKey, context) ==
    LET plain == Decrypt(TextKey(letterKey), TextAad(context), s[4], s[5])
    IN IF ~TextParses(s) \/ plain = Bad THEN Bad
       ELSE IF plain.zipped # (s[2].value = 1) \/ plain.text.size # s[3].value
            THEN Bad
       ELSE [plain.text EXCEPT !.mark = FALSE]

-----------------------------------------------------------------------------
(* mailbox.ts and tlock.ts. *)

\* mailboxKeyPairFromSeed.
PublicOf(seed) == <<"public", seed>>
PrivateOf(seed) == <<"private", seed>>
KeyPair(seed) == [public |-> PublicOf(seed), private |-> PrivateOf(seed)]

SealBox(message, public) == [message |-> message, public |-> public]
OpenSealBox(box, pair) ==
    IF box.public = pair.public THEN box.message ELSE Bad

Kek(prf, salt) == <<"kek", prf, salt>>
Prefix(credential, salt) ==
    <<Chunk("GPK1", 4), Chunk(8, 2), Chunk(credential, 8), Chunk(salt, 32)>>

\* wrapMailboxSeedGpk1; the prefix is authenticated.
WrapSeed(seed, credential, prf, salt) ==
    Prefix(credential, salt) \o
    Encrypt(Kek(prf, salt), Prefix(credential, salt), seed, 32)

\* parseGpk1.
Gpk1Parses(s) ==
    /\ Len(s) = 6 /\ s[1].value = "GPK1" /\ s[2].value # 0
    /\ Sizes(s) = <<4, 2, s[2].value, 32, 12, 32 + TagBytes>>

UnwrapSeed(s, prf) ==
    IF ~Gpk1Parses(s) THEN Bad
    ELSE Decrypt(Kek(prf, s[4].value), SubSeq(s, 1, 4), s[5], s[6])

\* TlockAdapter.encrypt and decrypt: a payload opens once the drand network has
\* published its round.
Tlock(payload) == [locked |-> payload]
TlockOpen(ciphertext, published) ==
    IF published THEN ciphertext.locked ELSE Bad

WrapLetterKey(letterKey, public) == Tlock(SealBox(letterKey, public))
UnwrapLetterKey(sealedKey, pair, published) ==
    LET box == TlockOpen(sealedKey, published)
    IN IF box = Bad THEN Bad ELSE OpenSealBox(box, pair)

-----------------------------------------------------------------------------
(* Damage: bytes that differ from what was written in one place. *)

Replaced(s, k) == [s EXCEPT ![k].value = "otherBytes"]
Numbered(s, k) == [s EXCEPT ![k].value = @ + 1]
Garbled(s, k) == [s EXCEPT ![k].value.key = Bad]
Shorter(s) == [s EXCEPT ![Len(s)].size = @ - 1]

\* Of an archive: its magic, version, flags, count, an item's type, flags, nonce,
\* length or ciphertext, two items exchanged, bytes missing or left over.
DamagedGbyl(s) ==
    LET n == s[4].value
        numbers == {2, 3, 4} \cup
                   {6 * i - 2 + k : i \in 1..n, k \in {1, 3, 5}}
        moved(i, j) == [k \in DOMAIN s |->
            IF k \in 6 * i - 1 .. 6 * i + 4 THEN s[k + 6 * (j - i)]
            ELSE IF k \in 6 * j - 1 .. 6 * j + 4 THEN s[k + 6 * (i - j)]
            ELSE s[k]]
    IN {Numbered(s, k) : k \in numbers}
       \cup {Garbled(s, 6 * i + 4) : i \in 1..n}
       \cup ({moved(i, j) : i, j \in 1..n} \ {s})
       \cup {Replaced(s, 6 * i + 2) : i \in 1..n}
       \cup {Replaced(s, 1), Shorter(s), Front(s), Append(s, Chunk(0, 1))}

\* Of a text: its magic, flags, length, nonce or ciphertext, bytes missing or
\* left over.
DamagedText(s) ==
    {Replaced(s, 1), Replaced(s, 4), Numbered(s, 3), Garbled(s, 5),
     Shorter(s), Front(s),
     Append(s, Chunk(0, 1)),
     [s EXCEPT ![2].value = 1 - @], [s EXCEPT ![2].value = @ + 2]}
=============================================================================
