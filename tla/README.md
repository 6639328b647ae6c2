# Verification of libdino

TLA+ models of libdino, the library that reads and writes DINO objects: files of
sections with a name table, where index sections map the digests of items to the
place of their data in other sections. The models are translated from the C code
in `lib/` and `src/`; TLC checks them on small instances, and TLAPS proves what the
runs show of the four searches, of Array and of Index for arrays and indexes of any size,
of the retrying I/O, the reader of objects and mkdino for files of any size, cut off
anywhere, of varints of any width, of compressed streams with any number of frames, and of
what dinoinfo lists of objects of any size.

The code is sequential. What is hard in it is not interleaving but arithmetic at
boundaries (bisection, fanout tables, growth of arrays), the failure of any
allocation or read in the middle of an operation, errors that a comparison of
`ssize_t` with `size_t` hides, and long sequences of legal calls on a data
structure whose parts (fanout, count, keys, values) must agree.

## The system

| Component | State | Operations | What makes it correct | Modules |
|---|---|---|---|---|
| Binary searches, `lib/bsearchn.c` | window `baseidx`, `num` | `bsearchn_cmp`, `bsearchir_cmp`, `bisect_cmp`, `bsearchpkr_cmp` | never reads outside its range, misses nothing, returns the insertion point or the exact range | Bsearchn, BsearchLoop, PrefixSearch, Bsearchn_proofs, Searching_proofs, PrefixSearch_proofs |
| Array, `lib/array.c` | `isize`, `count`, `allocated`, `data` | make, load, realloc, grow, shrink, append, insert, set, insort, sort, clear, free | is a sequence of items, whatever fails; never writes past its block | ArrayOps, Array, SeqArray, ArrayOps_proofs, Array_proofs |
| Dino_Index, `lib/index.c` | `count`, `fanout`, two Arrays `keys` and `vals` | make, load, find, search, key_match, add, realloc, clear, free | is a dictionary; fanout, keys and vals agree | IndexOps, Index, Dictionary, Index_proofs |
| Reader, `lib/dino_begin.c`, `sectab.c`, `namtab.c`, `section.c` | `Dino`: header, section table, name table | `read_dino`, `load_indexes`, `get_*_byname` | an open object was read in full; offsets and sizes are those of the file; failures are reported | DinoReader, Reads, Reading_proofs |
| Retrying I/O, `lib/fileio.h`, `buf.c` | bytes read so far, buffer position | `pread_retry`, `read_retry`, `write_retry`, `buf_fill`, `buf_refill` | all that is there is read, every byte to its place; ends if interruptions do | RetryIO, Reads, Bytes_proofs |
| Compression streams, `lib/compression/compression.c`, `funcs.c` | codec context, positions of the buffers | start, compress, end, decompress, getsize | what is decompressed is what was compressed; hints and errors tell the truth | MemcpyCodec, Streams, Channel, Bytes_proofs |
| Adapters, `lib/compression/xz.c`, `zstd.c` | the streams of liblzma and libzstd | compress, flush, end, decompress | 0 is returned of complete frames only; assertions hold | AdaptedStreams, Channel, Reading_proofs |
| Varints, `lib/varint.c` | value, position | encode, decode | decode inverts encode; overflow is reported, and nothing is read past the longest varint | Varint, Bytes_proofs |
| Digests, `lib/digest.c` | OpenSSL context | create, start, update, finish | a digest is of the data given since the last start; a call out of order fails | Hasher |
| `mkdino`, `src/mkdino.c` | two header buffers, one hasher, stream and output buffer for all RPMs | `headerReadRaw`, the loop over RPMs | no part of a header passes for a whole one; the key and the frame of an RPM are its own | Mkdino, Hasher, Reading_proofs |
| `dinoinfo`, `src/dinoinfo.c`, with the hex helpers of `src/dinotools.c` | options, the place in three loops | list names, list the keys of the indexes | all names and just them are listed; the keys shown are those asked for; it ends | Dinoinfo, IndexOps, Searching_proofs |
| `dinorpm`, `src/dinorpm.c` | | | | not modelled |

Who calls whom: `dinoinfo` and `dinorpm` call the reader, `mkdino` a compression stream
and a hasher (it writes no object yet). Varints are called by the tests only. The reader calls the retrying I/O and, for index sections, the
index. An index keeps two Arrays, finds keys with the searches, and loads
itself with `array_load`, which uses the retrying I/O. An Array finds the place
of an item with `bisect_cmp`. There are no threads and no callbacks except the
comparison function, which is always `memcmp`.

`PROJECT.json` lists every component with what is left out of it, the hazards
of the code with the properties that watch them, and the lines that each
definition models.

## Common conventions

* A key or an item is the number that its bytes spell in big-endian order:
  `memcmp` orders items of one size as these numbers are ordered, and the code
  uses nothing else of them. Arrays are functions from the code's 0-based
  indexes. `Complement(i)`, `-i - 1`, is C's `~i`.
* `ssize_t` values that the code compares with a `size_t` go through
  `Unsigned`, with `SizeMax` as the largest `size_t`.
* A function that allocates or reads may fail at any time: it is modelled by
  the set of its outcomes, each what it leaves and what it returns.
* Memory that was never written holds `Garbage`. Comparing with it, or with
  memory past a block, may have any result.
* A module's `TypeOK` is a conjunct of one of its safety invariants, where that is the
  first that would not make sense without it.
* The definitions whose comments call them *slips* (`GoRightStuck`,
  `PutAtByMemcpy`, ...) are used by no action. Each is the definition that follows
  it with a plausible mistake; replacing that by it must break the property
  named in `PROJECT.json`.

## The modules

**Bsearchn** has the searches as recursive functions, for the modules that call
them. **BsearchLoop** has the three bisection loops one iteration at a time
(`Match`, `GoRight`, `GoLeft`, `Exhausted`), on any array, range and key.
`baseidx` and `num` are the window; for `bisect_cmp`, `lo` is `baseidx` and
`hi` is `baseidx + num`. **PrefixSearch** has the loops of `bsearchpkr_cmp`: bisect
until the midpoint matches, then scan down and up. A prefix stands for the
`width` keys that share it, and `array[Count]` for the memory after the last
item. `OperatorsAgree` and `OperatorAgrees` tie the two views together: the recursive
operators compute what the loops return. They are checked, and proved for every array.

**ArrayOps** has the functions of `array.c` as operators on the value of a
`struct Array`. Two fields are added: `overrun` (a write went past the block)
and `suspect` (the array stands over a caller's buffer, or a read error was
taken for success: the two ways in which the code makes an array whose fields
are wrong from the start). **Array** has one array and a caller who calls
everything in any order. **SeqArray** is what an array promises: a sequence.
`Array!IsSequence` says that an array that is not suspect refines it.

**IndexOps** has what `index.c` computes of an index without changing it: the fanout
table, the bucket of a key, `index_find`, `index_search` and `index_key_match`.
**Index** composes two arrays and a fanout table and takes its searches from there. `Bytes` and `PerByte` stand
for the 256 first bytes and the keys that share one. `trust` is a ghost: `"read"`
for an index whose three parts were read in full, `"grown"` after one more key,
`"no"` else. `died` records that a NULL pointer was dereferenced. **Dictionary** is what
an index promises; `Index!IsDictionary` is the refinement.

**MemcpyCodec** has the pass-through codec of `funcs.c` and `cstream_compress1()`
as operators on a context and the bytes in the two buffers of a call. A byte says
what it is, so that data is never mistaken for a header. **Streams** composes a
compressing and a decompressing stream with a file between them. The actions of
the sender follow `mkdino.c` (start, compress while there is input, end), or
compress a frame at once; those of the receiver read pieces of any size and
decompress while there is input. Both look only at the buffers and at errors, not
at the hint returned. With `Reuse` one stream serves all frames, as in `mkdino.c`;
without, each frame has its own, as in the tests. Nothing in the
repository writes compressed data to a file yet (`mkdino.c:339` has a TODO), so
that `WriteOut`, `ReadIn` and `TakeOut` are external. **Channel** is the promise:
what goes in comes out, in order and once.

**AdaptedStreams** puts liblzma and libzstd in the place of the pass-through codec, with the
adapters of `xz.c` and `zstd.c` around them. The libraries are external: `Run`, `GivesOut` and
`Decode` say only that they go on until the input is used up or the output is full, that they may hold
back what they like, what liblzma then returns, and what it refuses: until an `LZMA_FULL_FLUSH` is complete it
takes neither `LZMA_RUN` nor `LZMA_FINISH` (`Busy`; `flushing` remembers it), where libzstd takes any. The callers go by the 0 that
`cstream_compress_end` and `dstream_decompress` return: a stream of xz is good for one
frame, so that a 0 that comes too early or not at all loses data. What the other functions return is remembered
(`unflushed`, `erred`, `aborted`), and there are two senders. A `careful` one goes by it, as `compression.h` has it:
it flushes and ends when all its input was taken, repeats a flush until it is 0, and compresses only with room in its
output. The other calls compress, flush and end as it likes, which `EndsAreTrue` and `Delivered` allow for zstd
(`Acceptable`); with xz it may run into an error or an assertion, and what it has not compressed is then not
delivered. `place`, `open`, the
buffers and the file are as in Streams, and it refines the same Channel, whichever sender.

**RetryIO** has the four loops of `fileio.h`, one system call at a time (`ReadSome`,
`WriteSome`, `NothingMoved`, `Fail`, `Interrupt`, then `Leave`), and the Buf of
`fileio.c` and `buf.c`. The loops differ only in the system call and in who keeps the
position, so that `call` says which function runs. A byte of the file is its place
there, which makes a byte that is lost, repeated or misplaced visible.
The caller, who fills one Buf from a file and writes it to another, is external.
`base` and `intact` are ghosts: where in the file the bytes up to `pos` come from,
as long as no failed read or other use of the memory has spoiled that. **Reads** has what RetryIO finds
out about a read (`ReadsAllThereIs`), as the set of results that other modules use.

**DinoReader** has `read_dino` step by step (header, section table, 64-bit sizes, name
table), `load_indexes` section by section, and the lookup of an index by name.
`object` and `fsize` are the file: an object as `dino.h` describes it, cut off
anywhere; but the size that its header gives for the section table may be too large
or too small, and a 64-bit size may not be there. `Writable` has what a header can say of an object: sizes
that fit in its fields. `dino` is what the program has read of it. Each read has the results of
Reads; `LoadIndexData` sees an index as loaded in full, in half or not, and leaves what
is in it to Index. A section named by an offset stands for one named by the string there.

**Varint** has the loops of `varint.c`, a byte at a time, on the caller's buffer. A digit is a
number below `Base`, 128 in the code, and values are modulo `M`, 2^64. `EncodeByte` and
`DecodeByte` are the bodies of the two loops; the caller decodes what was encoded or
encodes what was decoded, as `test_misc.c` does. `exact` is a ghost: what the bytes stand
for if values had no width.

**Dinoinfo** has the three loops of `dinoinfo.c`: over the names (`PrintName`), over the sections
(`SkipSection`, `ShowIndex`) and over the keys of an index (`ShowKey`, and `ShowStray` past the last of
them). `off`, `i`, `k` and `hi` are the code's variables; `names` and `shown` are
what was printed. Nothing stops `k` at the last key: `ShowStray` prints a row for the memory after it as
`ShowKey` does for a key, which is at most one (`bsearchn.c:185`), or the program dies there, as it does at the first
place of an index without keys, which is NULL. It takes `KeyMatch` from IndexOps, whose arguments it computes
from digits as `dinotools.c` and `index_key_match` do. Objects are read in full: how they are read
is in DinoReader.

**Hasher** has the functions of `digest.c` as operators on a context: each is the set of what a call may
leave and return, since any call of OpenSSL may fail. **Mkdino** composes it with the loop of
`mkdino.c`: `ReadSig` and `ReadHdr` are the two calls of `headerReadRaw`, `Digest` is
the hashing, `CompressStart` to `CompressEnd` the compression, `Import` the rest of the
loop and the clean-up. Sizes are in words of four bytes, and a word is known by its RPM and
its place there. What is in a file is `rpms[i]`, with `fsize` as much of it as there is. Reads are those of
Reads. libzstd (`Take`, `GiveOut`), librpm and OpenSSL are external. `hashed` and
`lost` are ghosts: whether a result that the code ignores was a failure.

The MC modules give the constants their small values.

## The runs

Those that pass:

| Run | Instance | What it shows |
|---|---|---|
| `bsearch_loops` | all arrays of 4 items, sorted or not; all ranges and keys | the searches stay in range, return a match or the insertion point, and end |
| `prefix_search` | all arrays of 4 items and one cell after; prefixes of 1 and 3 keys | the range returned is exact, if the array has no duplicates, the prefix is shorter than the key and the next item does not match |
| `array` | up to 4 items of 2 values; blocks of at most 7; any failure | an array is a sequence; its fields are true of its block; a failed call changes nothing |
| `index` | 6 keys in 2 buckets, 2 values, up to 3 pairs; any failure | lookups and prefix matches of a complete index are exact; an add keeps pairs together and keys sorted; no search leaves the keys |
| `retry_io` | files of 0 to 3 bytes, Bufs of 1 and 3 bytes, 2 bytes of output; any sequence of calls | a read returns all there is or an error, a write all or an error; every byte goes to its place; a Buf holds a gapless piece of the file; calls end |
| `dino_reader` | all objects of up to 2 sections, with and without 64-bit sizes, with section tables of the right size, too large, too small, and smaller than their headers; cut off anywhere; any failure | an object that opens was read in full; sections are where they are in the file, up to the first with a 64-bit size; a size that is not in the table is not made up; a cut-off index is noticed; a lookup finds the first section of its name |
| `adapted_streams` | both algorithms, up to 2 frames of 0, 1 or 3 bytes, codecs that hold back up to 2 bytes; buffers of 1 to 3 bytes | end and decompress return 0 only for complete frames, no call of a careful sender fails, nor any of zstd, the data comes out as it went in, and all of it arrives |
| `varint` | digits of two bits, values of seven; every value, and every content of a buffer | decoding is exact or fails; encoding and decoding are inverse to each other; no value has two encodings; the table of lengths is right |
| `dinoinfo` | name tables of up to 7 bytes; indexes of up to 3 keys of four digits; every `-k` of up to four digits and some longer | all names and just them are listed; the rows printed begin with the digits, no key with them is left out, and nothing past the keys is printed but one place that was matched; it ends |
| `mkdino` | up to 2 RPMs with headers of 0 to 2 words, cut off anywhere; any failure; outputs that a frame fits in or not | no cut-off RPM is processed; a key is the digest of its own header; the output has one frame with both headers in full, unless `end` said otherwise |
| `streams` | up to 3 frames of 0, 1 or 4 bytes, with a header of 2; buffers of 2 and 3 bytes | the data comes out as it went in, the decoder is always in step with the frames, and all data arrives |

One is violated. It states what a header says and the code does not do; the finding in
`PROJECT.json` quotes the line:

| Run | Property | Line |
|---|---|---|
| `index_after_add` | every key of an index is found | `index.c:242` |

Other deviations are part of the models as they are, without a run of their own:

* `bsearchn.c:146`: a prefix as long as a key matches nothing, not even that key: `lokey` and
  `hikey` are the same then, and the search ends before it compares them. So `RangeIsExact` and
  `ShownIsMatching` are about shorter prefixes, and `dinoinfo -k` with a whole key shows nothing.
* `dinoinfo.c:219-229`: the loop over the keys may go past the last. `hi` of an index without keys is 2^32-1, so that
  `key2hex` gets the NULL that such an index has for its keys, where `dinoinfo.c:217` says "Show all keys"; and after "Show
  matching keys" (`dinoinfo.c:209`) a row is printed for the place after the last key, if the memory there begins with the
  digits (`bsearchn.c:185`). `ShowStray` does both, and `ShownIsMatching` says just which rows there may be.
* `dino_begin.c:45-46`: as many bytes are read of the table of 64-bit sizes as it has values: an eighth.
  The sizes after that are what `malloc` left there, and so are the offsets of all later sections.
  `SectionsInPlace` stops at the first of them.
* `funcs.c:182`: `end` of the pass-through codec is its `flush`, so that a stream that is used again, as
  `mkdino.c:310` does, writes no header for the second frame. With `Reuse = TRUE`, `NeverHeaderError` of
  Streams is violated.
* `bsearchn.c:185`: for an even `num` the scan upwards looks at the item after the
  range, and returns it if it matches. `ReadsNearRange` allows this one item, and
  `ExactRange` supposes that it does not match.
* `index.c:243`: if the second insertion of `index_add` fails, there is a key more
  than values, and every value after it belongs to another key. `AddKeepsPairs` is
  about an `index_add` of which both succeed.
* `funcs.c:123`: the hint counts the header as data, so that it may be 0, which
  `compression.h:108` has as the sign of a complete frame, in the middle of one.
* `fileio.h:55`: an error after part of the data was moved loses the count. With
  `read` the position of the file has moved and that of the Buf has not: the next
  `buf_fill` leaves a gap. `HoldsPieceOfFile` excepts just that (`intact`).
* `dino_begin.c:22`: an object without sections cannot be opened: nothing is
  allocated for it, which passes for a lack of memory.
* `dino_begin.c:37`: a section table smaller than its headers has a 64-bit table of almost `SecMod`
  bytes, which are read from what follows. `SectionsInPlace` says nothing of the sizes found there.
* `dino_begin.c:80`: an index that the 64-bit table does not have gives `DINO_SIZE64_INVALID`, which
  is added to every later offset, and the object is opened.
* `dino_begin.c:117-129`: `new_dino` without memory is dereferenced, and a Dino that cannot be
  read is not freed.
* `sectab.c:52`: the name of a section is read without a look at the size of the name table,
  and so is `DINO_NAME_NONE` (`dino.h:54-57`).
* `index.c:169`: `cnt` is not initialized, so that `load_indexes` may return any
  value; `dinoinfo.c:181` takes a negative one for a failure.
* `bsearchn.c:182-188`: duplicates of the lowest or the highest key with the
  prefix are not scanned. `ExactRange` allows just that.
* `array.c:33`: items larger than CHONKSIZE grow by `CHONKSIZE/isize`, 0, which
  is reported as success, and the next append writes past the block. The runs,
  and what they show, are for items up to CHONKSIZE; for the proofs this is the hypothesis
  `SmallItems` of the theorems that need it.
* `array.c:62`: an array over a caller's buffer has `allocated == ~0`, so that the
  first append writes past the buffer. The model marks it `suspect`.
* `array.c:75`: -1 of a failed read is compared as a `size_t` and passes for a
  complete one: `array_load` returns an array whose items were never written. The
  model marks it `suspect`.
* `array.c:53`, `index.c:72,74`: as there, -1 is compared as a `size_t`,
  so that the capacity asked for may not be there. (`BlockIsTrue` still
  holds: the fields say so.)
* `index.c:147`: the same for the fanout table; a half-read index is installed.
* `index.c:236`: `index_add` does not count the key in `idx->count`.
* `index.c:187`: an index without a fanout table, as `index_with_capacity(.., 0)`
  and `index_clear` leave it, dereferences NULL when it is searched, though
  `libdino.h:62-63` has the table as optional.
* `compression.c:75`: `cstream_compress1` declares `in->size` bytes, where
  `compression.h:99` has `in->size - in->pos`. The run has `Skips = {0}`; with
  `{0, 1}` `SizeOfNextFrame` is violated.
* `compression.c:73-79`: the same function returns the position in the output, where
  `compression.h:102` has what `cstream_compress_end` returns. No action uses it.
* `zstd.c:65,72,81,89`: error codes of libzstd are returned as they are, and only the
  last few would count as errors for `IS_COMPRESS_ERR`. No action has such an error.
* `xz.c:92-103`: after a flush that has returned 1, for want of room, the next compress or end is an error of xz
  (`COMPRESS_ERR_UNK`), and since compress leaves what it was given in `avail_in`, a flush after that fails the
  assertion of `xz.c:85`. With zstd all of these calls go on. Neither
  `compression.h:148-159` nor the generic functions say so; `EndsAreTrue` and `Delivered` are violated without `Acceptable`.
* `xz.c:73-76`: a compress that finds the output full may return `COMPRESS_ERR_UNK`, though nothing is
  wrong; the careful sender of AdaptedStreams makes room first.
* `xz.c:179`: a call of the decoder that finds no room or no input may return
  `COMPRESS_ERR_UNK`, though nothing is wrong; the receiver of AdaptedStreams goes on.
* `mkdino.c:310-319`: no result of the stream is looked at, nor whether all of the input was compressed, as the
  senders of Streams and AdaptedStreams do; in `xz_end` that would fail the assertion. If the frame does not fit in `outbuf`, its
  end goes into the frame of the next RPM. `FrameIsOfRpm` excepts just that (`lost`).
* `mkdino.c:298-301`: no result of the hasher is looked at: a digest may be that of the RPM
  before. `KeyIsOfHeader` excepts just that (`hashed`).
* `mkdino.c:196`: of an intro of which only a part could be read, `il` and `dl` are from the stack; with sizes
  that happen to be 0 a file that ends there has an empty header. `EndsInIntro` excepts it.
* `mkdino.c:204-210`: the sizes of a header are added as `unsigned int` and may wrap around. The model
  has no such sizes.
* `mkdino.c:287,300,305`: a header that could not be read is NULL, and is dereferenced.
* `mkdino.c:267`: `hexdigest` is one byte too short for the 0 that `key2hex` writes after the digits.
* `mkdino.c:271`: the stream is dereferenced before it is tested, and the hasher is never tested.
* `mkdino.c:336`: the comment has the compressed size as `outbuf->size`, though it is `outbuf->pos`.
* `dinoinfo.c:208`: `args.keystr` is not initialized: without `-k` it may be anything on the stack
  (`ShowIndex`).
* `dinoinfo.c:176`: the offset of the next name is a `uint16_t`. If a name table of 65535 bytes ends without
  a 0 and a 0 follows it, the loop starts again and never ends. `Finishes` excepts it (`CanWrap`).
* `dinoinfo.c:214`: one digit is less than a byte: all keys of the one bucket that it is padded to are shown
  (`CanMatch`).
* `dinoinfo.c:213`, `bsearchn.c:135`: more digits than a key has are copied past `lokey` and `hikey`.
* `dinoinfo.c:200`: the section that `othersec` names is used whether there is one or not.
* `dinoinfo.c:203`: `hexkey` is used without a look whether there was memory for it.
* `dinoinfo.c:223`: the value is printed as a `Dino_Idx_Val32` of whatever format it is.
* `dinoinfo.c:123-130`: `-K` is handled as `-k` is.
* `dinotools.h:20-21`: the limit of the lookup in a table of names is one entry more than it has.
* `dinorpm.c:121-124`: indexes are looked up by name and never loaded, so that none is found.
* `index.c:53`: `index_free` of an index with one array dereferences NULL.

### Bounds, and why they are enough

Four items are the fewest for which both halves of a window have more than one
item, and for which a window of even and of odd length follow each other. Array
blocks go through all three growth rules: the first block is of 4 items, blocks
of 1 and 2 (from `array_realloc`) are doubled, and one of 4 grows by a chonk of
3; 7 items are as much as `malloc` can give, so that growing also fails for want
of memory. An index has two buckets, so that one starts at 0 and the other does
not, and any of them may be empty, and three keys to a bucket, so that a prefix
may match some or all of a bucket. Unbounded counters are bounded by `MaxCount`,
`MaxAlloc` and `AllocCounts`, in the guards of the actions that name them. Three
frames are the fewest for which one lies between two others; frames are empty,
smaller and larger than the buffers; and the receiver's buffer holds a header and
one byte, so that a piece may end in a header, at its end or behind it, or hold the
end of a frame with the start of the next. The number and size of frames bound
everything else in Streams. In AdaptedStreams a frame is larger than the output buffer of the receiver
and than what the codec holds back, a piece may hold the end of one frame and the start of the
next, and the second frame shows whether the first left anything behind. The codec may hold as much as an
empty output has room for, so that a flush or an end may take more than one call. A file of three bytes and a Buf of as many can be moved in one, two or three pieces, with the end of the
file before, at and after the end of what was asked for; a Buf of one byte is
full after one piece, and shrinking to it cuts off what was filled in. Two sections are enough for one to
follow another: the offset of the second is the first running sum that depends on a section, and the two may
have the same name. In DinoReader the sizes of headers and tables are 1 to 4 instead of 16, 8 or
1024, so that `fsize` can be each place in each of them; a table may claim 1 byte more than it has, 8 less
(a 64-bit size is missing) or 16 less (there are less than none).

In Varint, digits have two bits and values seven; like 7 and 64 in the code, so that the first digit of
the longest varint has only one bit, and values overflow in the addition and in the shift. The buffer has a byte more than the longest varint. In
Dinoinfo, a hex digit has two values and a key two bytes, so that a prefix may have none, half a byte, a
byte, one and a half, a whole key, and more; `OffMod` is 8, so that the longest name table is 7 bytes and its
offsets wrap, and with `LenMod` 4 so does the length of a key string. An index has up to three keys:
none, some or all of them in a bucket. In Mkdino the two RPMs are the fewest for which something of the
one may be left for the other, a signature header is padded or not, and an output of 6, 8 or
12 words holds less than a frame, a frame exactly, or more.

### Fairness

The two search specifications assume `WF_vars(Next)`: the loops are
sequential code that nothing can stop between two iterations. Streams assumes
`WF_vars(Sender)` and `WF_vars(Receiver)`: each caller goes on while there is
something it can do, and which of its calls comes next is left open. AdaptedStreams assumes the same of its sender, which includes that a flush that is not complete is repeated; its receiver does each
of read, decompress and use in turn, since a call that moves nothing may change what is returned. RetryIO assumes `WF_vars(Progress)`: a call
that does not fail is not interrupted for ever, since a signal that is handled does not come back at
once each time; nothing is assumed of errors, nor of a caller. Dinoinfo assumes weak fairness of its `DinoinfoNext`, as the searches do of theirs: it is one loop after the other. Array, DinoReader, Index, Varint and Mkdino
have no fairness: their caller may stop at any time, and what Varint and Mkdino promise is about what they have done.

Deadlock is checked for `array`, `retry_io`, `dino_reader`, and for `streams`, where `Done` is the only way to stop. The searches, varints and tools stop when they return, and a
program that dereferences NULL, or whose assertion fails (`adapted_streams`), stops, which is why the other runs do not check it.

## The proofs

| Module | Proved, for every value of the constants |
|---|---|
| Searching_proofs, PrefixSearch_proofs | all safety properties of the runs `bsearch_loops` and `prefix_search`, with the agreement of loops and operators; in the first also those of the run `dinoinfo` |
| Bsearchn_proofs | the recursive operators are exact, for windows of any size |
| ArrayOps_proofs, Array_proofs | all properties of the run `array`, with the refinement of SeqArray |
| Index_proofs | all properties of the run `index`, with the refinement of Dictionary |
| Bytes_proofs | all safety properties of the runs `retry_io`, `varint` and `streams`, with the refinement of Channel |
| Reading_proofs | all properties of the runs `dino_reader` and `mkdino`, and all safety properties of the run `adapted_streams`, with the refinement of Channel |

The modules about a specification have an invariant (`Inv` in most) that is inductive, which
the properties are not: it adds what is true in the middle of a loop, or what a property takes for
granted. A lemma says of each action that it keeps the invariant; the theorems follow
from it. The assumptions are those that the modules make about their constants,
which TLC evaluates in a run, and the hypotheses that a theorem states.

`Searching_proofs` is about BsearchLoop and Dinoinfo. *BsearchLoop*: for every `Count`, every
set of items, sorted or not, and every range, each safety invariant holds in every state.

    Inv == TypeOK /\ WindowInRange /\ CutOffSafely /\ ResultOK

`CutOffSafely` is needed because what a search returns says something of items it
never looked at: in a sorted range, all of what was cut off on the left is
smaller than the key and all of it on the right is greater. `WindowInRange` is needed so
that the midpoint is an item of the range, and `ResultOK` says what the return
value is once the loop is left. Lemma `Midpoint` has the only arithmetic: the
midpoint is in the window, and the two parts left and right of it are the window
without it. From `Inv`, the result properties follow when the window is empty.
Assumptions: `Count` is a natural number and items are integers.

*Dinoinfo*: objects with any number of sections, tables and indexes of any size, keys of any
number of bytes, and any digits after `-k`.

    DinoinfoInv == DinoinfoTypeOK /\ NamesProgress /\ IndexProgress(s) of every index s /\ ...

`NamesProgress` says that the names that start before `off` are listed, and that a name starts at `off`
(`NamesUpTo`). That is true as well after the one table whose offsets wrap around (`CanWrap`): the
offset is 0 again and so says less, and the same names are listed once more. `IndexProgress` says that what
was printed of an index are the rows from the first place that was asked for to before `k`, and that each is
for a key or, if there are digits to match, for the place after the last one (`CanShow`); of the indexes before
`i` to the end, of those after it none. What was asked
for (`Asked`) is what the search returns, and lemma `AskedIsWanted` says that what is there begins with
the digits and that all keys with them are there. It has three parts. `LeadingRecurs` and `PaddedRecurs` describe the first bytes of a key and
the key that `bsearchpkr` pads by the same recursion, two digits to a byte, so that they are equal when the
digits are (`LeadingAgrees`). `WithinPrefix` has from this that the keys between the one padded with zeros
and the one padded with the greatest byte are those that begin with the digits. `Bucket` says that a key with the first byte of the
digits is where the fanout table sends the search; a key that begins with the digits has that byte, since
there is one whole byte at least (`CanMatch`), and `PkrIsExact` does the rest.
Assumptions: a byte is two digits and there is more than one digit, a key has a byte at least and fewer than
its size can say, and the objects are those of `ObjectAssumption`: the keys of an index are in order.

`PrefixSearch_proofs`: the same for `bsearchpkr_cmp`, whose result is a range.

    Inv == TypeOK /\ Window /\ CutsOffSafely /\ Found

`Found` is about the two scans, which start where the bisection met a matching item:
they have passed matching items only, and where the one downwards has stopped, the
item below does not match. Lemma `Between` says that in a sorted array what lies
between two matching items matches; with `NothingBelow`, `NothingAbove` and
`NothingMatches`, it gives `RangeIsExact`.
`ReadsNearRange` needs `Window` alone and holds of unsorted arrays too. It is as
strong as it can be: the scan upwards does look at one item past its
range, and one past the array if the range ends there.
Assumptions: as above, and a prefix is a natural number whose width is positive.

Both also prove that the loops return what the operators of Bsearchn compute. The
invariant is `Agrees`: the operator on the window that is left gives what it gives on
the whole range. It holds since one iteration is one unfolding of the recursion.

`Bsearchn_proofs`: what the recursive operators compute. The induction theorems of
the library take an operator as a parameter, which none of the provers can instantiate; so lemma
`Induction` is about a set of numbers, and its proof is a pigeonhole argument:
adding one would map the numbers up to the first gap one to one to fewer of them. `Recursion` says
that there is a function as the recursive definitions describe it. `BisectIsExact`,
`IrIsExact` and `PkrIsExact` then go by induction over the size of the window; nothing is assumed
of what is outside of it. The first two hold of arrays that are not sorted as well, for what does not depend on
order: the result is a place in the window, or its complement. The module also has what Index and Dinoinfo
need of division (`Division` to `QuotientOrder`) and of counting the keys by their first byte (`FirstPlaces`, `CountsSplit`).

`ArrayOps_proofs` has a lemma for each function of `array.c` about everything it may leave, and
`Array_proofs` the invariant over any sequence of them:

    Inv == Honest(a) /\ call \in Abstract!Calls \cup {"none"} /\ ret \in Int

`Honest` says that the fields of an array that is not suspect are true of its block: as
many cells as `allocated` says, `count` of them written, no write past the end. It also has
that the block is no larger than what `malloc` can give, which is what keeps the sizes in
`array_grow` from wrapping around, and that an item is no larger than a chonk. That is the
hypothesis `SmallItems`: a larger item makes `CHONKSIZE/isize` 0, and a full array does not grow. A suspect array is
excepted by its flag and not by a choice of calls: the lemmas have it in every call. For the refinement each call is
shown to be one of the steps of SeqArray, or to leave the items as they were if it failed;
`NoneIsEmpty` is added, since the sequence of an array that is not there is empty.

`Index_proofs` has three invariants, one on top of the other:

    Shape(idx)   the fanout table, if there is one, is ordered and counts no more keys than there are
    Trusted      Shape, and of an index that was read: its arrays are honest, as long as each other, with
                 keys that are in order (Whole); until a key is added, the table splits them by first byte (Splits)
    Types        the types of all fields, and that there is room in the arrays for what they hold (Typed)

`Shape` needs no hypothesis at all: that a search is never sent past the last key holds
for items of any size, after any failure, since no call leaves fewer keys than
there were without dropping the table. `Trusted` is what makes lookups exact: `Splits` narrows a key to the range
of its first byte, and `IrIsExact` and `PkrIsExact` do the rest. After an `index_add` only
`Whole` is left, which is why `KeysStaySorted` is proved of both and `SearchesAreExact` of
the first. `Types` is about all states, those of failed and half-read indexes included, whose arrays may be suspect:
it rests on `Sound`, the part of `Honest` that holds of these as well, and `AddKeepsPairs` follows
from it. For the refinement, a step of Index is shown to be a `Load`, `Put` or `Forget` of Dictionary, or
to change no pair. Hypotheses: `SmallItems`, for keys and values, and for lookups that
no value is at the address NULL.

`Bytes_proofs` is about RetryIO, Varint and Streams. A module of proofs extends all it is about, so
their definitions have different names: those of Varint, Streams, AdaptedStreams, Mkdino and Dinoinfo carry a name
of their own (`VarintSpec`, `StreamsSpec`, `AdaptedSpec`, `RpmTypes`, `DinoinfoSpec`), where others have `Spec`.

*RetryIO*: files, Bufs and requests of any size, and whatever part of a request the kernel moves at a time.

    Inv == Types /\ InCall /\ Gapless /\ ReadsAllThereIs /\ WritesAll /\ EveryByteInPlace

`InCall` ties the position of the descriptor to what the running call has moved so
far, and `EveryByteInPlace` is about calls that still run as well as about those
that have returned: with only the latter it would not be inductive. `MovesAll` is split by
the direction of the data in `ReadsAllThereIs` and `WritesAll`. `BufIsGapless` is about a Buf
as long as no call failed with part of its data read, as is the property it
proves; after a failure its position says nothing of the data.

*Varint*: digits and values of any width.

    VarintInv == DecodesExactly /\ Widths

Lemma `Overflow` justifies the test before each shift of `varint.c:31`: the next
digit has no room in a value exactly when the test says so (`NoOverflow` is the other
direction). `EncoderShrinks` and `DecoderGrows` say that a loop never handles more than
`VARINT_MAXLEN` bytes. For `RoundTrips` the invariant also has a function, `Spelt`: what the first digits of
a varint stand for, each carrying 1 more than its digit. The encoder, which
goes from the last digit to the first, and the decoder, which goes the other way, meet in it:
what is left to encode and the digits made so far spell the value that was given (`Rounds`), and the decoder's value
is what the digits it has read spell. `OneDigit` and `Undone` say that a step of the one is undone by
a step of the other. Assumptions: a byte has
at least one value bit, the number of values is a multiple of what a digit can be, the table
`VARINT_MAXVAL_*` is the one of `varint.h:20-38`, and every value fits into `VARINT_MAXLEN` bytes.

*Streams*: frames of any number and sizes, buffers of any sizes that hold a header, pieces of any size.

    StreamsInv == StreamTypes /\ Encoding /\ Decoding /\ NeverHeaderError

`transit` is all that is on its way: what is in the decoder's input, the file and the encoder's output. `Segment`
gives each of its bytes a place in the one long sequence of frames that the sender writes, where
frame `f` begins at `FrameAt(f)`: at that place is a byte of a header of this frame, or its data. `Encoding` says which part of
the frame is still in the encoder's input, and that its counts are true, so that whatever it writes next
continues that sequence (`GoesOn`). `Decoding` says that the decoder is at the beginning of a frame or in it,
and that its place, the bytes in transit and the place of the encoder add up. From a beginning it reads
a header; in a frame of known size it takes no byte of the next (`Gets`), and only the last frame may be of unknown size. What
was decompressed is then `UpTo` a place, what was read `UpTo` a later one, and the former is a prefix of the latter:
this is the refinement of Channel, where each step is a `Send`, a `Receive` or neither. Two hypotheses are on the
constants that choose what the run does too: `~Reuse`, since a stream that is used for a second frame
writes no header for it, and `Skips \subseteq {0}`, since `cstream_compress1` declares the bytes before `pos` as well; see the deviations
above. An assumption is that no frame is as large as the counters of a context (`StreamsAssumption`).

`Reading_proofs` is about DinoReader, Mkdino and AdaptedStreams. *DinoReader*: objects with any number of sections
of any size, cut off anywhere, with section tables of the right size and of wrong ones.

    Inv == Types /\ HeadersRead /\ SectionsRead /\ CutOffIsNoticed /\ IndexesLoaded /\ LookedUp

`HeadersRead` says what has been read of the headers after each step, which is why an object that opens
was read in full: each step is left only with what the file has of its header. `SectionsRead` is `SectionsInPlace`
for the sections as `read_sectab` has left them. It rests on two inductions over
the sections: `Start`, where a section is, and `Offset`, the running sum that the program keeps modulo
2^64, are the same up to the first section whose size the program does not get, and for that no sum may
wrap (`WidthAssumption`: a size has 32 bits and an object 255 sections). `IndexesLoaded` is about the sections on
both sides of the one that `load_indexes` is at, and `LookedUp` has the answer
of the last lookup in terms of the sections as they are now. `FindsWhatIsThere` also needs that the 255 sections leave no room for the index that -1
becomes in a `uint8_t` (lemma `IndexByte`).

*Mkdino*: any number of RPMs with headers of any size, cut off anywhere.

    RpmInv == RpmTypes /\ what holds at each step of the loop

The digest is that of the RPM's own header because `hasher_start` forgets what was hashed before, whatever failed;
the frame is whole because what the stream still holds (`held`) and what is in the output (`out`)
are together the frame so far, as long as nothing was lost (`FrameSoFar`, `Taken`). That a header which
is read from the wrong place or in part is refused rests on `fd` being where the second header starts, or
at the end of a file that is too short for it.

*AdaptedStreams*: frames of any number and sizes, buffers of any sizes, codecs that hold back any amount.

    AdaptedInv == AdaptedTypes /\ Encoding /\ Decoding /\ ZeroMeansComplete

As in Streams, every byte on its way has its place in the one sequence of frames, each its data and its end
(`StartOf`, `Belongs`); here it may be in five places, since the encoder holds some (`InTransit`). `Encoding` says which part of a
frame was given to the encoder and that between two frames it holds nothing: that is what the 0 of `end`
must mean for the next frame to begin where this one ends. In it, `Callable` says why a careful sender is never refused: it
knows from what it was told whether the encoder is still flushing (`flushing => unflushed`) and that it has left no input
behind (`avail_in = 0`). A sender that is refused, or aborts, changes nothing else (`OnlyNoted`). `Decoding` says that what was decompressed, with
what the decoder still holds, is the data up to some place of a frame, and that what is in transit goes on from what it
has read. No header tells the decoder how long a frame is, so that the proof rests on `DecodeFollows`: a call
reads no byte after the end of its frame and gives out nothing but its data, whatever it holds back. `ZeroAtEnd` says
that the hint is 0 just at the end of a stream, for which a read that got something is needed (`piece > 0`). The next
decoder, a new one for xz and the same for zstd, then begins at the next frame. For the refinement,
what is received is a prefix of what was sent because one is up to an earlier place than the other (`BeforeExtends`). There are no hypotheses
besides `AdaptedStreamsAssumption`.

Only model-checked:

- what must eventually happen (`Terminates`, `Returns`, `Finishes`, `Delivered`): liveness
  is out of the prover's reach, and so is ENABLED;
- that some key is missed after an `index_add` (`EveryKeyIsFound`): a counterexample is enough.

The modules have no RECURSIVE operators, which the prover does not support: recursion is
written as recursive functions or with folds.

## Not modelled

- `dinorpm.c`: it parses arguments, calls librpm and prints. Its two lookups in an object are
  `get_index_byname` (in DinoReader) and `index_key_match` (in Index).
- What tools print and how they parse arguments, beyond the options that
  decide which keys and names `dinoinfo` lists.
- `hasher_getdigest`, `hasher_verify`, `hasher_oneshot` and the table of digests;
  `compress_id` and `compress_name`; `key2hex_a`: lookups in tables and wrappers without state.
- What liblzma, libzstd, OpenSSL and librpm compute. They are modelled by what the
  code relies on, and marked external in `PROJECT.json`.
- Slices and read-only buffers of `buf.c`, which nothing in the library uses.
- Names that begin outside the name table (`sectab.c:52`) and item counts of 64 bits in the
  reader: what is read there is whatever memory holds.
- Allocations whose failure the code does not look at (`new_dino`, `create_ctx`,
  `bsearchpkr_cmp`): the program ends there.
- Tests and build files: read as documentation of what the code promises.

## The plan

Done: all components above but `dinorpm`; proofs of all safety properties that the passing runs check. Next:
names outside the name table, and the composition of DinoReader with Index on objects that are not well-formed.
