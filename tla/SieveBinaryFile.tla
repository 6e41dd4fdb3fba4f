---------------------------- MODULE SieveBinaryFile ---------------------------
(***************************************************************************)
(* The form in which compiled code is stored: integers, strings, offsets   *)
(* and extension codes in a block; blocks, their index and the list of     *)
(* extensions in a file; and what the include and ihave extensions put     *)
(* there to notice that the binary is out of date.                         *)
(*                                                                         *)
(* Sources: sieve-binary-code.c, sieve-binary-file.c, sieve-binary.c,      *)
(* ext-include-binary.c, ext-include-variables.c, ext-ihave-binary.c and   *)
(* the meta data of sieve-script.c and sieve-file-script.c.                *)
(*                                                                         *)
(* A byte has ByteBits bits and a number NumberSize bytes (8 and 8 in the  *)
(* code); addresses count from 0 as in the code.                           *)
(***************************************************************************)
EXTENDS Integers, Sequences

CONSTANTS ByteBits,        \* bits of a byte
          NumberSize,      \* sizeof(sieve_number_t)
          MaxIncludes,     \* sieve_include_max_includes
          MaxGlobals       \* sieve_variables_max_scope_count

GroupSize == 2 ^ (ByteBits - 1)
WordSize  == 4

(***************************************************************************)
(* Writing to a block                                                      *)
(***************************************************************************)
RECURSIVE Base(_, _)
Base(n, size) == IF size = 0 THEN <<>> ELSE Append(Base(n \div 2 ^ ByteBits, size - 1), n % 2 ^ ByteBits)
Uint32(n) == Base(n, WordSize)
RECURSIVE Groups(_)
Groups(n) == IF n < GroupSize THEN <<n>>
             ELSE LET g == Groups(n \div GroupSize)
                  IN Append([i \in DOMAIN g |-> IF g[i] < GroupSize THEN g[i] + GroupSize ELSE g[i]], n % GroupSize)

sieve_binary_emit_byte(b, n)    == Append(b, n)
sieve_binary_emit_offset(b, n)  == b \o Uint32(n)
sieve_binary_resolve_offset(b, at) == SubSeq(b, 1, at) \o Uint32(Len(b) - at) \o SubSeq(b, at + WordSize + 1, Len(b))
sieve_binary_emit_integer(b, n) == b \o Groups(n)
sieve_binary_emit_string(b, s)  == Append(sieve_binary_emit_integer(b, Len(s)) \o s, 0)
\* The buffer of sieve_binary_emit_integer; a number that needs more is written outside of it.
FitsBuffer(n) == Len(Groups(n)) <= NumberSize + 1

(***************************************************************************)
(* Reading.  A block is [data, after]: `after' is the byte that happens to *)
(* be in memory behind it.  The result is [ok, at, val].                   *)
(***************************************************************************)
ByteAt(blk, a) == IF a < Len(blk.data) THEN blk.data[a + 1] ELSE blk.after
BytesLeft(blk, a) == IF a > Len(blk.data) THEN 0 ELSE Len(blk.data) - a
NotRead(a)   == [ok |-> FALSE, at |-> a, val |-> 0]
Got(a, v)    == [ok |-> TRUE, at |-> a, val |-> v]

sieve_binary_read_byte(blk, a) == IF BytesLeft(blk, a) >= 1 THEN Got(a + 1, ByteAt(blk, a)) ELSE NotRead(a)
RECURSIVE ValueOfBytes(_)
ValueOfBytes(s) == IF s = <<>> THEN 0 ELSE ValueOfBytes(SubSeq(s, 1, Len(s) - 1)) * 2 ^ ByteBits + s[Len(s)]
sieve_binary_read_offset(blk, a) ==
  IF BytesLeft(blk, a) >= WordSize THEN Got(a + WordSize, ValueOfBytes(SubSeq(blk.data, a + 1, a + WordSize))) ELSE NotRead(a)

RECURSIVE ReadGroups(_, _, _, _)
ReadGroups(blk, a, bits, n) ==
  IF ByteAt(blk, a) < GroupSize THEN Got(a + 1, n + ByteAt(blk, a))
  ELSE IF BytesLeft(blk, a) > 0 /\ bits > 0
       THEN ReadGroups(blk, a + 1, bits - (ByteBits - 1), ((n + (ByteAt(blk, a) % GroupSize)) * GroupSize) % 2 ^ (NumberSize * ByteBits))
       ELSE NotRead(a)
sieve_binary_read_integer(blk, a) ==
  IF BytesLeft(blk, a) = 0 THEN NotRead(a) ELSE ReadGroups(blk, a, NumberSize * ByteBits, 0)

sieve_binary_read_string(blk, a) ==
  LET n == sieve_binary_read_integer(blk, a)
  IN IF ~n.ok \/ n.val > BytesLeft(blk, n.at) \/ ByteAt(blk, n.at + n.val) # 0 THEN NotRead(a)
     ELSE Got(n.at + n.val + 1, SubSeq(blk.data, n.at + 1, n.at + n.val))

\* A list of items [t, v] and the reading of it, item by item
Emit(b, it) == CASE it.t = "byte" -> sieve_binary_emit_byte(b, it.v) [] it.t = "offset" -> sieve_binary_emit_offset(b, it.v)
                 [] it.t = "integer" -> sieve_binary_emit_integer(b, it.v) [] it.t = "string" -> sieve_binary_emit_string(b, it.v)
ReadItem(blk, a, t) == CASE t = "byte" -> sieve_binary_read_byte(blk, a) [] t = "offset" -> sieve_binary_read_offset(blk, a)
                         [] t = "integer" -> sieve_binary_read_integer(blk, a) [] t = "string" -> sieve_binary_read_string(blk, a)
RECURSIVE EmitAll(_, _), ReadAll(_, _, _)
EmitAll(b, items) == IF items = <<>> THEN b ELSE EmitAll(Emit(b, Head(items)), Tail(items))
ReadAll(blk, a, types) ==
  IF types = <<>> THEN Got(a, <<>>)
  ELSE LET r == ReadItem(blk, a, Head(types))
       IN IF ~r.ok THEN NotRead(a)
          ELSE LET m == ReadAll(blk, r.at, Tail(types)) IN IF m.ok THEN Got(m.at, <<r.val>> \o m.val) ELSE m

(***************************************************************************)
(* The binary.  [blocks, regs]: a block is [data, loaded, offset], a       *)
(* registration [ext, block]; an extension's code is its place in regs.    *)
(***************************************************************************)
SCRIPT_DATA  == 0
EXTENSIONS   == 1
MAIN_PROGRAM == 2
SYSBLOCK_LAST == 3
NewBlock(d)  == [data |-> d, loaded |-> TRUE, offset |-> 0]
Binary(script) == [blocks |-> <<NewBlock(script), NewBlock(<<>>), NewBlock(<<>>)>>, regs |-> <<>>]
sieve_binary_block_create(b, d) == [b EXCEPT !.blocks = Append(@, NewBlock(d))]
Registered(b, ext) == {i \in DOMAIN b.regs : b.regs[i].ext = ext}
sieve_binary_extension_register(b, ext) ==
  IF Registered(b, ext) # {} THEN b ELSE [b EXCEPT !.regs = Append(@, [ext |-> ext, block |-> 0])]
sieve_binary_extension_create_block(b, ext, d) ==
  [sieve_binary_block_create(b, d) EXCEPT
     !.regs = [i \in DOMAIN @ |-> IF @[i].ext = ext /\ @[i].block < SYSBLOCK_LAST THEN [@[i] EXCEPT !.block = Len(b.blocks)] ELSE @[i]]]
IndexIn(b, ext) == (CHOOSE i \in DOMAIN b.regs : b.regs[i].ext = ext) - 1
sieve_binary_emit_extension(b, id, ext) ==
  LET r == sieve_binary_extension_register(b, ext)
  IN [r EXCEPT !.blocks[id + 1].data = Append(@, IndexIn(r, ext))]
sieve_binary_extension_get_by_index(b, i) == IF i < Len(b.regs) THEN b.regs[i + 1].ext ELSE 0

(***************************************************************************)
(* Saving                                                                  *)
(***************************************************************************)
Align(n) == ((n + 3) \div 4) * 4
Magic      == 7
Version    == 3
HeaderSize == 7 * WordSize            \* magic, version, blocks, hdr_size, flags, resource usage and its time
BaseHeader == 5 * WordSize            \* SIEVE_BINARY_BASE_HEADER_SIZE
IndexSize  == 4 * WordSize
BlockHeaderSize == 2 * WordSize
RECURSIVE WordsOf(_)
WordsOf(s) == IF s = <<>> THEN <<>> ELSE Uint32(Head(s)) \o WordsOf(Tail(s))
Zeros(n) == [i \in 1..n |-> 0]
Aligned(f) == f \o Zeros(Align(Len(f)) - Len(f))

RECURSIVE ExtensionItems(_)
ExtensionItems(regs) ==
  IF regs = <<>> THEN <<>>
  ELSE <<[t |-> "string", v |-> <<Head(regs).ext>>], [t |-> "integer", v |-> 1], [t |-> "integer", v |-> Head(regs).block]>>
       \o ExtensionItems(Tail(regs))
ExtensionBlock(b) == EmitAll(<<>>, <<[t |-> "integer", v |-> Len(b.regs)]>> \o ExtensionItems(b.regs))

_save_block(f, id, data) == Aligned(Aligned(f) \o WordsOf(<<id, Len(data)>>)) \o data
RECURSIVE SaveBlocks(_, _, _, _)
SaveBlocks(f, blocks, id, index) ==        \* [file, index]
  IF id = Len(blocks) THEN [file |-> f, index |-> index]
  ELSE SaveBlocks(_save_block(f, id, blocks[id + 1].data), blocks, id + 1,
                  index \o WordsOf(<<id, Len(blocks[id + 1].data), Align(Len(f)), 0>>))
sieve_binary_save_to_stream(b) ==
  LET blocks == [b.blocks EXCEPT ![EXTENSIONS + 1].data = ExtensionBlock(b)]
      header == WordsOf(<<Magic, Version, Len(blocks), HeaderSize, 0, 0, 0>>)
      s      == SaveBlocks(header \o Zeros(IndexSize * Len(blocks)), blocks, 0, <<>>)
  IN header \o s.index \o SubSeq(s.file, Len(header) + Len(s.index) + 1, Len(s.file))

(***************************************************************************)
(* Loading.  The open file is [bytes, pos, offset]: the position of the    *)
(* descriptor and file->offset, where the code thinks it is.               *)
(***************************************************************************)
\* Mutant: the position is not set before a read.
FileReadNoSeek(f, offset, size) ==
  LET o == Align(offset)
      p == IF f.pos = 0 THEN o ELSE f.pos
  IN IF size = 0 \/ p + size <= Len(f.bytes)
     THEN [ok |-> TRUE, f |-> [f EXCEPT !.pos = p + size, !.offset = o + size], at |-> o + size, data |-> SubSeq(f.bytes, p + 1, p + size)]
     ELSE [ok |-> FALSE, f |-> [f EXCEPT !.pos = IF p > Len(f.bytes) THEN p ELSE Len(f.bytes)], at |-> o, data |-> <<>>]
sieve_binary_file_read(f, offset, size) ==
  LET o == Align(offset)
      p == IF o # f.offset THEN o ELSE f.pos
  IN IF size = 0 \/ p + size <= Len(f.bytes)
     THEN [ok |-> TRUE, f |-> [f EXCEPT !.pos = p + size, !.offset = o + size], at |-> o + size, data |-> SubSeq(f.bytes, p + 1, p + size)]
     ELSE [ok |-> FALSE, f |-> [f EXCEPT !.pos = IF p > Len(f.bytes) THEN p ELSE Len(f.bytes)], at |-> o, data |-> <<>>]
WordAt(d, i) == ValueOfBytes(SubSeq(d, (i - 1) * WordSize + 1, i * WordSize))

sieve_binary_file_read_header(bytes) ==    \* the error, or ""
  CASE bytes = <<>> -> "NOT_VALID"
    [] bytes # <<>> /\ Len(bytes) < HeaderSize -> "TEMP_FAILURE"
    [] Len(bytes) >= HeaderSize ->
         IF WordAt(bytes, 1) # Magic \/ WordAt(bytes, 2) # Version \/ WordAt(bytes, 4) < BaseHeader \/ WordAt(bytes, 3) = 0
         THEN "NOT_VALID" ELSE ""

\* Result of loading: [ok, f, data]
sieve_binary_load_block(f, id, offset) ==
  LET h == sieve_binary_file_read(f, offset, BlockHeaderSize)
  IN IF ~h.ok \/ WordAt(h.data, 1) # id THEN [ok |-> FALSE, f |-> h.f, data |-> <<>>]
     ELSE LET d == sieve_binary_file_read(h.f, h.at, WordAt(h.data, 2)) IN [ok |-> d.ok, f |-> d.f, data |-> d.data]

RECURSIVE ReadIndex(_, _, _, _)
ReadIndex(f, at, n, blocks) ==
  IF Len(blocks) = n THEN [ok |-> TRUE, f |-> f, blocks |-> blocks]
  ELSE LET r == sieve_binary_file_read(f, at, IndexSize)
       IN IF ~r.ok \/ WordAt(r.data, 1) # Len(blocks) THEN [ok |-> FALSE, f |-> r.f, blocks |-> blocks]
          ELSE ReadIndex(r.f, r.at, n, Append(blocks, [data |-> <<>>, loaded |-> FALSE, offset |-> WordAt(r.data, 3)]))

\* sbin: [f, blocks, regs].  A block is fetched the first time it is asked for: [ok, b].
sieve_binary_block_get(b, id) ==
  IF id >= Len(b.blocks) THEN [ok |-> FALSE, b |-> b]
  ELSE IF b.blocks[id + 1].loaded THEN [ok |-> TRUE, b |-> b]
  ELSE LET l == sieve_binary_load_block(b.f, id, b.blocks[id + 1].offset)
       IN [ok |-> l.ok, b |-> IF l.ok THEN [b EXCEPT !.f = l.f, !.blocks[id + 1].data = l.data, !.blocks[id + 1].loaded = TRUE]
                                      ELSE [b EXCEPT !.f = l.f]]
InMemory(b, id) == [data |-> b.blocks[id + 1].data, after |-> 0]

\* versions: the extensions there are now, each with its version
RECURSIVE ReadExtensions(_, _, _, _)
ReadExtensions(b, at, n, versions) ==
  IF n = 0 THEN [ok |-> TRUE, b |-> b]
  ELSE LET blk == InMemory(b, EXTENSIONS)
           s == sieve_binary_read_string(blk, at)
           v == sieve_binary_read_integer(blk, s.at)
           i == sieve_binary_read_integer(blk, v.at)
       IN IF ~s.ok \/ Len(s.val) # 1 THEN [ok |-> FALSE, b |-> b]
          ELSE IF s.val[1] \notin DOMAIN versions \/ ~v.ok \/ ~i.ok THEN [ok |-> FALSE, b |-> b]
          ELSE IF versions[s.val[1]] # v.val THEN [ok |-> FALSE, b |-> b]
          ELSE ReadExtensions([b EXCEPT !.regs = Append(@, [ext |-> s.val[1], block |-> i.val])], i.at, n - 1, versions)

_sieve_binary_open(bytes, versions) ==
  LET none == [ok |-> FALSE, b |-> <<>>]
  IN IF sieve_binary_file_read_header(bytes) # "" THEN none
     ELSE LET x == ReadIndex([bytes |-> bytes, pos |-> 0, offset |-> 0], WordAt(bytes, 4), WordAt(bytes, 3), <<>>)
          IN IF ~x.ok THEN none
             ELSE LET e == sieve_binary_block_get([f |-> x.f, blocks |-> x.blocks, regs |-> <<>>], EXTENSIONS)
                  IN IF ~e.ok THEN none
                     ELSE LET n == sieve_binary_read_integer(InMemory(e.b, EXTENSIONS), 0)
                          IN IF n.ok THEN ReadExtensions(e.b, n.at, n.val, versions) ELSE none

(***************************************************************************)
(* The include extension's dependencies: [opt, was], by number; a script   *)
(* that was there when the binary was made has a block.  What has become   *)
(* of it: "same", "newer", "moved", "driver" (stored elsewhere), "missing" *)
(* or "error".                                                             *)
(***************************************************************************)
INCLUDE == 1
IHAVE   == 2
OTHER_EXT == 3
Driver(now) == IF now = "driver" THEN <<2>> ELSE <<1>>
PathOf(i, now) == IF now = "moved" THEN <<i, 1>> ELSE <<i>>
Location(i) == i % 2
LOCATION_INVALID == 2

sieve_script_binary_write_metadata(b, i) ==
  EmitAll(b, <<[t |-> "string", v |-> Driver("same")], [t |-> "integer", v |-> 1], [t |-> "string", v |-> <<1, 1>>],
               [t |-> "string", v |-> <<i>>], [t |-> "string", v |-> PathOf(i, "same")]>>)
\* [ret, at]: 1 up to date, 0 not, -1 invalid.  What differs ends the reading.
sieve_script_binary_read_metadata(blk, a, i, now) ==
  LET c == sieve_binary_read_string(blk, a)
      v == sieve_binary_read_integer(blk, c.at)
      s == sieve_binary_read_string(blk, v.at)
      n == sieve_binary_read_string(blk, s.at)
      p == sieve_binary_read_string(blk, n.at)
      is(ret, at) == [ret |-> ret, at |-> at]
  IN IF BytesLeft(blk, a) = 0 THEN is(0, a) ELSE
     IF ~c.ok THEN is(-1, a) ELSE IF c.val # Driver(now) THEN is(0, c.at) ELSE
     IF ~v.ok THEN is(-1, a) ELSE IF v.val # 1 THEN is(0, v.at) ELSE
     IF ~s.ok THEN is(-1, a) ELSE IF s.val # <<>> /\ s.val # <<1, 1>> THEN is(0, s.at) ELSE
     IF ~n.ok THEN is(-1, a) ELSE IF n.val # <<>> /\ n.val # <<i>> THEN is(0, n.at) ELSE
     IF ~p.ok THEN is(-1, a) ELSE IF p.val # PathOf(i, now) THEN is(0, p.at) ELSE
     is(IF now = "newer" THEN 0 ELSE 1, p.at)

RECURSIVE WriteDeps(_, _, _, _), WriteNames(_, _)
WriteDeps(b, deps, i, block) ==
  IF i > Len(deps) THEN b
  ELSE LET e == EmitAll(b, <<[t |-> "integer", v |-> IF deps[i].was THEN block ELSE 0], [t |-> "byte", v |-> Location(i)],
                             [t |-> "string", v |-> <<i>>], [t |-> "byte", v |-> IF deps[i].opt THEN 1 ELSE 0]>>)
       IN WriteDeps(IF deps[i].was THEN sieve_script_binary_write_metadata(e, i) ELSE e,
                    deps, i + 1, IF deps[i].was THEN block + 1 ELSE block)
WriteNames(b, vars) == EmitAll(b, [i \in DOMAIN vars |-> [t |-> "string", v |-> vars[i]]])
ext_include_variables_save(b, vars) ==
  LET c == sieve_binary_emit_integer(b, Len(vars))
  IN sieve_binary_resolve_offset(WriteNames(sieve_binary_emit_offset(c, 0), vars), Len(c))
\* block: the first of the blocks with included scripts
ext_include_binary_pre_save(deps, vars, block) ==
  ext_include_variables_save(WriteDeps(sieve_binary_emit_integer(<<>>, Len(deps)), deps, 1, block), vars)

ext_include_open_script(name, location, now) ==
  IF name \in {<<i>> : i \in DOMAIN now} /\ location = Location(name[1]) THEN now[name[1]] ELSE "missing"

\* [res, b, at, outdated, deps]: res is "ok", "refused", or "crash" where a NULL pointer is followed
RECURSIVE OpenDeps(_, _, _, _, _)
OpenDeps(o, block, n, now, blk) ==
  IF n = 0 THEN o
  ELSE LET d == ReadAll(blk, o.at, <<"integer", "byte", "string", "byte">>)
           refuse(b) == [o EXCEPT !.res = "refused", !.b = b]
       IN IF ~d.ok THEN refuse(o.b)
          ELSE LET id == d.val[1]
                   g  == IF id = 0 THEN [ok |-> TRUE, b |-> o.b] ELSE sieve_binary_block_get(o.b, id)
                   is == ext_include_open_script(d.val[3], d.val[2], now)
                   m  == IF id = 0 THEN [ret |-> 1, at |-> d.at]
                         ELSE sieve_script_binary_read_metadata(blk, d.at, d.val[3][1], is)
               IN IF ~g.ok \/ d.val[2] >= LOCATION_INVALID THEN refuse(g.b)
                  ELSE IF is = "error" \/ (is = "missing" /\ d.val[4] % 2 = 0) \/ (is # "missing" /\ id = 0) THEN refuse(g.b)
                  ELSE IF is = "missing" /\ id # 0 THEN [o EXCEPT !.res = "crash"]
                  ELSE IF m.ret < 0 THEN refuse(g.b)
                  ELSE OpenDeps([o EXCEPT !.b = g.b, !.at = m.at, !.outdated = @ \/ m.ret = 0,
                                          !.deps = Append(@, [name |-> d.val[3], opt |-> d.val[4] = 1, was |-> id # 0])],
                                block, n - 1, now, blk)
sieve_variable_scope_binary_read(blk, a) ==
  LET n == sieve_binary_read_integer(blk, a)
      e == sieve_binary_read_offset(blk, n.at)
  IN IF ~n.ok \/ n.val > MaxGlobals \/ ~e.ok THEN NotRead(a) ELSE Got(n.at + e.val, [count |-> n.val, at |-> e.at])
\* The names are read when they are first needed.
sieve_variable_scope_binary_get(blk, scope) == ReadAll(blk, scope.at, [i \in 1..scope.count |-> "string"])

BlockOf(b, ext) == LET r == Registered(b, ext) IN IF r = {} THEN 0 ELSE b.regs[CHOOSE i \in r : TRUE].block
ext_include_binary_open(b, now) ==
  LET id == BlockOf(b, INCLUDE)
      g  == sieve_binary_block_get(b, id)
      o  == [res |-> "ok", b |-> g.b, at |-> 0, outdated |-> FALSE, deps |-> <<>>, vars |-> <<>>]
      blk == InMemory(g.b, id)
      n  == sieve_binary_read_integer(blk, 0)
  IN IF id < SYSBLOCK_LAST \/ ~g.ok THEN [o EXCEPT !.res = "refused"]
     ELSE IF ~n.ok \/ n.val > MaxIncludes THEN [o EXCEPT !.res = "refused"]
     ELSE LET p == OpenDeps([o EXCEPT !.at = n.at], id, n.val, now, blk)
              v == sieve_variable_scope_binary_read(blk, p.at)
          IN IF p.res # "ok" THEN p
             ELSE IF ~v.ok THEN [p EXCEPT !.res = "refused"]
             ELSE [p EXCEPT !.at = v.at, !.vars = sieve_variable_scope_binary_get(blk, v.val).val]

(***************************************************************************)
(* The ihave extension's list of extensions that were missing              *)
(***************************************************************************)
ext_ihave_binary_pre_save(missing) ==
  EmitAll(<<>>, <<[t |-> "integer", v |-> Len(missing)]>> \o [i \in DOMAIN missing |-> [t |-> "string", v |-> <<missing[i]>>]])
ext_ihave_binary_open(b) ==        \* [ok, b, missing]
  LET id == BlockOf(b, IHAVE)
      g  == sieve_binary_block_get(b, id)
      n  == sieve_binary_read_integer(InMemory(g.b, id), 0)
      l  == ReadAll(InMemory(g.b, id), n.at, [i \in 1..n.val |-> "string"])
  IN IF id < SYSBLOCK_LAST \/ ~g.ok THEN [ok |-> TRUE, b |-> g.b, missing |-> <<>>]
     ELSE IF ~n.ok \/ ~l.ok THEN [ok |-> FALSE, b |-> g.b, missing |-> <<>>]
     ELSE [ok |-> TRUE, b |-> g.b, missing |-> l.val]
ext_ihave_binary_up_to_date(missing, versions) == \A i \in DOMAIN missing : missing[i][1] \notin DOMAIN versions

(***************************************************************************)
(* A script compiled to a binary, and the binary opened again.             *)
(* script: [exts, code, pad, deps, vars, missing]                          *)
(***************************************************************************)
Filler(n) == [i \in 1..n |-> (i + 4) % 2 ^ ByteBits]
RECURSIVE Linked(_, _, _)
Linked(b, s, exts) ==
  IF exts = <<>> THEN b
  ELSE LET e == sieve_binary_emit_extension(b, MAIN_PROGRAM, Head(exts))
           included == {i \in DOMAIN s.deps : s.deps[i].was}
           withDeps == sieve_binary_extension_create_block(e, INCLUDE, ext_include_binary_pre_save(s.deps, s.vars, Len(e.blocks) + 1))
           RECURSIVE WithBlocks(_, _)
           WithBlocks(x, n) == IF n = 0 THEN x ELSE WithBlocks(sieve_binary_block_create(x, Filler(n)), n - 1)
           count == Len(SelectSeq(s.deps, LAMBDA d : d.was))
       IN Linked(CASE Head(exts) = INCLUDE -> WithBlocks(withDeps, count)
                   [] Head(exts) = IHAVE /\ s.missing # <<>> ->
                        sieve_binary_extension_create_block(e, IHAVE, ext_ihave_binary_pre_save(s.missing))
                   [] OTHER -> e, s, Tail(exts))
Compiled(s) ==
  LET b == sieve_binary_block_create(Binary(Filler(s.pad)), Filler(s.pad + 1))
      c == Linked([b EXCEPT !.blocks[MAIN_PROGRAM + 1].data = sieve_binary_emit_integer(<<>>, Len(s.exts))], s, s.exts)
  IN [c EXCEPT !.blocks[MAIN_PROGRAM + 1].data = @ \o Filler(s.code)]

\* [res, b, outdated, deps, vars, missing]
sieve_binary_open(bytes, versions, now) ==
  LET o == _sieve_binary_open(bytes, versions)
      none == [res |-> "refused", b |-> <<>>, outdated |-> FALSE, deps |-> <<>>, vars |-> <<>>, missing |-> <<>>]
  IN IF ~o.ok THEN none
     ELSE LET i == IF Registered(o.b, INCLUDE) = {} THEN [res |-> "ok", b |-> o.b, at |-> 0, outdated |-> FALSE, deps |-> <<>>, vars |-> <<>>]
                   ELSE ext_include_binary_open(o.b, now)
              h == IF Registered(i.b, IHAVE) = {} THEN [ok |-> TRUE, b |-> i.b, missing |-> <<>>] ELSE ext_ihave_binary_open(i.b)
          IN IF i.res # "ok" THEN [none EXCEPT !.res = i.res]
             ELSE IF ~h.ok THEN none
             ELSE [res |-> "ok", b |-> h.b, deps |-> i.deps, vars |-> i.vars, missing |-> h.missing,
                   outdated |-> i.outdated \/ ~ext_ihave_binary_up_to_date(h.missing, versions)]
\* The codes at the start of the main program name these extensions.
CodesOf(b) ==
  LET blk == InMemory(b, MAIN_PROGRAM)
      n == sieve_binary_read_integer(blk, 0)
  IN [i \in 1..n.val |-> sieve_binary_extension_get_by_index(b, ByteAt(blk, n.at + i - 1))]
===============================================================================
