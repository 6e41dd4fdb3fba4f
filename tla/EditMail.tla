------------------------------ MODULE EditMail ------------------------------
(***************************************************************************)
(* The edited mail of util/edit-mail.c.  A header list that is added to    *)
(* lazily: as long as nothing has to be found in it, the headers of the    *)
(* original message stay in its stream, and only the fields put before and *)
(* after them are kept.  The first lookup parses the original and splices  *)
(* its fields in between.  Next to the list there is one index entry for   *)
(* each field name, with the number of its fields and pointers to the      *)
(* first and the last; and the sizes of the header, from which every       *)
(* offset of the stream is computed.                                       *)
(*                                                                         *)
(* A pointer to a field is its identity, 0 is NULL; a pointer to an index  *)
(* entry is its position in "index", where "gone" marks an entry that was  *)
(* freed.                                                                  *)
(***************************************************************************)
EXTENDS Integers, Sequences, SequencesExt

CONSTANT Source   \* the messages: header fields, length of the empty line
                  \* after them, the length guessed for it, length of the body

\* Bad headers, and Content-Length, whose existence is denied.
Denied(f) == f.name \in {"", "Content-Length"}

Total(fs) == FoldLeft(LAMBDA n, f : n + f.size, 0, fs)

WrappedHdr(em) == Total(Source[em.src].hdr) + Source[em.src].eoh

Position(em, id) ==
  IF \E p \in 1..Len(em.fields) : em.fields[p].id = id
  THEN CHOOSE p \in 1..Len(em.fields) : em.fields[p].id = id ELSE 0

\* A sequence with the entry at i replaced by Entry(i).
Indexed(seq, Entry(_)) == SubSeq([i \in 1..Len(seq) |-> Entry(i)], 1, Len(seq))

\* What comes of a wrap that works; astray and unread are told of the mail, not kept
\* in it: the names whose "first" was not set right, and whether a read failed.
edit_mail_wrap(s) ==
  [src |-> s, parent |-> 0, fields |-> <<>>, index |-> <<>>, appended |-> 0,
   parsed |-> FALSE, hsize |-> 0, asize |-> 0, eoh |-> Source[s].guess,
   modified |-> FALSE, snapmod |-> FALSE, panic |-> FALSE, astray |-> {}, unread |-> FALSE]

edit_mail_modify(em) == [em EXCEPT !.modified = TRUE, !.snapmod = TRUE]

edit_mail_header_find(em, n) ==
  LET is == {i \in 1..Len(em.index) : ~em.index[i].gone /\ em.index[i].name = n}
  IN IF is = {} THEN 0 ELSE CHOOSE i \in is : \A j \in is : i <= j

edit_mail_header_create(em, n) ==
  IF edit_mail_header_find(em, n) # 0 THEN em
  ELSE [em EXCEPT !.index = Append(@, [name |-> n, count |-> 0, first |-> 0,
                                       last |-> 0, gone |-> FALSE])]

(***************************************************************************)
(* A field is the one thing snapshots share; the list and the index are    *)
(* copied.  The copy starts with snapshot_modified unset.                  *)
(***************************************************************************)
edit_mail_snapshot(em, parent) ==
  LET Uses(i) == SelectSeq(em.fields, LAMBDA f : f.ix = i)
  IN [em EXCEPT !.snapmod = FALSE, !.parent = parent,
                !.index = Indexed(@, LAMBDA i :
                             [@[i] EXCEPT !.count = Len(Uses(i)),
                                          !.gone = Uses(i) = <<>>])]

edit_mail_header_field_create(em, n, v, size, id) ==
  [name |-> n, val |-> v, size |-> size, id |-> id,
   ix |-> edit_mail_header_find(em, n)]

edit_mail_header_add(em0, n, v, size, id, last) ==
  LET em == edit_mail_header_create(edit_mail_modify(em0), n)
      f == edit_mail_header_field_create(em, n, v, size, id)
      Or(p) == IF p = 0 THEN id ELSE p
      counted == [em EXCEPT !.index[f.ix].count = @ + 1, !.hsize = @ + size]
  IN IF last
     THEN [counted EXCEPT
             !.fields = Append(@, f),
             !.index[f.ix].last = id, !.index[f.ix].first = Or(@),
             !.appended = IF em.parsed THEN @ ELSE Or(@),
             !.asize = IF em.parsed THEN @ ELSE @ + size]
     ELSE [counted EXCEPT
             !.fields = <<f>> \o @,
             !.index[f.ix].first = id, !.index[f.ix].last = Or(@)]

(***************************************************************************)
(* Parsing: the original fields go before the appended ones, their names   *)
(* into the index.  "first" is filled in only where it is NULL.            *)
(***************************************************************************)
ParsedField(em, f) ==
  LET e == edit_mail_header_create(em, f.name)
      ix == edit_mail_header_find(e, f.name)
  IN [e EXCEPT !.index[ix].count = @ + 1, !.hsize = @ + f.size]

RebuiltFirst(em, i) ==
  LET own == SelectSeq(em.fields, LAMBDA f : f.ix = i)
  IN [em.index[i] EXCEPT !.first = IF @ = 0 /\ own # <<>> THEN own[1].id ELSE @,
                         !.last = IF own # <<>> THEN Last(own).id ELSE @]

edit_mail_headers_parse(em) ==
  LET orig == SelectSeq(Source[em.src].hdr, LAMBDA f : ~Denied(f))
      e == FoldLeft(ParsedField, em, orig)
      own == [k \in 1..Len(orig) |->
                edit_mail_header_field_create(e, orig[k].name, orig[k].val,
                                              orig[k].size, orig[k].id)]
      p == IF em.appended # 0 THEN Position(em, em.appended)
           ELSE Len(em.fields) + 1
      spliced == [e EXCEPT !.fields = SubSeq(@, 1, p - 1) \o own
                                      \o SubSeq(@, p, Len(@)),
                           !.appended = 0, !.asize = 0, !.parsed = TRUE,
                           !.eoh = Source[em.src].eoh]
  IN IF em.parsed THEN em
     ELSE [spliced EXCEPT !.index = Indexed(@, LAMBDA i : RebuiltFirst(spliced, i))]

\* A read error: the names met so far stay in the index, without fields.
ParseFails(em) ==
  FoldLeft(ParsedField, em,
           SelectSeq(Source[em.src].hdr, LAMBDA f : ~Denied(f)))

(***************************************************************************)
(* Deleting.  The walk starts at the first (last) field of the entry and   *)
(* ends at the last (first) one.                                           *)
(***************************************************************************)
From(em, ix, reverse) ==
  LET start == Position(em, IF reverse THEN em.index[ix].last ELSE em.index[ix].first)
      ahead == {p \in 1..Len(em.fields) :
                  /\ em.fields[p].ix = ix
                  /\ start # 0
                  /\ IF reverse THEN p <= start ELSE p >= start}
      ps == SetToSortSeq(ahead, LAMBDA a, b : a < b)
  IN IF reverse THEN Reverse(ps) ELSE ps

Walk(em, ix, reverse) ==
  LET ps == From(em, ix, reverse)
      end == IF reverse THEN em.index[ix].first ELSE em.index[ix].last
      stop == {k \in 1..Len(ps) : em.fields[ps[k]].id = end}
  IN IF stop = {} THEN ps
     ELSE SubSeq(ps, 1, CHOOSE k \in stop : \A j \in stop : k <= j)

Without(em, ids) ==
  LET gone == SelectSeq(em.fields, LAMBDA f : f.id \in ids)
  IN [em EXCEPT !.fields = SelectSeq(@, LAMBDA f : f.id \notin ids),
                !.hsize = @ - Total(gone)]

Forget(em, ix, ids) ==
  [Without(em, ids) EXCEPT !.index[ix].count = @ - Len(SetToSeq(ids)),
                           !.index[ix].first = IF @ \in ids THEN 0 ELSE @,
                           !.index[ix].last = IF @ \in ids THEN 0 ELSE @]

\* The fields met on the walk that the index counts: all, or one of them.
Counted(em, walk, index) ==
  {em.fields[walk[j]].id : j \in {j \in 1..Len(walk) : index \in {0, j, -j}}}

\* The entry goes with its last field; its ends are looked up if one is gone.
Settled(em, ix, index) ==
  IF index = 0 \/ em.index[ix].count = 0 THEN [em EXCEPT !.index[ix].gone = TRUE]
  ELSE IF em.index[ix].first = 0 \/ em.index[ix].last = 0
       THEN [em EXCEPT !.index[ix] = RebuiltFirst(em, ix)]
  ELSE em

DeleteParsed(em, ix, index) ==
  IF ix = 0 THEN em
  ELSE Settled(Forget(edit_mail_modify(em), ix,
                      Counted(em, Walk(em, ix, index < 0), index)), ix, index)

edit_mail_header_delete(em0, n, index) ==
  LET Delete(em) == DeleteParsed(em, edit_mail_header_find(em, n), index)
  IN Delete(edit_mail_headers_parse(em0))

\* One field removed by the iterator: the index is moved on to a neighbour,
\* which has to exist.
edit_mail_header_field_delete(em, id) ==
  LET p == Position(em, id)
      ix == em.fields[p].ix
      h == em.index[ix]
      after == {q \in p+1..Len(em.fields) : em.fields[q].ix = ix}
      before == {q \in 1..p-1 : em.fields[q].ix = ix}
      Id(q) == em.fields[q].id
      moved == IF h.count = 1 THEN [h EXCEPT !.count = 0, !.gone = TRUE]
               ELSE IF h.first = id /\ after # {}
                    THEN [h EXCEPT !.count = @ - 1,
                                   !.first = Id(CHOOSE q \in after : \A r \in after : q <= r)]
               ELSE IF h.first # id /\ h.last = id /\ before # {}
                    THEN [h EXCEPT !.count = @ - 1,
                                   !.last = Id(CHOOSE q \in before : \A r \in before : q >= r)]
               ELSE [h EXCEPT !.count = @ - 1]
      stuck == /\ h.count # 1
               /\ \/ h.first = id /\ after = {}
                  \/ h.first # id /\ h.last = id /\ before = {}
  IN [Without(em, {id}) EXCEPT !.index[ix] = moved, !.panic = @ \/ stuck]

\* The loop of deleteheader with value patterns: iterate_init, then for each
\* field iterate_get and iterate_remove or iterate_next; "upto" fields are
\* looked at before a match fails.
DeleteMatching(em0, n, index, reverse, vals, upto) ==
  LET Looked(em, ix) == IF ix = 0 THEN <<>> ELSE From(em, ix, reverse)
      Hit(em, ps) == SelectSeq([k \in 1..Len(ps) |-> [k |-> k, f |-> em.fields[ps[k]]]],
                               LAMBDA r : r.k <= upto /\ index \in {0, r.k} /\ r.f.val \in vals)
      Delete(em) ==
        FoldLeft(LAMBDA e, r : edit_mail_header_field_delete(edit_mail_modify(e), r.f.id),
                 em, Hit(em, Looked(em, edit_mail_header_find(em, n))))
  IN Delete(edit_mail_headers_parse(em0))

(***************************************************************************)
(* What the mail says of itself.                                           *)
(***************************************************************************)
\* The fields, in order, without the bookkeeping.
Plain(f) == [name |-> f.name, val |-> f.val, size |-> f.size, id |-> f.id]

Prepended(em) == IF em.appended = 0 THEN em.fields
                 ELSE SubSeq(em.fields, 1, Position(em, em.appended) - 1)
Appended(em) == IF em.appended = 0 THEN <<>>
                ELSE SubSeq(em.fields, Position(em, em.appended), Len(em.fields))

Content(em) ==
  LET P(fs) == [k \in 1..Len(fs) |-> Plain(fs[k])]
  IN IF ~em.modified THEN Source[em.src].hdr
     ELSE IF em.parsed THEN P(em.fields)
     ELSE P(Prepended(em)) \o Source[em.src].hdr \o P(Appended(em))

Ids(fs, n) == LET own == SelectSeq(fs, LAMBDA f : f.name = n)
              IN [k \in 1..Len(own) |-> own[k].id]

edit_mail_get_headers(em, n) ==
  LET orig == Ids(Source[em.src].hdr, n)
      ix == edit_mail_header_find(em, n)
      own == From(em, ix, FALSE)
      upto == {k \in 1..Len(own) : em.fields[own[k]].id = em.index[ix].last}
      shown == IF upto = {} THEN own
               ELSE SubSeq(own, 1, CHOOSE k \in upto : \A j \in upto : k <= j)
      from == Position(em, em.index[ix].first)
      ap == Position(em, em.appended)
      V(ps) == [k \in 1..Len(ps) |-> em.fields[ps[k]].id]
  IN IF ~em.modified \/ (\A i \in 1..Len(em.index) : em.index[i].gone) THEN orig
     ELSE IF ix = 0 THEN IF em.parsed THEN <<>> ELSE orig
     ELSE IF em.parsed THEN V(shown)
     ELSE IF ap # 0 /\ from # 0 /\ from <= ap /\ shown # <<>> /\ ap <= Last(shown)
          THEN V(SelectSeq(shown, LAMBDA p : p < ap)) \o orig
               \o V(SelectSeq(shown, LAMBDA p : p >= ap))
     ELSE V(shown) \o orig

edit_mail_get_first_header(em, n) ==
  LET orig == Ids(Source[em.src].hdr, n)
      First(s) == IF s = <<>> THEN 0 ELSE s[1]
      ix == edit_mail_header_find(em, n)
      ap == Position(em, em.appended)
      scan == {p \in 1..ap : em.fields[p].ix = ix}
  IN IF ~em.modified \/ (\A i \in 1..Len(em.index) : em.index[i].gone) THEN First(orig)
     ELSE IF ix = 0 THEN IF em.parsed THEN 0 ELSE First(orig)
     ELSE IF em.appended = 0 THEN em.index[ix].first
     ELSE IF scan # {} THEN em.fields[CHOOSE p \in scan : \A q \in scan : p <= q].id
     ELSE IF orig # <<>> THEN orig[1]
     ELSE em.index[ix].first

edit_mail_get_physical_size(em) ==
  (IF em.parsed THEN em.eoh ELSE WrappedHdr(em)) + Source[em.src].body + em.hsize

\* The header size handed out with the stream.
edit_mail_get_stream(em) == WrappedHdr(em) + em.hsize

(***************************************************************************)
(* The stream.  A byte is named by what it belongs to: a field, the empty  *)
(* line (field 0, bytes 1 and 2 are CR and LF) or the body (field -1).     *)
(***************************************************************************)
Bytes(fs) == FoldLeft(LAMBDA b, f : b \o [k \in 1..f.size |-> <<f.id, k>>], <<>>, fs)
Eoh(s) == IF Source[s].eoh = 2 THEN <<<<0, 1>>, <<0, 2>>>> ELSE <<<<0, 2>>>>
Body(s) == [k \in 1..Source[s].body |-> <<-1, k>>]
Wrapped(s) == Bytes(Source[s].hdr) \o Eoh(s) \o Body(s)

Message(em) == Bytes(Content(em)) \o Eoh(em.src) \o Body(em.src)

\* The header that holds offset v when the headers from "lo" start at "base":
\* [cur, off], the field and the offset it starts at.
Holding(em, lo, base, v) ==
  LET End(p) == base + Total(SubSeq(em.fields, lo, p))
      p == CHOOSE p \in lo..Len(em.fields) :
             v <= End(p) /\ \A q \in lo..p-1 : v > End(q)
  IN [cur |-> p, off |-> End(p) - em.fields[p].size]

edit_mail_istream_seek(em, v) ==
  LET ap == Position(em, em.appended)
      before == em.hsize - (IF em.parsed THEN 0 ELSE em.asize)
      wh == WrappedHdr(em)
      At(c, read) == [cur |-> c.cur, off |-> c.off, read |-> read]
      none == [cur |-> 0, off |-> 0]
  IN IF v = 0 THEN At([cur |-> IF em.fields # <<>> /\ ap # 1 THEN 1 ELSE 0, off |-> 0], FALSE)
     ELSE IF v < before THEN At(Holding(em, 1, 0, v), FALSE)
     ELSE IF em.parsed \/ v < before + wh THEN At(none, FALSE)
     ELSE IF v < em.hsize + wh THEN At(Holding(em, ap, before + wh, v), TRUE)
     ELSE At(none, TRUE)

\* merge_modified_headers: the fields from "cur", which starts at "off", on;
\* v is where the reader is.
merge_modified_headers(em, cur, off, v) ==
  LET ap == Position(em, em.appended)
      last == IF ~em.parsed /\ ap > cur THEN ap - 1 ELSE Len(em.fields)
      all == Bytes(SubSeq(em.fields, cur, last))
  IN IF cur = 0 THEN <<>> ELSE SubSeq(all, v - off + 1, Len(all))

\* The offset of the wrapped stream and of this one where they run together.
Joined(em) ==
  LET wh == WrappedHdr(em)
  IN IF wh <= em.eoh THEN <<0, em.hsize>>
     ELSE IF em.parsed THEN <<wh - em.eoh, em.hsize>>
     ELSE IF em.appended # 0 THEN <<wh - em.eoh, em.hsize + wh - em.eoh>>
     ELSE <<0, em.hsize>>

\* With "got" read from offset v on: the original headers up to the empty line
\* and the appended ones, if the reader is not past them;
WithoutCR(b) == IF b # <<>> /\ Last(b) = <<0, 1>> THEN Front(b) ELSE b
ReadAppended(em, v, got, ahead) ==
  LET prep == em.hsize - em.asize
      Then(b) == b \o merge_modified_headers(em, Position(em, em.appended), v + Len(b), v + Len(b))
  IN IF ~em.parsed /\ em.appended # 0 /\ ahead /\ v + Len(got) < prep + WrappedHdr(em)
     THEN Then(got \o WithoutCR(SubSeq(Wrapped(em.src), v + Len(got) - prep + 1, WrappedHdr(em) - 1)))
     ELSE got
\* and what the wrapped stream has from there on.
ReadWrapped(em, v, got) ==
  LET Rest(at, b) == [panic |-> v + Len(got) < at[2],
                      bytes |-> IF v + Len(got) < at[2] THEN <<>>
                                ELSE got \o SubSeq(b, at[1] + v + Len(got) - at[2] + 1, Len(b))]
  IN Rest(Joined(em), Wrapped(em.src))

\* All that is read from offset v on, by a reader that consumes what it gets:
\* the headers put before, the original ones up to the empty line, the
\* appended ones, and what the wrapped stream has after them.
edit_mail_istream_read(em, v) ==
  LET Read(s) == ReadWrapped(em, v,
        ReadAppended(em, v, merge_modified_headers(em, s.cur, s.off, v), ~s.read))
  IN Read(edit_mail_istream_seek(em, v))

\* The raw body: the stream after the header size handed out with it.
sieve_message_body_get_raw(em) == edit_mail_istream_read(em, edit_mail_get_stream(em)).bytes
=============================================================================
