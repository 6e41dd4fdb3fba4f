----------------------------- MODULE SieveBody ------------------------------
(***************************************************************************)
(* The MIME parts of a message as the body test, the mime tests and        *)
(* foreverypart see them (sieve-message.c).  The message is parsed block   *)
(* by block; every time the parser moves to another part an entry of       *)
(* cached_body_parts is filled in, and a part it comes back to (the        *)
(* epilogue of a multipart) gets an entry of its own.  A request saves     *)
(* only the contents it asks for; later requests complete the cache.       *)
(*                                                                         *)
(* A message is [parts, visits]: its parts, each with its type, its parent *)
(* (0: none), the names of its headers and whether an empty line ends      *)
(* them, and the order in which the parser visits the parts (external:     *)
(* Dovecot's message parser).                                              *)
(* Content is named by the visit it was read at.                           *)
(***************************************************************************)
EXTENDS Integers, Sequences, SequencesExt

Rfc822 == <<"message", "rfc822">>

\* An empty cache entry; 0 stands for NULL.  Its headers are an array that is
\* made when the first of them is stored, and not touched again.
NoPart == [type |-> <<"text", "plain">>, part |-> 0, parent |-> 0, next |-> 0,
           children |-> 0, have_body |-> FALSE, epilogue |-> FALSE,
           decoded |-> <<>>, text |-> <<>>, hdrs |-> {}]

\* wanted: a set of types; <<m, "">> asks for a main type, <<"", "">> for all.
_is_wanted_content_type(wanted, type) ==
  \E w \in wanted : \/ w = <<"", "">>
                    \/ w[2] = "" /\ w[1] = type[1]
                    \/ w = type

\* A mutant: content that was never saved is not missed.
ReturnWhatIsThere(cache, wanted, text) ==
  LET hit == SelectSeq(cache, LAMBDA b : /\ b.have_body
                                         /\ _is_wanted_content_type(wanted, b.type))
  IN [ok |-> cache # <<>>,
      parts |-> [k \in 1..Len(hit) |->
                   <<hit[k].type, IF text THEN hit[k].text ELSE hit[k].decoded>>]]

\* The entries a request returns, and whether their content is all there.
sieve_message_body_get_return_parts(cache, wanted, text) ==
  LET hit == SelectSeq(cache, LAMBDA b : /\ b.have_body
                                         /\ _is_wanted_content_type(wanted, b.type))
      Held(b) == IF text THEN b.text ELSE b.decoded
  IN [ok |-> cache # <<>> /\ \A k \in 1..Len(hit) : Held(hit[k]) # <<>>,
      parts |-> [k \in 1..Len(hit) |-> <<hit[k].type, Held(hit[k])>>]]

\* What is read of entry i is kept as text, HTML removed, or as it is.
sieve_message_part_save(cache, i, what, text) ==
  LET html == /\ text /\ cache[i].children = 0 /\ ~cache[i].epilogue
              /\ cache[i].type = <<"text", "html">>
      data == <<what, i, IF html THEN "stripped" ELSE "plain">>
  IN IF text THEN [cache EXCEPT ![i].text = data] ELSE [cache EXCEPT ![i].decoded = data]

\* The end of the chain of siblings that starts at c, or i on it.
RECURSIVE LastSibling(_, _, _)
LastSibling(cache, c, i) ==
  IF c = i \/ cache[c].next = 0 THEN c ELSE LastSibling(cache, cache[c].next, i)

\* Where the entry of a new part hangs in the tree of entries.
Hang(cache, i, last, parent) ==
  IF last = 0 THEN cache
  ELSE IF cache[last].parent = parent THEN [cache EXCEPT ![last].next = i]
  ELSE IF cache[parent].children = 0 THEN [cache EXCEPT ![parent].children = i]
  ELSE LET c == LastSibling(cache, cache[parent].children, i)
       IN IF c = i THEN cache ELSE [cache EXCEPT ![c].next = i]

(***************************************************************************)
(* One visit of the parser.  st: the cache, the entry of each part, the    *)
(* entry and part last read (0: none), whether its body is being saved.    *)
(***************************************************************************)
\* The entry of a part; that of a part which is met again is its epilogue.
Place(cache, i, p, st, v) ==
  LET parent == IF p.parent = 0 THEN 0 ELSE st.entry[p.parent]
  IN IF st.entry[v] # 0
     THEN [cache EXCEPT ![i].type = cache[st.entry[v]].type, ![i].have_body = TRUE,
                        ![i].epilogue = TRUE, ![i].part = v]
     ELSE Hang([cache EXCEPT ![i].parent = IF parent = 0 THEN @ ELSE parent,
                             ![i].type = p.type, ![i].part = v,
                             ![i].have_body = @ \/ p.eoh],
               i, st.idx, parent)

\* Who asks for all parts gets their headers too, where there are none yet.
Headed(cache, i, p, all) ==
  IF all /\ ~cache[i].epilogue /\ cache[i].hdrs = {} THEN [cache EXCEPT ![i].hdrs = p.hdrs] ELSE cache

WithRoom(cache, i) == IF i <= Len(cache) THEN cache ELSE Append(cache, NoPart)

VisitPart(m, wanted, text, all, st, v) ==
  LET i == st.idx + 1
      p == m.parts[v]
      nested == /\ st.idx # 0 /\ p.parent = st.prev
                /\ st.cache[st.idx].type = Rfc822
      saved == IF st.idx # 0 /\ ~nested /\ st.save
               THEN sieve_message_part_save(st.cache, st.idx, "body", text)
               ELSE st.cache
      placed == Headed(Place(WithRoom(saved, i), i, p, st, v), i, p, all)
      Visited(cache) ==
        [cache |-> cache, idx |-> i, prev |-> v,
         entry |-> IF st.entry[v] # 0 THEN st.entry ELSE [st.entry EXCEPT ![v] = i],
         save |-> all \/ _is_wanted_content_type(wanted, cache[i].type)]
  IN Visited(IF nested THEN sieve_message_part_save(placed, i - 1, "header", FALSE) ELSE placed)

\* The first n visits, and the last part saved.  If the message cannot be read
\* any further in the headers of the last part (torn), its type is not known, its
\* body not reached, and what is to be saved is what it was for the part before.
ParseUpTo(m, cache, wanted, text, all, n, torn) ==
  LET start == [cache |-> cache, idx |-> 0, prev |-> 0, save |-> FALSE,
                entry |-> [p \in 1..Len(m.parts) |-> 0]]
      Step(st, v) == VisitPart(m, wanted, text, all, st, v)
      Tear(st, v) == [VisitPart([m EXCEPT !.parts[v].type = NoPart.type, !.parts[v].eoh = FALSE],
                                wanted, text, all, st, v) EXCEPT !.save = st.save]
      Saved(end) == IF end.save THEN sieve_message_part_save(end.cache, end.idx, "body", text)
                    ELSE end.cache
      whole == FoldLeft(Step, start, SubSeq(m.visits, 1, IF torn THEN n - 1 ELSE n))
  IN Saved(IF torn /\ whole.entry[m.visits[n]] = 0 THEN Tear(whole, m.visits[n]) ELSE whole)

ParseParts(m, cache, wanted, text, all) == ParseUpTo(m, cache, wanted, text, all, Len(m.visits), FALSE)

\* The cache after a request: untouched when it holds all that is asked for.
sieve_message_parts_add_missing(m, cache, wanted, text, all) ==
  IF ~all /\ sieve_message_body_get_return_parts(cache, wanted, text).ok
  THEN cache ELSE ParseParts(m, cache, wanted, text, all)

\* The message cannot be read behind the n-th visit: some part has to have been
\* met, and what is asked for has to be there, or an assertion fails; then the
\* error is reported.
ReadErrorDies(m, cache, wanted, text, all, n, torn) ==
  LET c == ParseUpTo(m, cache, wanted, text, all, n, torn)
  IN n = 0 \/ ~(all \/ sieve_message_body_get_return_parts(c, wanted, text).ok)

TextTypes == {<<"application", "xhtml+xml">>, <<"text", "">>}

(***************************************************************************)
(* The part iterator of foreverypart and of ":mime :anychild": an index    *)
(* into the entries and a root, at whose following sibling or parent the   *)
(* walk ends.  Entries of epilogues are passed over.                       *)
(***************************************************************************)
sieve_message_part_iter_init(cache) ==
  [root |-> IF cache = <<>> THEN 0 ELSE 1, index |-> 1, offset |-> 1]

sieve_message_part_iter_subtree(cache, it) ==
  [it EXCEPT !.root = IF it.index > Len(cache) THEN 0 ELSE it.index,
             !.offset = it.index]

sieve_message_part_iter_children(cache, it) ==
  IF it.index + 1 > Len(cache) \/ cache[it.index].children = 0
  THEN [it EXCEPT !.root = 0, !.offset = it.index]
  ELSE [root |-> it.index, index |-> it.index + 1, offset |-> it.index + 1]

RECURSIVE sieve_message_part_iter_current(_, _)
sieve_message_part_iter_current(cache, it) ==
  IF it.root = 0 \/ it.index > Len(cache) THEN [it EXCEPT !.root = 0]
  ELSE IF it.index \in {cache[it.root].next, cache[it.root].parent}
       THEN [it EXCEPT !.root = 0]
  ELSE IF cache[it.index].epilogue
       THEN sieve_message_part_iter_current(cache, [it EXCEPT !.index = @ + 1])
  ELSE it

\* The entries a loop over the iterator visits, in order.
RECURSIVE sieve_message_part_iter_next(_, _)
sieve_message_part_iter_next(cache, it) ==
  LET c == sieve_message_part_iter_current(cache, it)
  IN IF c.root = 0 THEN <<>>
     ELSE <<c.index>> \o sieve_message_part_iter_next(cache, [c EXCEPT !.index = @ + 1])

\* The values ":mime" gives for the header names asked for, as pairs of entry
\* and name: of the entry the iterator is at, and with :anychild of the ones
\* below it, up to the first that has no headers at all.
sieve_mime_header_list_next_item(cache, it, names, children) ==
  LET walk == sieve_message_part_iter_next(cache, sieve_message_part_iter_subtree(cache, it))
      Hdrs(e) == cache[e].hdrs
      bare == {k \in 2..Len(walk) : Hdrs(walk[k]) = {}}
      end == IF ~children THEN 1
             ELSE IF bare = {} THEN Len(walk)
             ELSE (CHOOSE k \in bare : \A j \in bare : k <= j) - 1
  IN {<<e, n>> \in {walk[k] : k \in 1..Len(walk)} \X names :
        /\ n \in Hdrs(e)
        /\ \E k \in 1..Len(walk) : walk[k] = e /\ k <= end}

\* ---- reference: the parts below another one ----
RECURSIVE Below(_, _, _)
Below(m, p, r) == p # 0 /\ (p = r \/ Below(m, m.parts[p].parent, r))
=============================================================================
