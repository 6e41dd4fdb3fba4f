---------------------------- MODULE SieveMessage ----------------------------
(***************************************************************************)
(* The message while a script runs (sieve-message.c, the editheader        *)
(* extension, the filter command): its versions, the edited mails they     *)
(* hold, the actions of the result that refer to one of them, and the      *)
(* cache of its MIME parts.                                                *)
(*                                                                         *)
(* A version is replaced by "filter" and edited by addheader and           *)
(* deleteheader.  An action refers to the mail by pointer: the two         *)
(* snapshot flags ask for a new version, or a new edited mail, before the  *)
(* message is next changed.                                                *)
(***************************************************************************)
EXTENDS EditMail, SieveBody, FiniteSets

CONSTANTS Names,        \* header names scripts use
          Values,       \* the values of added headers
          Substitutes,  \* the sources a filter program returns
          NoAdd,        \* the names addheader may not add,
          NoDelete,     \* and deleteheader may not delete: a warning, no change
          Mime,         \* for each source, its MIME parts
          Patterns,     \* the sets of values deleteheader patterns match
          ReadUpTo,     \* visits of parts after which a read may fail
          MaxSteps      \* bound on the commands and tests of a script

ASSUME SourcesAssumption == Substitutes \subseteq DOMAIN Source /\ 1 \in DOMAIN Source
ASSUME BoundsAssumption == MaxSteps \in Nat

VARIABLES mails,                \* all edited mails, in the order of creation
          versions,             \* [src, edit]: 0 is NULL
          edit_snapshot, substitute_snapshot,
          actions,              \* the mail each action refers to: [src, edit]
          freed,                \* the edited mails and sources freed
          edit_mail_refcount,   \* users of the raw storage
          cached_body_parts,
          steps,                \* commands and tests executed
          excused,              \* the known slips that have happened
          looked,               \* names of the message's headers when its parts were first gone through
          died,                 \* how the process ended in the middle: "no", "wrap" or "read"
          running

vars == <<mails, versions, edit_snapshot, substitute_snapshot, actions, freed,
          edit_mail_refcount, cached_body_parts, steps, excused, looked, died, running>>

Init ==
  /\ mails = <<>> /\ versions = <<>> /\ actions = <<>>
  /\ edit_snapshot = FALSE /\ substitute_snapshot = FALSE
  /\ freed = [edits |-> {}, sources |-> {}]
  /\ edit_mail_refcount = 0 /\ cached_body_parts = <<>>
  /\ steps = 0 /\ excused = {} /\ looked = {} /\ died = "no" /\ running = TRUE

(***************************************************************************)
(* Versions.                                                               *)
(***************************************************************************)
\* The last version, added when there is none.
sieve_message_version_get ==
  IF versions = <<>> THEN <<[src |-> 0, edit |-> 0]>> ELSE versions

\* An unmodified edited mail shows the mail it wraps.
edit_mail_get_mail(m) ==
  IF mails[m].modified THEN [src |-> mails[m].src, edit |-> m]
  ELSE [src |-> mails[m].src, edit |-> 0]

sieve_message_get_mail ==
  IF versions = <<>> THEN [src |-> 1, edit |-> 0]
  ELSE IF Last(versions).edit # 0 THEN edit_mail_get_mail(Last(versions).edit)
  ELSE [src |-> Last(versions).src, edit |-> 0]

ContentOf(ms, ref) == IF ref.edit = 0 THEN Source[ref.src].hdr ELSE Content(ms[ref.edit])

\* An edited mail and those it was copied from.
RECURSIVE Chain(_, _)
Chain(ms, m) == IF m = 0 THEN {} ELSE {m} \cup Chain(ms, ms[m].parent)

\* The users of the raw storage that go with a version.
edit_mail_raw_storage_drop(v) == IF v.edit # 0 THEN 1 ELSE 0

sieve_message_version_free(fr, v) ==
  [edits |-> fr.edits \cup Chain(mails, v.edit),
   sources |-> fr.sources \cup ({v.src} \ {0})]

\* A mutant: only editing makes a copy.
SnapshotEditsOnly == edit_snapshot' = TRUE /\ UNCHANGED substitute_snapshot

sieve_message_snapshot == edit_snapshot' = TRUE /\ substitute_snapshot' = TRUE

\* A mutant: what an action holds is edited as well.
EditShared ==
  LET vs == sieve_message_version_get
      v == Last(vs)
      new == v.edit = 0
      m == IF new THEN Len(mails) + 1 ELSE v.edit
  IN [mails |-> IF new THEN Append(mails, edit_mail_wrap(IF v.src = 0 THEN 1 ELSE v.src))
                ELSE mails,
      at |-> m, versions |-> [vs EXCEPT ![Len(vs)].edit = m],
      wraps |-> IF new THEN 1 ELSE 0, failed |-> FALSE]

\* The edited mail a command changes: a new one around the message, a copy of
\* the one there is, or that one itself.
sieve_message_edit ==
  LET vs == sieve_message_version_get
      v == Last(vs)
      At(ms, m) == [mails |-> ms, at |-> m,
                    versions |-> [vs EXCEPT ![Len(vs)].edit = m],
                    wraps |-> IF v.edit = 0 THEN 1 ELSE 0, failed |-> FALSE]
  IN IF v.edit = 0
     THEN At(Append(mails, edit_mail_wrap(IF v.src = 0 THEN 1 ELSE v.src)), Len(mails) + 1)
     ELSE IF edit_snapshot /\ mails[v.edit].snapmod
     THEN At(Append(mails, edit_mail_snapshot(mails[v.edit], v.edit)), Len(mails) + 1)
     ELSE At(mails, v.edit)

(***************************************************************************)
(* The slips the properties make an exception for.                         *)
(***************************************************************************)
\* "first" of a name that was appended before the headers were parsed stays
\* on the appended field, although original fields now precede it.
Astray(em) ==
  IF em.parsed THEN {}
  ELSE {f.name : f \in {f \in ToSet(Appended(em)) :
                          /\ \E o \in ToSet(Source[em.src].hdr) : ~Denied(o) /\ o.name = f.name
                          /\ ~\E p \in ToSet(Prepended(em)) : p.name = f.name}}

\* The mail of an action is edited in place: its copy was not changed since it
\* was made, so that no new one is made.
InPlace(e, em2) ==
  /\ edit_snapshot /\ ~e.mails[e.at].snapmod
  /\ \E k \in 1..Len(actions) : actions[k].edit = e.at
  /\ Content(em2) # Content(e.mails[e.at])

Slips(e, em2, parses) ==
  (IF parses /\ Astray(e.mails[e.at]) # {} THEN {"first"} ELSE {})
  \cup (IF InPlace(e, em2) THEN {"snapshot"} ELSE {})
  \cup (IF e.failed THEN {"read"} ELSE {})

\* A read error in the middle leaves sizes and counts of the fields read.
\* A command that turned the edited mail of e into em2.
Edited(e, em2, parses) ==
  /\ mails' = [e.mails EXCEPT ![e.at] =
                  [em2 EXCEPT !.astray = IF parses THEN @ \cup Astray(e.mails[e.at]) ELSE @,
                              !.unread = @ \/ e.failed]]
  /\ versions' = e.versions
  /\ edit_snapshot' = FALSE
  /\ edit_mail_refcount' = edit_mail_refcount + e.wraps
  /\ excused' = excused \cup Slips(e, em2, parses)
  /\ steps' = steps + 1
  /\ UNCHANGED <<substitute_snapshot, actions, freed, cached_body_parts,
                 looked, died, running>>

Busy == running /\ steps < MaxSteps

\* The field the next addheader makes.
FieldId == 100 + steps
FieldSize == 2

ext_editheader_header_allow_add(n) == n \notin NoAdd
ext_editheader_header_allow_delete(n) == n \notin NoDelete

cmd_addheader_operation_execute(n, v, last) ==
  /\ Busy /\ ext_editheader_header_allow_add(n)
  /\ LET e == sieve_message_edit
     IN Edited(e, edit_mail_header_add(e.mails[e.at], n, v, FieldSize, FieldId, last), FALSE)

cmd_deleteheader_operation_execute(n, index, reverse) ==
  /\ Busy /\ ext_editheader_header_allow_delete(n)
  /\ LET e == sieve_message_edit
     IN Edited(e, edit_mail_header_delete(e.mails[e.at], n,
                                          IF reverse THEN -index ELSE index), TRUE)

\* With value patterns; a pattern that fails to match ends it after "upto"
\* fields.
DeleteheaderMatching(n, index, reverse, vals, upto) ==
  /\ Busy /\ ext_editheader_header_allow_delete(n)
  /\ LET e == sieve_message_edit
     IN Edited(e, DeleteMatching(e.mails[e.at], n, index, reverse, vals, upto), TRUE)

\* The message cannot be read while its headers are parsed: a warning.
DeleteheaderReadError(n) ==
  /\ Busy /\ ext_editheader_header_allow_delete(n)
  /\ LET e == sieve_message_edit
         em == e.mails[e.at]
     IN ~em.parsed /\ Edited([e EXCEPT !.failed = TRUE], ParseFails(em), FALSE)

\* _sieve_result_add_action with preserve_mail.
PreserveMail ==
  /\ Busy
  /\ actions' = Append(actions, sieve_message_get_mail)
  /\ sieve_message_snapshot
  /\ steps' = steps + 1
  /\ UNCHANGED <<mails, versions, freed, edit_mail_refcount, cached_body_parts,
                 excused, looked, died, running>>

sieve_message_substitute(s) ==
  /\ Busy
  /\ s \notin freed.sources /\ \A k \in 1..Len(versions) : versions[k].src # s
  /\ LET new == [src |-> s, edit |-> 0]
         vs == sieve_message_version_get
         top == Last(vs)
     IN IF substitute_snapshot
        THEN /\ versions' = Append(versions, new)
             /\ UNCHANGED <<freed, edit_mail_refcount>>
        ELSE /\ versions' = [vs EXCEPT ![Len(vs)] = new]
             /\ freed' = sieve_message_version_free(freed, top)
             /\ edit_mail_refcount' = edit_mail_refcount - edit_mail_raw_storage_drop(top)
  /\ edit_snapshot' = FALSE /\ substitute_snapshot' = FALSE
  /\ cached_body_parts' = <<>> /\ looked' = {}
  /\ steps' = steps + 1
  /\ UNCHANGED <<mails, actions, excused, died, running>>

(***************************************************************************)
(* Requests for body parts: those of the source the message comes from,    *)
(* with the headers of the edited mail.  The fields that scripts edit here *)
(* are not those that decide on the parts (Content-Type and so on).        *)
(***************************************************************************)
Parts ==
  [Mime[sieve_message_get_mail.src] EXCEPT
     !.parts[1].hdrs = {f.name : f \in ToSet(ContentOf(mails, sieve_message_get_mail))}]

Request(wanted, text, all) ==
  /\ Busy
  /\ cached_body_parts' =
       sieve_message_parts_add_missing(Parts, cached_body_parts, wanted, text, all)
  /\ looked' = IF all /\ looked = {} THEN Parts.parts[1].hdrs ELSE looked
  /\ steps' = steps + 1
  /\ UNCHANGED <<mails, versions, edit_snapshot, substitute_snapshot, actions,
                 freed, edit_mail_refcount, excused, died, running>>

sieve_message_body_get_content(wanted) == Request(wanted, FALSE, FALSE)
sieve_message_body_get_text == Request(TextTypes, TRUE, FALSE)
IterateParts == Request({<<"", "">>}, TRUE, TRUE)

\* The context of the message goes, with all versions.
ContextFreed ==
  /\ running' = FALSE
  /\ freed' = [edits |-> freed.edits \cup
                         UNION {Chain(mails, versions[k].edit) : k \in 1..Len(versions)},
               sources |-> freed.sources \cup
                           ({versions[k].src : k \in 1..Len(versions)} \ {0})]
  /\ edit_mail_refcount' = edit_mail_refcount
       - Cardinality({k \in 1..Len(versions) : versions[k].edit # 0})
  /\ cached_body_parts' = <<>> /\ looked' = {}
  /\ UNCHANGED <<mails, versions, edit_snapshot, substitute_snapshot, actions, steps, excused>>

\* The script is done and its actions executed.
sieve_message_context_unref == running /\ ContextFreed /\ UNCHANGED died

\* The end of the process, in the middle of it all
Dies(how) ==
  /\ running' = FALSE /\ died' = how /\ cached_body_parts' = <<>> /\ looked' = {}
  /\ UNCHANGED <<mails, versions, edit_snapshot, substitute_snapshot, actions, freed, edit_mail_refcount,
                 steps, excused>>

\* edit_mail_wrap: the message cannot be opened, or no raw mailbox made for it.  Its callers
\* use what it returns, NULL, without a look.
WrapFails == Busy /\ Last(sieve_message_version_get).edit = 0 /\ Dies("wrap")

\* A request that has to read the message cannot, from the start or after the n-th
\* visit.  The script ends with a temporary failure, unless an assertion fails.
PartsUnread(wanted, text, all, n, torn) ==
  /\ Busy /\ n <= Len(Parts.visits) /\ (torn => n > 0)
  /\ all \/ ~sieve_message_body_get_return_parts(cached_body_parts, wanted, text).ok
  /\ IF ReadErrorDies(Parts, cached_body_parts, wanted, text, all, n, torn)
     THEN Dies(IF n > 0 /\ cached_body_parts = <<>> THEN "first read" ELSE "read")
     ELSE ContextFreed /\ UNCHANGED died

Wanted == {{<<"text", "">>}, {<<"text", "html">>}, {<<"message", "rfc822">>},
           {<<"multipart", "">>}, {<<"", "">>}}

Next ==
  \/ \E n \in Names, v \in Values, last \in BOOLEAN :
       cmd_addheader_operation_execute(n, v, last)
  \/ \E n \in Names, i \in 0..2, r \in BOOLEAN : cmd_deleteheader_operation_execute(n, i, r)
  \/ \E n \in Names, i \in 0..1, r \in BOOLEAN, vals \in Patterns, u \in {1, 9} :
       DeleteheaderMatching(n, i, r, vals, u)
  \/ \E n \in Names : DeleteheaderReadError(n)
  \/ PreserveMail
  \/ \E s \in Substitutes : sieve_message_substitute(s)
  \/ \E w \in Wanted : sieve_message_body_get_content(w)
  \/ sieve_message_body_get_text
  \/ IterateParts
  \/ WrapFails
  \/ \E w \in {{<<"text", "">>}, {<<"", "">>}, TextTypes}, torn \in BOOLEAN, n \in ReadUpTo :
       PartsUnread(w, w # {<<"text", "">>}, w = {<<"", "">>}, n, torn)
  \/ sieve_message_context_unref

Spec == Init /\ [][Next]_vars

-----------------------------------------------------------------------------
Edits == {m \in 1..Len(mails) : mails[m].modified}

TypeOK ==
  /\ \A k \in 1..Len(versions) : versions[k].edit \in 0..Len(mails)
  /\ \A m \in 1..Len(mails) : mails[m].parent \in 0..(m - 1)
  /\ edit_mail_refcount \in Nat /\ steps \in 0..MaxSteps

\* What the script is promised (HeaderList), on the fields that can be seen:
\* each command does to the message, and to the mails of the actions taken
\* before, what the list of header fields says, unless one of the slips
\* happened.
Seen(fs) == SelectSeq(fs, LAMBDA f : ~Denied(f))
Abstract == INSTANCE HeaderList WITH
              Incoming <- Seen(Source[1].hdr),
              Exchanged <- {Seen(Source[s].hdr) : s \in Substitutes},
              list <- Seen(ContentOf(mails, sieve_message_get_mail)),
              filed <- [k \in 1..Len(actions) |-> Seen(ContentOf(mails, actions[k]))]
AnyValue == Values \cup {f.val : f \in UNION {ToSet(Source[s].hdr) : s \in DOMAIN Source}}
ListNext ==
  \/ Abstract!Take
  \/ Abstract!Exchange
  \/ \E n \in Names, v \in Values, last \in BOOLEAN :
       Abstract!AddField([name |-> n, val |-> v, size |-> FieldSize, id |-> FieldId], last)
  \/ \E n \in Names \ NoDelete, i \in 0..2, r \in BOOLEAN,
        vals \in Patterns \cup {AnyValue}, u \in {1, 9} : Abstract!DeleteFields(n, i, r, vals, u)
EditsTheList == Abstract!ListInit /\ [][excused' # {} \/ ListNext]_(Abstract!listVars)

\* A mail an action refers to is not freed before the script is done: every
\* change of the message after the action makes a copy, or a new version.
HeldMailsLive ==
  running => \A k \in 1..Len(actions) : /\ actions[k].edit \notin freed.edits
                                        /\ actions[k].src \notin freed.sources

\* All edited mails are freed in the end, each once, and with the last of them
\* the raw storage they share.
NothingLeft == ~running /\ died = "no" => /\ edit_mail_refcount = 0
                                           /\ freed.edits = 1..Len(mails)

\* The index finds all fields of a name, and in the order of the message, but for
\* names that were appended before the original fields of that name were parsed
\* (astray) and mails that could not be read; a look at the list while headers
\* are appended and the original ones are not parsed finds all, in another order,
\* and a mail without any header left is taken for an unmodified one.
HeadersFound ==
  LET Found(got, first, want, exact) ==
        /\ ToSet(got) = ToSet(want) /\ Len(got) = Len(want)
        /\ exact => got = want /\ first = (IF want = <<>> THEN 0 ELSE want[1])
  IN \A m \in Edits, n \in Names :
       mails[m].fields = <<>> \/ n \in mails[m].astray \/ mails[m].unread \/
       Found(edit_mail_get_headers(mails[m], n), edit_mail_get_first_header(mails[m], n),
             Ids(Content(mails[m]), n), mails[m].appended = 0)

\* Read from any offset, the stream of an edited mail is what is left of the
\* message, and its length the size the mail reports: whatever was put before
\* and after, parsed or not.  Offsets from the second byte of headers that are
\* appended to unparsed ones up to the body are left out, and a message whose
\* empty line is longer than the rest of it makes the mail expect.  A mail that
\* could not be read when its headers were parsed is outside of this.
StreamIsMessage ==
  \A m \in {m \in Edits : ~mails[m].unread} :
    LET em == mails[m]
        bytes == Message(em)
        lazy == ~em.parsed /\ em.appended # 0
        lo == em.hsize - em.asize + WrappedHdr(em) - Source[em.src].eoh
        blurred == IF lazy THEN lo+1..em.hsize + WrappedHdr(em) - 1 ELSE {}
    IN /\ edit_mail_get_physical_size(em) = Len(bytes)
       /\ (lazy /\ em.eoh < Source[em.src].eoh) \/
            \A v \in (0..Len(bytes)) \ blurred :
              LET r == edit_mail_istream_read(em, v)
              IN ~r.panic /\ r.bytes = SubSeq(bytes, v + 1, Len(bytes))

\* The raw body is what follows the headers, as long as they are not parsed.
RawBodyIsBody ==
  \A m \in {m \in Edits : ~mails[m].unread /\ ~mails[m].parsed} : sieve_message_body_get_raw(mails[m]) = Body(mails[m].src)

\* Deleting fields one by one never misses the neighbour the index needs, unless
\* in this mail a read failed or the index of a name is astray; and a message whose
\* parts are read for the first time is never missed a part of when the read fails
\* half way.  A read that fails before the first part, or when the parts are read
\* again, does kill the process, and so does a mail that cannot be wrapped (NeverDies).
NoPanic == /\ \A m \in 1..Len(mails) : mails[m].panic => mails[m].unread \/ mails[m].astray # {}
           /\ died \in {"no", "wrap", "read"}

\* The comment "This time, failure is a bug" (sieve-message.c): an error of the storage
\* ends a script, not the process.
NeverDies == died = "no"

\* The cache of body parts is invisible: a request for contents or text is
\* answered as if it was the first.
CacheIsTransparent ==
  cached_body_parts # <<>> => \A w \in Wanted \cup {TextTypes}, t \in BOOLEAN :
    t = (w = TextTypes) =>
      LET After(c) == sieve_message_body_get_return_parts(
                        sieve_message_parts_add_missing(Parts, c, w, t, FALSE), w, t)
          Same(now, first) == now.ok /\ now = first
      IN Same(After(cached_body_parts), After(<<>>))

\* The entries of the parts below p, and those whose walk does not leave the part: not
\* the last child of a part that is followed by another one, or lies in one that is.
EntriesBelow(p) ==
  {e \in 1..Len(cached_body_parts) : /\ ~cached_body_parts[e].epilogue
                                     /\ Below(Parts, cached_body_parts[e].part, p)}
RECURSIVE Followed(_)
Followed(e) == LET up == cached_body_parts[e].parent
               IN up # 0 /\ (cached_body_parts[up].next # 0 \/ Followed(up))
Contained(e) == ~cached_body_parts[e].epilogue /\ (cached_body_parts[e].next # 0 \/ ~Followed(e))
At(e) == [sieve_message_part_iter_init(cached_body_parts) EXCEPT !.index = e]

\* A nested foreverypart visits the parts below the one it starts from, each
\* once and no other, unless that is the last child of a part that is followed by
\* another one, or lies in one that is.
PartsBelow ==
  \A e \in {e \in 1..Len(cached_body_parts) : Contained(e)} :
    SetToSortSeq(EntriesBelow(cached_body_parts[e].part) \ {e}, LAMBDA a, b : a < b)
      = sieve_message_part_iter_next(cached_body_parts,
          sieve_message_part_iter_children(cached_body_parts, At(e)))

\* What "header :mime :anychild" finds from part e on, all parts having been asked for,
\* is the headers of the part and of all parts below it: Top those of the message.
FindsHeaders(Top) ==
  LET c == sieve_message_parts_add_missing(Parts, cached_body_parts, {<<"", "">>}, TRUE, TRUE)
  IN \A e \in {e \in 1..Len(cached_body_parts) : Contained(e)} :
       LET below == EntriesBelow(cached_body_parts[e].part)
           Hdrs(b) == IF b = 1 THEN Top ELSE Parts.parts[c[b].part].hdrs
       IN (\A b \in below : Hdrs(b) # {}) =>
            sieve_mime_header_list_next_item(c, At(e), Names, TRUE)
              = {<<b, n>> \in below \X Names : n \in Hdrs(b)}

\* "header :mime :anychild" inside foreverypart looks at the headers of the
\* part and of all parts below it, unless one of them has no headers at all:
\* there the search for that name ends.  The headers of the message itself are those
\* it had when its parts were first gone through, whatever was edited since.
ChildHeadersFound == FindsHeaders(IF looked = {} THEN Parts.parts[1].hdrs ELSE looked)

\* Tests see a header "as modified by any actions that have taken place so far"
\* (doc/rfc/editheader.rfc5293.txt:200).
MimeSeesEdits == FindsHeaders(Parts.parts[1].hdrs)

\* The edited mails (edit-mail.c): each lives as long as an action refers to it and no longer, and its index,
\* its stream, its sizes and its raw body all show the same list of fields.  Excepted are a mail whose headers
\* could not be read (unread), the index of a name that was appended before the original fields of that name
\* were parsed (astray), and the places the parts name.
MailsSound == /\ TypeOK /\ NoPanic /\ HeldMailsLive /\ NothingLeft
              /\ HeadersFound /\ StreamIsMessage /\ RawBodyIsBody

\* The body parts (sieve-message.c): the cache and the walks over a flat array show the tree of the message, with
\* the headers that it had when its parts were first gone through.
PartsFound == CacheIsTransparent /\ PartsBelow /\ ChildHeadersFound
=============================================================================
