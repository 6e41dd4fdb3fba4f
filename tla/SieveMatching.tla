----------------------------- MODULE SieveMatching ----------------------------
(***************************************************************************)
(* The match type :matches and its match values.                           *)
(* Sources: mcht-matches.c, sieve-match-types.c, sieve-match.c,            *)
(* ext-variables-modifiers.c (:quotewildcard).                             *)
(*                                                                         *)
(* Values and keys are sequences of characters; positions start at 1.  One *)
(* application of Section is one pass of the loop in                       *)
(* mcht_matches_match_key: it looks for the part of the key up to the next *)
(* wildcard.                                                               *)
(***************************************************************************)
EXTENDS Integers, Sequences, FiniteSets

CONSTANT MaxMatchValues   \* SIEVE_MAX_MATCH_VALUES

(***************************************************************************)
(* Match values                                                            *)
(***************************************************************************)
sieve_match_values_start == <<>>
sieve_match_values_add(vals, v) == IF Len(vals) >= MaxMatchValues THEN vals ELSE Append(vals, v)
RECURSIVE sieve_match_values_add_char(_, _)
sieve_match_values_add_char(vals, chars) ==
  IF chars = <<>> THEN vals
  ELSE sieve_match_values_add_char(sieve_match_values_add(vals, <<Head(chars)>>), Tail(chars))
\* A value that was not set is empty.
sieve_match_values_get(vals, i) == IF i < Len(vals) THEN vals[i + 1] ELSE <<>>

(***************************************************************************)
(* Keys                                                                    *)
(***************************************************************************)
RECURSIVE scan_key_section(_, _, _), Needle(_, _, _, _), Fixed(_, _, _, _), Match(_, _, _), Trailing(_, _)
Wildcard == {"*", "?"}
NoCard == "none"
\* A section of the key with its escapes resolved, the position that follows it and the wildcard there
scan_key_section(key, wp, sec) ==
  CASE wp > Len(key) -> [sec |-> sec, wp |-> wp, card |-> NoCard]
    [] wp <= Len(key) /\ key[wp] \in Wildcard -> [sec |-> sec, wp |-> wp, card |-> key[wp]]
    [] wp = Len(key) /\ key[wp] = "\\" -> [sec |-> Append(sec, "\\"), wp |-> wp + 1, card |-> NoCard]
    [] wp < Len(key) /\ key[wp] = "\\" -> scan_key_section(key, wp + 2, Append(sec, key[wp + 1]))
    [] OTHER -> scan_key_section(key, wp + 1, Append(sec, key[wp]))
\* The next section that is not empty, skipping "?" right behind a wildcard
Needle(key, wcard, wp, offset) ==
  LET s == scan_key_section(key, wp, <<>>)
  IN IF wcard = NoCard \/ s.sec # <<>> \/ s.card = "*" \/ s.wp > Len(key)
     THEN [sec |-> s.sec, wp |-> s.wp, card |-> s.card, offset |-> offset]
     ELSE Needle(key, wcard, s.wp + 1, offset + 1)

char_match(val, vp, sec) == vp + Len(sec) - 1 <= Len(val) /\ SubSeq(val, vp, vp + Len(sec) - 1) = sec
\* The position that follows the first occurrence; 0 when there is none
string_find(val, vp, sec) ==
  LET at == {q \in vp..Len(val) : char_match(val, q, sec)}
  IN IF sec = <<>> THEN vp ELSE IF at = {} THEN 0 ELSE (CHOOSE q \in at : \A r \in at : q <= r) + Len(sec)

(***************************************************************************)
(* m: vp, kp, wp (positions), wcard and card (the wildcards around the     *)
(* section), sec, offset, mvalue, vals, back (backtracking), done          *)
(***************************************************************************)
Start == [vp |-> 1, kp |-> 1, wp |-> 1, wcard |-> NoCard, card |-> NoCard, sec |-> <<>>, offset |-> 0,
          mvalue |-> <<>>, vals |-> <<<<>>>>, back |-> FALSE, done |-> FALSE]
Stop(m) == [m EXCEPT !.done = TRUE]

\* No more wildcards in the key: the section must be the end of the value.
LastSection(val, key, m) ==
  LET at == Len(val) + 1 - Len(m.sec)
      all == [Stop(m) EXCEPT !.kp = Len(key) + 1, !.vp = Len(val) + 1]
  IN IF m.wcard = NoCard
     THEN IF m.vp = at /\ char_match(val, at, m.sec) THEN all ELSE Stop(m)
     ELSE IF m.vp + m.offset > at THEN Stop(m)
     ELSE IF ~char_match(val, at, m.sec) THEN [Stop(m) EXCEPT !.vp = at]
     ELSE [all EXCEPT !.vals = sieve_match_values_add_char(
                                 sieve_match_values_add(m.vals, m.mvalue \o SubSeq(val, m.vp, at - m.offset - 1)),
                                 SubSeq(val, at - m.offset, at - 1))]

\* Mutant: after a failure the value is gone back in, the key is not.
FixedKeepsKey(val, key, m, b) ==
  IF m.card # "?" THEN [m |-> m, chars |-> b.chars]
  ELSE LET s == scan_key_section(key, m.wp, <<>>)
           empty == m.vp > Len(val)
           n  == IF empty THEN m ELSE [m EXCEPT !.vp = @ + 1, !.wp = s.wp, !.card = s.card]
           cs == IF empty THEN b.chars ELSE Append(b.chars, val[m.vp])
           fails == empty \/ (s.sec = <<>> /\ s.card = NoCard /\ n.vp <= Len(val)) \/ ~char_match(val, n.vp, s.sec)
           next == IF n.wp <= Len(key) THEN n.wp + 1 ELSE n.wp
       IN CASE fails /\ b.prv > 0 /\ b.prv < Len(val) ->
                 [m |-> [n EXCEPT !.vp = b.prv + 1, !.mvalue = Append(@, val[b.prv]), !.wcard = "*", !.card = "?", !.back = TRUE],
                  chars |-> cs]
            [] fails /\ ~(b.prv > 0 /\ b.prv < Len(val)) -> [m |-> n, chars |-> cs]
            [] OTHER -> Fixed(val, key, [n EXCEPT !.vp = @ + Len(s.sec), !.wp = next, !.kp = next],
                              [b EXCEPT !.chars = cs])
\* The sections behind "?", each at a fixed position.  chars: characters matched by "?"; prv: where
\* the section behind "*" was found, 0 when there was none; from: where to start again.
Fixed(val, key, m, b) ==
  IF m.card # "?" THEN [m |-> m, chars |-> b.chars]
  ELSE LET s == scan_key_section(key, m.wp, <<>>)
           empty == m.vp > Len(val)
           n  == IF empty THEN m ELSE [m EXCEPT !.vp = @ + 1, !.wp = s.wp, !.card = s.card]
           cs == IF empty THEN b.chars ELSE Append(b.chars, val[m.vp])
           fails == empty \/ (s.sec = <<>> /\ s.card = NoCard /\ n.vp <= Len(val)) \/ ~char_match(val, n.vp, s.sec)
           next == IF n.wp <= Len(key) THEN n.wp + 1 ELSE n.wp
       IN CASE fails /\ b.prv > 0 /\ b.prv < Len(val) ->
                 [m |-> [n EXCEPT !.vp = b.prv + 1, !.kp = b.kp, !.wp = b.wp, !.mvalue = Append(@, val[b.prv]),
                                  !.wcard = "*", !.card = "?", !.back = TRUE], chars |-> cs]
            [] fails /\ ~(b.prv > 0 /\ b.prv < Len(val)) -> [m |-> n, chars |-> cs]
            [] OTHER -> Fixed(val, key, [n EXCEPT !.vp = @ + Len(s.sec), !.wp = next, !.kp = next],
                              [b EXCEPT !.chars = cs])

MiddleSection(val, key, m) ==
  LET free  == m.wcard # NoCard
      found == IF ~free THEN (IF char_match(val, m.vp, m.sec) THEN m.vp + Len(m.sec) ELSE 0)
               ELSE IF m.vp + m.offset > Len(val) THEN 0 ELSE string_find(val, m.vp + m.offset, m.sec)
      at    == found - Len(m.sec)
      next  == IF m.wp <= Len(key) THEN m.wp + 1 ELSE m.wp
      b     == [chars |-> IF free THEN SubSeq(val, at - m.offset, at - 1) ELSE <<>>, prv |-> IF free THEN at ELSE 0,
                kp |-> m.kp, wp |-> m.wp]
      n     == [m EXCEPT !.vp = found, !.wp = next, !.kp = next,
                         !.mvalue = IF free THEN @ \o SubSeq(val, m.vp, at - m.offset - 1) ELSE @]
      f     == Fixed(val, key, n, b)
      vals  == sieve_match_values_add_char(IF free THEN sieve_match_values_add(f.m.vals, f.m.mvalue) ELSE f.m.vals, f.chars)
  IN IF found = 0 THEN Stop(IF free THEN [m EXCEPT !.vp = IF m.vp + m.offset > Len(val) THEN m.vp + m.offset ELSE Len(val) + 1] ELSE m)
     ELSE IF f.m.back THEN f.m
     ELSE IF f.m.card = "?" THEN Stop(f.m)
     ELSE [f.m EXCEPT !.vals = vals, !.done = f.m.card # "*"]

Section(val, key, m) ==
  LET s == Needle(key, m.card, m.wp, 0)
      n == IF m.back THEN [m EXCEPT !.back = FALSE]
           ELSE [m EXCEPT !.wcard = m.card, !.sec = s.sec, !.wp = s.wp, !.card = s.card, !.offset = s.offset, !.mvalue = <<>>]
      r == IF n.card = NoCard THEN LastSection(val, key, n) ELSE MiddleSection(val, key, n)
  IN IF ~r.done /\ r.kp > Len(key) /\ r.card = "*"          \* the key ends in "*"
     THEN [Stop(r) EXCEPT !.vp = Len(val) + 1, !.vals = sieve_match_values_add(@, SubSeq(val, r.vp, Len(val)))]
     ELSE r
Match(val, key, m) == IF m.done \/ m.kp > Len(key) \/ m.vp > Len(val) THEN m ELSE Match(val, key, Section(val, key, m))
Trailing(key, kp) == IF kp <= Len(key) /\ key[kp] = "*" THEN Trailing(key, kp + 1) ELSE kp

mcht_matches_match_key(val, key) ==
  LET m  == Match(val, key, Start)
      kp == IF m.vp = Len(val) + 1 THEN Trailing(key, m.kp) ELSE m.kp
      ok == kp > Len(key) /\ m.vp = Len(val) + 1 /\ m.card # "?"
  IN [match |-> ok, vals |-> IF ok THEN [m.vals EXCEPT ![1] = val] ELSE <<>>]

\* sieve_match: the first value and key that match; the match values are theirs, or the old ones
RECURSIVE FirstKey(_, _, _), FirstValue(_, _, _)
FirstKey(val, keys, old) ==
  IF keys = <<>> THEN [match |-> FALSE, vals |-> old]
  ELSE LET r == mcht_matches_match_key(val, Head(keys)) IN IF r.match THEN r ELSE FirstKey(val, Tail(keys), old)
sieve_match_value(val, keys, old) == FirstKey(val, keys, old)
FirstValue(vals, keys, old) ==
  IF vals = <<>> THEN [match |-> FALSE, vals |-> old]
  ELSE LET r == sieve_match_value(Head(vals), keys, old) IN IF r.match THEN r ELSE FirstValue(Tail(vals), keys, old)
sieve_match(vals, keys, old) == FirstValue(vals, keys, old)

\* :quotewildcard; a value that grows too long is cut in front of an escape
RECURSIVE Escape(_, _, _)
Escape(in, out, max) ==
  IF in = <<>> THEN out
  ELSE LET e == IF Head(in) \in Wildcard \cup {"\\"} THEN <<"\\", Head(in)>> ELSE <<Head(in)>>
       IN IF Len(out) + Len(e) > max THEN out ELSE Escape(Tail(in), out \o e, max)
mod_quotewildcard_modify(in, max) == Escape(in, <<>>, max)

(***************************************************************************)
(* What :matches means: "?" is any character, "*" any number of them, as   *)
(* few as possible where there is a choice.                                *)
(***************************************************************************)
RECURSIVE Glob(_, _), Unescape(_)
Unescape(key) ==
  IF key = <<>> THEN <<>>
  ELSE IF Head(key) = "\\" /\ Len(key) > 1 THEN <<<<"char", key[2]>>>> \o Unescape(SubSeq(key, 3, Len(key)))
  ELSE <<<<IF Head(key) \in Wildcard THEN "wild" ELSE "char", Head(key)>>>> \o Unescape(Tail(key))
\* The values of the wildcards, or none
None == [ok |-> FALSE, vals |-> <<>>]
Glob(val, pat) ==
  IF pat = <<>> THEN [ok |-> val = <<>>, vals |-> <<>>]
  ELSE IF Head(pat) = <<"wild", "*">>
  THEN LET good == {n \in 0..Len(val) : Glob(SubSeq(val, n + 1, Len(val)), Tail(pat)).ok}
           n    == CHOOSE x \in good : \A y \in good : x <= y
       IN IF good = {} THEN None
          ELSE [ok |-> TRUE, vals |-> <<SubSeq(val, 1, n)>> \o Glob(SubSeq(val, n + 1, Len(val)), Tail(pat)).vals]
  ELSE IF val = <<>> \/ ~(Head(pat) = <<"wild", "?">> \/ Head(pat) = <<"char", Head(val)>>) THEN None
  ELSE LET rest == Glob(Tail(val), Tail(pat))
       IN IF rest.ok /\ Head(pat)[1] = "wild" THEN [rest EXCEPT !.vals = <<<<Head(val)>>>> \o @] ELSE rest
Meaning(val, key) == Glob(val, Unescape(key))
===============================================================================
