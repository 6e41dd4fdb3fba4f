--------------------------- MODULE MCSieveMessage ---------------------------
(***************************************************************************)
(* A message with two fields "x" around one "y" and a Content-Length, and  *)
(* two that a filter program may return: one whose empty line is longer    *)
(* than its other line ends make expect, one with a body below an enclosed *)
(* message.                                                                *)
(***************************************************************************)
EXTENDS SieveMessage

F(n, v, i, z) == [name |-> n, val |-> v, size |-> z, id |-> i]

MCSource ==
  <<[hdr |-> <<F("x", "a", 1, 2), F("y", "a", 2, 3), F("Content-Length", "a", 3, 1),
               F("x", "b", 4, 1)>>, eoh |-> 2, guess |-> 2, body |-> 2],
    [hdr |-> <<F("y", "b", 11, 2)>>, eoh |-> 2, guess |-> 1, body |-> 1],
    [hdr |-> <<F("x", "a", 21, 1)>>, eoh |-> 1, guess |-> 2, body |-> 3]>>

P(t, up, h, e) == [type |-> t, parent |-> up, hdrs |-> h, eoh |-> e]
Mixed == <<"multipart", "mixed">>
Html == <<"text", "html">>
PlainText == <<"text", "plain">>

MCMime ==
  <<[parts |-> <<P(Mixed, 0, {"x"}, TRUE), P(Mixed, 1, {"x"}, TRUE),
                 P(Html, 2, {"x"}, TRUE), P(PlainText, 2, {}, TRUE),
                 P(PlainText, 1, {"x"}, FALSE)>>,
     visits |-> <<1, 2, 3, 2, 4, 2, 1, 5, 1>>],
    [parts |-> <<P(PlainText, 0, {"y"}, TRUE)>>, visits |-> <<1>>],
    [parts |-> <<P(Mixed, 0, {"x"}, TRUE), P(Rfc822, 1, {"x"}, TRUE),
                 P(Mixed, 2, {"x"}, TRUE), P(Html, 3, {"x"}, TRUE),
                 P(PlainText, 1, {"x"}, TRUE)>>,
     visits |-> <<1, 2, 3, 4, 3, 1, 5, 1>>]>>
=============================================================================
